------------------------------- MODULE TextIr -------------------------------
(***************************************************************************)
(* The text form of the typed IR: the writer (text_ir.rs) and the reader   *)
(* (text_ir_parser*.rs), which finds its way with prefixes, searches for   *)
(* separators and counts of parentheses.                                   *)
(*                                                                         *)
(* A line is a level of indentation and a sequence of tokens; blanks,      *)
(* brackets, quotes and backslashes are tokens of their own, so a search   *)
(* meets the separators inside a string literal as the code does.          *)
(*                                                                         *)
(*   expression  [k, x, s, a, t]: kind, name or operator or literal        *)
(*               (tokens), type of its symbol, operands, value type        *)
(*   item        [k, x, s, e, f, b]: kind, words, symbols, expressions,    *)
(*               flags, bodies                                             *)
(*                                                                         *)
(* An error of the reader is a bad expression or symbol in what it read.   *)
(***************************************************************************)
EXTENDS Integers, Sequences, SequencesExt

CONSTANTS Exprs,      \* expressions tried in every line that takes one
          Few,        \* expressions for the other places of that line
          Bodies,     \* bodies tried in every block
          DataLists   \* DATA values

VARIABLES prog, facets, text, back, pc

vars == <<prog, facets, text, back, pc>>

Q == "\""
BS == "\\"
Sp == <<" ">>

-----------------------------------------------------------------------------
(* Expressions, typed as the semantic analysis types them *)

Ex(k, x, s, a, t) == [k |-> k, x |-> x, s |-> s, a |-> a, t |-> t]
Bad == Ex("bad", <<>>, "", <<>>, "")

StringLiteral(v) == Ex("string", v, "", <<>>, "string")
IntegerLiteral(n, isGiant) == Ex("integer", <<n>>, "", <<>>, IF isGiant THEN "giant" ELSE "integer")
FloatLiteral(n) == Ex("float", <<n>>, "", <<>>, "float")
Symbol(n, t) == Ex("symbol", <<n>>, t, <<>>, t)
SharedVariable(n, t) == Ex("shared", <<n>>, t, <<>>, t)
ByRef(e) == Ex("byref", <<>>, "", <<e>>, e.t)
Constant(n, v, t) == Ex("constant", <<n>> \o v, "", <<>>, t)
ArrayAccess(n, t, idx) == Ex("array_access", <<n>>, t, idx, t)
OfSymbol(k, n, t) == Ex(k, <<n>>, t, <<>>, "integer")
OfName(k, n) == Ex(k, <<n>>, "", <<>>, "integer")
SizeOfType(t) == Ex("size_of_type", <<>>, t, <<>>, "integer")

comparison(op, l, r) == Ex("compare", op, "", <<l, r>>, "integer")
boolean(op, l, r) == Ex(op, <<>>, "", <<l, r>>, "integer")
not_expr(e) == Ex("not", <<>>, "", <<e>>, "integer")
unary(op, e) ==
    Ex(op, <<>>, "", <<e>>, IF op = "neg" /\ e.t = "string" THEN "integer" ELSE e.t)

is_integer_op(op) == op \in {<<BS>>, <<"mod">>, <<"shl">>, <<"shr">>}
arithmetic(op, l, r) ==
    LET ts == {l.t, r.t}
        t == CASE ts = {"string"} /\ op = <<"+">> -> "string"
               [] "string" \in ts -> "integer"
               [] "giant" \in ts /\ "float" \notin ts -> "giant"
               [] is_integer_op(op) \/ "float" \notin ts -> "integer"
               [] OTHER -> "float"
    IN  Ex("arith", op, "", <<l, r>>, t)

builtin_return_type ==
    ("LEN" :> "integer") @@ ("SQRT" :> "float") @@ ("LEFT$" :> "string")

builtin_param_types ==
    ("LEN" :> <<"string">>) @@ ("SQRT" :> <<"float">>) @@ ("LEFT$" :> <<"string", "integer">>)

\* A value of another type than its place asks for is given the type of the place.
coerce(e, t) == [e EXCEPT !.t = t]

\* Calls of a builtin of the table, of a conversion and of a function of the
\* program, whose name loses its suffix.
function_call(n, args, t) == Ex("call", <<n>>, "", args, t)
builtin_call(n, args) ==
    function_call(n, [i \in DOMAIN args |-> coerce(args[i], builtin_param_types[n][i])],
                  builtin_return_type[n])
conversions == {"ABS", "STR$", "GIANT", "DOUBLE", "SINGLE", "XLONG"}
type_conversion(n, e) ==
    function_call(n, <<e>>, CASE n = "ABS" -> e.t
                              [] n = "STR$" -> "string"
                              [] n = "GIANT" -> "giant"
                              [] n \in {"DOUBLE", "SINGLE"} -> "float"
                              [] OTHER -> "integer")

-----------------------------------------------------------------------------
(* The writer *)

Join(parts, sep) ==
    FlattenSeq([i \in DOMAIN parts |-> IF i = 1 THEN parts[i] ELSE sep \o parts[i]])

\* Rust's debug form of a string.
Quoted(v) ==
    <<Q>> \o FlattenSeq([i \in DOMAIN v |-> CASE v[i] = Q -> <<BS, Q>>
                                             [] v[i] = BS -> <<BS, BS>>
                                             [] v[i] = "NL" -> <<BS, "n">>
                                             [] OTHER -> <<v[i]>>]) \o <<Q>>

emit_symbol(n, t) == n \o <<":", t>>
Literal(v, t) == IF t = "string" THEN <<"string", "(">> \o Quoted(v) \o <<")">>
                 ELSE <<"integer", "(">> \o v \o <<")">>

RECURSIVE emit_expr(_)
emit_expr(e) ==
    LET sub == [i \in DOMAIN e.a |-> emit_expr(e.a[i])]
        body == CASE e.k = "string" -> Quoted(e.x)
                  [] e.k = "constant" ->
                        <<"$$", e.x[1], ":", e.t, " ", "=", " ">> \o Literal(Tail(e.x), e.t)
                  [] e.k = "shared" -> <<"##">> \o emit_symbol(e.x, e.s)
                  [] e.k \in {"symbol", "array_ubound", "size_of"} -> emit_symbol(e.x, e.s)
                  [] e.k = "size_of_type" -> <<e.s>>
                  [] e.k \in {"compare", "arith"} -> sub[1] \o Sp \o e.x \o Sp \o sub[2]
                  [] e.k = "call" -> Join(sub, <<",", " ">>)
                  [] e.k = "array_access" ->
                        emit_symbol(e.x, e.s) \o <<"[">> \o Join(sub, <<",">>) \o <<"]">>
                  [] sub # <<>> -> Join(sub, Sp)
                  [] OTHER -> e.x
    IN  (IF e.k = "call" THEN <<"call", " ">> \o e.x ELSE <<e.k>>) \o <<"(">> \o body \o <<")">>

Item(k, x, s, e, f, b) == [k |-> k, x |-> x, s |-> s, e |-> e, f |-> f, b |-> b]
Sym(n, t) == [n |-> <<n>>, t |-> t]

Line(indent, c) == <<[level |-> indent, c |-> c]>>
Word(w) == <<w, " ">>
Decl(s) == emit_symbol(s.n, s.t)
All(exprs) == [i \in DOMAIN exprs |-> emit_expr(exprs[i])]

\* One side of ATTACH is an expression of kind side, or row for a[i,].
emit_attach_side(e) ==
    emit_symbol(e.x, e.s) \o
    (IF e.a = <<>> /\ e.k = "side" THEN <<>>
     ELSE <<"[">> \o Join(All(e.a), <<",">>) \o (IF e.k = "row" THEN <<",">> ELSE <<>>) \o <<"]">>)

emit_print(it) ==
    IF it.e = <<>> THEN <<"print">>
    ELSE Word("print") \o
         FlattenSeq([i \in DOMAIN it.e |->
            IF i = 1 THEN emit_expr(it.e[i]) ELSE <<" ", it.x[i - 1], " ">> \o emit_expr(it.e[i])])

emit_dim(it) ==
    Word(IF "redim" \in it.f THEN "redim" ELSE "dim")
    \o (IF "shared" \in it.f THEN Word("shared") ELSE <<>>)
    \o Decl(it.s[1])
    \o (IF "array" \in it.f THEN <<"[">> \o Join(All(it.e), <<",">>) \o <<"]">> ELSE <<>>)

emit_const(it) ==
    Word("const") \o <<"$$">> \o Decl(it.s[1]) \o <<" ", "=", " ">> \o Literal(it.x, it.s[1].t)

\* A function's x is its name, its return type and, for a composite, the TYPE's name.
RECURSIVE body_has_explicit_return(_)
body_has_explicit_return(items) ==
    \E i \in DOMAIN items :
        \/ items[i].k = "return" /\ items[i].e # <<>>
        \/ /\ items[i].k \in {"if", "while", "do", "for", "compound"}
           /\ \E j \in DOMAIN items[i].b : body_has_explicit_return(items[i].b[j])

emit_function(it) ==
    Word("function") \o <<it.x[1], "(">>
    \o Join([i \in DOMAIN it.s |-> Decl(it.s[i]) \o IF i \in it.f THEN <<"[", "]">> ELSE <<>>],
            <<",", " ">>)
    \o <<")", " ", "->", " ", it.x[2]>>
    \o (IF Len(it.x) = 3 /\ it.x[3] # "DCOMPLEX" /\ ~body_has_explicit_return(it.b[1])
        THEN <<" ", "composite", " ", it.x[3]>> ELSE <<>>)

emit_assign(it) ==
    LET es == All(it.e)
        target == IF it.k = "shared" THEN <<"##">> \o Decl(it.s[1]) ELSE Decl(it.s[1])
    IN  CASE it.k = "mid_assign" -> Join(es, <<" ", "|", " ">>)
          [] it.k = "builtin_assign" ->
                it.x \o Sp \o Join(Front(es), Sp) \o <<" ", "=", " ">> \o Last(es)
          [] it.k = "array_assign" ->
                target \o <<"[">> \o Join(Tail(es), <<",">>) \o <<"]", " ", "=", " ">> \o es[1]
          [] OTHER -> target \o <<" ", "=", " ">> \o es[1]

\* A line of its own for every item that has no body.
emit_line(it) ==
    LET es == All(it.e)
    IN  CASE it.k \in {"version", "program_name", "gosub", "label", "goto"} -> Word(it.k) \o it.x
          [] it.k = "restore" -> IF it.x = <<>> THEN <<it.k>> ELSE Word(it.k) \o it.x
          [] it.k = "print" -> emit_print(it)
          [] it.k = "dim" -> emit_dim(it)
          [] it.k \in {"assign", "shared", "array_assign", "mid_assign", "builtin_assign"} ->
                Word(it.k) \o emit_assign(it)
          [] it.k = "const" -> emit_const(it)
          [] it.k = "return" -> IF es = <<>> THEN <<it.k>> ELSE Word(it.k) \o es[1]
          [] it.k = "call" -> Word(it.k) \o it.x \o <<"(">> \o Join(es, <<",", " ">>) \o <<")">>
          [] it.k = "swap" -> Word(it.k) \o Decl(it.s[1]) \o Sp \o Decl(it.s[2])
          [] it.k = "attach" -> Word(it.k) \o emit_attach_side(it.e[1]) \o <<" ", "TO", " ">>
                                \o emit_attach_side(it.e[2])
          [] it.k = "read" ->
                Word(it.k) \o Join([i \in DOMAIN it.s |-> Decl(it.s[i])], <<",", " ">>)
          [] it.k \in {"gosub_expr", "goto_expr"} -> Word(it.k) \o es[1]
          [] OTHER -> <<it.k>>

\* The opening lines of loops. DO has its two keywords in x, "" for none.
Keyword(w) == IF w = "" THEN <<>> ELSE <<" ", w, " ">>
emit_do(it) ==
    <<"do">> \o Keyword(it.x[1]) \o (IF it.x[1] = "" THEN <<>> ELSE emit_expr(it.e[1]))
emit_loop(it) ==
    <<"loop">> \o Keyword(it.x[2]) \o (IF it.x[2] = "" THEN <<>> ELSE emit_expr(Last(it.e)))
emit_for(it) ==
    LET es == All(it.e)
    IN  Word("for") \o Decl(it.s[1]) \o <<" ", "=", " ">> \o es[1] \o <<" ", "to", " ">> \o es[2]
        \o (IF Len(es) = 3 THEN <<" ", "step", " ">> \o es[3] ELSE <<>>)

RECURSIVE emit_item(_, _)
emit_items(items, indent) == FlattenSeq([i \in DOMAIN items |-> emit_item(items[i], indent)])

emit_if(it, indent) ==
    Line(indent, Word("if") \o emit_expr(it.e[1])) \o emit_items(it.b[1], indent + 1)
    \o (IF Len(it.b) = 2 THEN Line(indent, <<"else">>) \o emit_items(it.b[2], indent + 1) ELSE <<>>)
    \o Line(indent, <<"end if">>)

\* The cases of a SELECT are items of its body.
emit_select_case(it, indent) ==
    Line(indent, Word("select_case") \o emit_expr(it.e[1]))
    \o FlattenSeq([i \in DOMAIN it.b[1] |->
         LET c == it.b[1][i]
         IN  Line(indent + 1, IF c.k = "case" THEN Word("case") \o Join(All(c.e), <<",", " ">>)
                              ELSE <<"case_else">>)
             \o emit_items(c.b[1], indent + 2)])
    \o Line(indent, <<"end_select">>)

emit_item(it, indent) ==
    LET Block(open, close) ==
            Line(indent, open) \o emit_items(it.b[1], indent + 1) \o Line(indent, close)
    IN  CASE it.k = "nop" -> <<>>
          [] it.k = "compound" -> emit_items(it.b[1], indent)
          [] it.k = "if" -> emit_if(it, indent)
          [] it.k = "select_case" -> emit_select_case(it, indent)
          [] it.k = "while" -> Block(Word("while") \o emit_expr(it.e[1]), <<"wend">>)
          [] it.k = "do" -> Block(emit_do(it), emit_loop(it))
          [] it.k = "for" -> Block(emit_for(it), <<"next">>)
          [] it.k = "function" -> Block(emit_function(it), <<"end function">>)
          [] OTHER -> Line(indent, emit_line(it))

emit_data(values) ==
    IF values = <<>> THEN <<>>
    ELSE Line(0, <<"data">> \o
                 FlattenSeq([i \in DOMAIN values |-> <<" ", values[i].tag, ":">> \o values[i].val]))

\* The version and program name, the facet lines, the rest, the data.
emit_program_with_facets(p, fs) ==
    LET head == {i \in DOMAIN p.items :
                    \A j \in 1 .. i : p.items[j].k \in {"version", "program_name"}}
        n == Cardinality(head)
    IN  emit_items(SubSeq(p.items, 1, n), 0) \o fs
        \o emit_items(SubSeq(p.items, n + 1, Len(p.items)), 0) \o emit_data(p.data)

-----------------------------------------------------------------------------
(* Searches, as str's find, rfind, split, trim and strip_prefix make them *)

At(s, i, p) == i + Len(p) - 1 <= Len(s) /\ \A j \in DOMAIN p : s[i + j - 1] = p[j]
Hits(s, p) == {i \in DOMAIN s : At(s, i, p)}
Find(s, p) == IF Hits(s, p) = {} THEN 0 ELSE Min(Hits(s, p))
RFind(s, p) == IF Hits(s, p) = {} THEN 0 ELSE Max(Hits(s, p))
Upto(s, i) == SubSeq(s, 1, i - 1)
From(s, i) == SubSeq(s, i, Len(s))
Starts(s, w) == At(s, 1, Word(w))
Rest(s, w) == From(s, 3)

Trim(s) ==
    LET ink == {i \in DOMAIN s : s[i] # " "}
    IN  IF ink = {} THEN <<>> ELSE SubSeq(s, Min(ink), Max(ink))

RECURSIVE Split(_, _)
Split(s, p) == LET i == Find(s, p)
               IN  IF i = 0 THEN <<s>> ELSE <<Upto(s, i)>> \o Split(From(s, i + Len(p)), p)

-----------------------------------------------------------------------------
(* The reader: expressions *)

\* The parenthesis that closes the one before s; strings are skipped, with their
\* escapes. 0 when there is none.
RECURSIVE StringEnd(_, _)
StringEnd(s, i) ==
    IF i > Len(s) \/ s[i] = Q THEN i ELSE StringEnd(s, IF s[i] = BS THEN i + 2 ELSE i + 1)

RECURSIVE extract_parens(_, _, _)
extract_parens(s, i, depth) ==
    CASE i > Len(s) -> 0
      [] s[i] = ")" /\ depth = 1 -> i
      [] s[i] = ")" /\ depth > 1 -> extract_parens(s, i + 1, depth - 1)
      [] s[i] = "(" -> extract_parens(s, i + 1, depth + 1)
      [] s[i] = Q -> extract_parens(s, StringEnd(s, i + 1) + 1, depth)
      [] OTHER -> extract_parens(s, i + 1, depth)

parse_type(s) ==
    IF Len(s) = 1 /\ s[1] \in {"integer", "giant", "float", "string"} THEN s[1] ELSE "bad"

parse_symbol(s) ==
    LET colon == Find(s, <<":">>)
    IN  IF colon = 0 THEN [n |-> <<>>, t |-> "bad"]
        ELSE [n |-> Upto(s, colon), t |-> parse_type(Trim(From(s, colon + 1)))]

RECURSIVE Unescaped(_)
Unescaped(s) ==
    IF s = <<>> THEN <<>>
    ELSE IF s[1] # BS THEN <<s[1]>> \o Unescaped(Tail(s))
    ELSE IF Len(s) = 1 THEN <<"bad">>
    ELSE <<IF s[2] = "n" THEN "NL" ELSE s[2]>> \o Unescaped(From(s, 3))

parse_rust_string(s0) ==
    LET s == Trim(s0)
    IN  IF Len(s) < 2 \/ s[1] # Q \/ Last(s) # Q THEN Bad
        ELSE StringLiteral(Unescaped(SubSeq(s, 2, Len(s) - 1)))

\* The first operator a text starts with, in the order the code tries them, the
\* longer before its prefixes.
cmp_ops == <<<<"<", ">">>, <<"<", "=">>, <<">", "=">>, <<"=">>, <<"<">>, <<">">>>>
arith_ops == <<<<"*", "*">>, <<"+">>, <<"-">>, <<"*">>, <<"/">>, <<BS>>, <<"mod">>, <<"shl">>, <<"shr">>>>
parse_op(s, ops) ==
    LET fits == {i \in DOMAIN ops : At(s, 1, ops[i])}
    IN  IF fits = {} THEN <<"bad">> ELSE ops[Min(fits)]

infer_arith_typeFloat(op, l, r) == IF "float" \in {l.t, r.t} THEN "float" ELSE "integer"

infer_arith_type(op, l, r) ==
    CASE op = <<"+">> /\ "string" \in {l.t, r.t} -> "string"
      [] op \in {<<BS>>, <<"mod">>} -> "integer"
      [] "float" \in {l.t, r.t} -> "float"
      [] OTHER -> "integer"

\* The names of calls that end in a $.
dollar_names == {"LEFT$", "STR$"}

call_type(name, args) ==
    CASE name \in dollar_names -> "string"
      [] name = "ABS" /\ args # <<>> -> args[1].t
      [] name \in {"GIANT", "GMAKE", "GIANTAT"} -> "giant"
      [] name \in DOMAIN builtin_return_type -> builtin_return_type[name]
      [] OTHER -> "integer"

Got(e, rest) == [e |-> e, rest |-> rest]

RECURSIVE parse_sub_expr(_)
parse_expr(s) ==
    LET Whole(g) == IF Trim(g.rest) = <<>> THEN g.e ELSE Bad IN Whole(parse_sub_expr(s))

RECURSIVE parse_list(_)
parse_list(s) ==
    LET After(e, r) ==
            IF r # <<>> /\ r[1] = "," THEN <<e>> \o parse_list(Trim(Tail(r))) ELSE <<e>>
        First(g) == After(g.e, Trim(g.rest))
    IN  First(parse_sub_expr(s))
parse_args(s) == IF Trim(s) = <<>> THEN <<>> ELSE parse_list(Trim(s))

parse_constant(c) ==
    LET colon == Find(c, <<":">>)
        eq == Find(c, <<"=">>)
        v == parse_sub_expr(Trim(From(c, eq + 1))).e
    IN  IF c = <<>> \/ c[1] # "$$" \/ colon = 0 \/ eq < colon \/ v.k \notin {"integer", "string"}
        THEN Bad
        ELSE Ex("constant", SubSeq(c, 2, colon - 1) \o v.x, "", <<>>,
                parse_type(Trim(SubSeq(c, colon + 1, eq - 1))))

parse_binary(k, c) ==
    LET l == parse_sub_expr(c)
        al == Trim(l.rest)
        op == CASE k = "compare" -> parse_op(al, cmp_ops)
                [] k = "arith" -> parse_op(al, arith_ops)
                [] OTHER -> <<>>
        r == parse_sub_expr(Trim(From(al, Len(op) + 1))).e
    IN  Ex(k, op, "", <<l.e, r>>, IF k = "arith" THEN infer_arith_type(op, l.e, r) ELSE "integer")

parse_array_access(c) ==
    LET lb == Find(c, <<"[">>)
        rb == RFind(c, <<"]">>)
        Access(sym, idx) == IF lb = 0 \/ rb < lb \/ idx = <<>> THEN Bad
                            ELSE Ex("array_access", sym.n, sym.t, idx, sym.t)
    IN  Access(parse_symbol(Trim(Upto(c, lb))), parse_args(SubSeq(c, lb + 1, rb - 1)))

parse_simple(k, c) ==
    LET sym == parse_symbol(Trim(IF k = "shared" /\ c # <<>> /\ c[1] = "##" THEN Tail(c) ELSE c))
        inner == parse_expr(Trim(c))
    IN  CASE k = "string" -> parse_rust_string(c)
          [] k \in {"integer", "float"} -> Ex(k, Trim(c), "", <<>>, k)
          [] k \in {"symbol", "shared"} -> Ex(k, sym.n, sym.t, <<>>, sym.t)
          [] k = "byref" -> Ex(k, <<>>, "", <<inner>>, inner.t)

parse_about(k, c) ==
    LET sym == parse_symbol(Trim(c))
        t == parse_type(Trim(c))
    IN  CASE k \in {"array_ubound", "size_of"} -> Ex(k, sym.n, sym.t, <<>>, "integer")
          [] k \in {"funcaddr", "label_addr"} -> Ex(k, Trim(c), "", <<>>, "integer")
          [] k = "size_of_type" -> IF t \in {"giant", "bad"} THEN Bad ELSE SizeOfType(t)

parse_unary(k, c) ==
    LET inner == parse_sub_expr(c).e
    IN  Ex(k, <<>>, "", <<inner>>, IF k = "not" THEN "integer" ELSE inner.t)

\* One form of expression for each word before the parenthesis.
parse_form(k, c) ==
    CASE k \in {"string", "integer", "float", "symbol", "shared", "byref"} -> parse_simple(k, c)
      [] k = "constant" -> parse_constant(Trim(c))
      [] k \in {"not", "neg", "pos"} -> parse_unary(k, c)
      [] k \in {"compare", "arith", "and", "or", "xor", "land", "lor", "lxor"} -> parse_binary(k, c)
      [] k = "array_access" -> parse_array_access(c)
      [] k \in {"array_ubound", "size_of", "funcaddr", "label_addr", "size_of_type"} ->
            parse_about(k, c)
      [] OTHER -> Bad

parse_sub_expr(s0) ==
    LET s == Trim(s0)
        p == Find(s, <<"(">>)
        prefix == Trim(Upto(s, p))
        after == From(s, p + 1)
        close == extract_parens(after, 1, 1)
        c == Upto(after, close)
        rest == From(after, close + 1)
    IN  IF p = 0 \/ close = 0 THEN Got(Bad, <<>>)
        ELSE IF Starts(prefix, "call")
        THEN LET args == parse_args(c)
             IN  Got(Ex("call", Rest(prefix, "call"), "", args, call_type(prefix[3], args)), rest)
        ELSE Got(IF Len(prefix) = 1 THEN parse_form(prefix[1], c) ELSE Bad, rest)

-----------------------------------------------------------------------------
(* The reader: items *)

BadItem == Item("bad", <<>>, <<>>, <<>>, {}, <<>>)

\* PRINT's separators are those outside parentheses, whether in a string or not.
RECURSIVE parse_print_items(_, _, _, _)
parse_print_items(s, i, start, depth) ==
    LET this == parse_expr(Trim(SubSeq(s, start, i - 1)))
        more == parse_print_items(s, i + 1, i + 1, depth)
    IN  CASE i > Len(s) -> [e |-> <<this>>, x |-> <<>>]
          [] s[i] = "(" -> parse_print_items(s, i + 1, start, depth + 1)
          [] s[i] = ")" -> parse_print_items(s, i + 1, start, depth - 1)
          [] s[i] \in {";", ","} /\ depth = 0 -> [e |-> <<this>> \o more.e, x |-> <<s[i]>> \o more.x]
          [] OTHER -> parse_print_items(s, i + 1, start, depth)

\* name[sizes] after the words of the line.
parse_dim_symbol(rest, flags) ==
    LET br == Find(rest, <<"[">>)
        rb == RFind(rest, <<"]">>)
        Dim(name, sizes, array) == Item("dim", <<>>, <<parse_symbol(Trim(name))>>, sizes, flags \cup array, <<>>)
    IN  IF br # 0 /\ rb = 0 THEN BadItem
        ELSE IF br = 0 THEN Dim(rest, <<>>, {})
        ELSE Dim(Upto(rest, br), parse_args(SubSeq(rest, br + 1, rb - 1)), {"array"})

parse_dim(c) ==
    LET redim == Starts(c, "redim")
        shared == Starts(From(c, 3), "shared")
    IN  parse_dim_symbol(From(c, IF shared THEN 5 ELSE 3),
                         (IF redim THEN {"redim"} ELSE {}) \cup (IF shared THEN {"shared"} ELSE {}))

\* assign, shared: what follows the first " = " is the value.
parse_assign(k, rest) ==
    LET eq == Find(rest, <<" ", "=", " ">>)
    IN  IF eq = 0 THEN BadItem
        ELSE Item(k, <<>>, <<parse_symbol(Trim(Upto(rest, eq)))>>, <<parse_expr(From(rest, eq + 3))>>,
                  {}, <<>>)

parse_array_assign(rest) ==
    LET br == Find(rest, <<"[">>)
        rb == Find(rest, <<"]", " ", "=", " ">>)
        Assigned(idx) == IF br = 0 \/ rb < br \/ idx = <<>> THEN BadItem
                         ELSE Item("array_assign", <<>>, <<parse_symbol(Trim(Upto(rest, br)))>>,
                                   <<parse_expr(From(rest, rb + 4))>> \o idx, {}, <<>>)
    IN  Assigned(parse_args(SubSeq(rest, br + 1, rb - 1)))

parse_mid_assign(rest) ==
    LET parts == Split(rest, <<" ", "|", " ">>)
    IN  IF Len(parts) \notin {3, 4} THEN BadItem
        ELSE Item("mid_assign", <<>>, <<>>, [i \in DOMAIN parts |-> parse_expr(parts[i])], {}, <<>>)

parse_builtin_assign(rest) ==
    LET eq == RFind(rest, <<" ", "=", " ">>)
        before == Upto(rest, eq)
        sp == Find(before, Sp)
        args == IF From(before, sp + 1) = <<>> THEN <<>> ELSE Split(From(before, sp + 1), Sp)
    IN  IF eq = 0 \/ sp = 0 THEN BadItem
        ELSE Item("builtin_assign", Upto(before, sp), <<>>,
                  [i \in DOMAIN args |-> parse_expr(args[i])] \o <<parse_expr(From(rest, eq + 3))>>,
                  {}, <<>>)

\* The value is what the outermost parentheses hold: the last one ends the line.
parse_const(rest) ==
    LET c == From(rest, 2)
        eq == Find(c, <<" ", "=", " ">>)
        vs == Trim(From(c, eq + 3))
        in == SubSeq(vs, 3, Len(vs) - 1)
        lit == parse_rust_string(in)
    IN  IF rest[1] # "$$" \/ eq = 0 \/ Len(vs) < 3 \/ vs[2] # "(" \/ Last(vs) # ")" THEN BadItem
        ELSE Item("const", IF vs[1] = "string" THEN lit.x ELSE in, <<parse_symbol(Upto(c, eq))>>,
                  <<>>, {}, <<>>)

\* The first " TO " outside brackets and strings; a quote ends a string even when
\* it is escaped.
split_attach_sidesFirst(s, i, depth, inString) == Find(s, <<" ", "TO", " ">>)

RECURSIVE split_attach_sides(_, _, _, _)
split_attach_sides(s, i, depth, inString) ==
    CASE i > Len(s) -> 0
      [] inString -> split_attach_sides(s, i + 1, depth, s[i] # Q)
      [] s[i] = Q -> split_attach_sides(s, i + 1, depth, TRUE)
      [] s[i] \in {"[", "("} -> split_attach_sides(s, i + 1, depth + 1, FALSE)
      [] s[i] \in {"]", ")"} -> split_attach_sides(s, i + 1, IF depth = 0 THEN 0 ELSE depth - 1, FALSE)
      [] depth = 0 /\ At(s, i, <<" ", "TO", " ">>) -> i
      [] OTHER -> split_attach_sides(s, i + 1, depth, FALSE)

parse_attach_side(s) ==
    LET br == Find(s, <<"[">>)
        sym == parse_symbol(Trim(IF br = 0 THEN s ELSE Upto(s, br)))
        inner == Trim(SubSeq(s, br + 1, Len(s) - 1))
        row == inner # <<>> /\ Last(inner) = ","
    IN  IF br = 0 THEN Ex("side", sym.n, sym.t, <<>>, sym.t)
        ELSE IF Last(s) # "]" THEN Bad
        ELSE Ex(IF row THEN "row" ELSE "side", sym.n, sym.t,
                parse_args(IF row THEN Front(inner) ELSE inner), sym.t)

parse_attach(rest) ==
    LET i == split_attach_sides(rest, 1, 0, FALSE)
    IN  IF i = 0 THEN BadItem
        ELSE LET sides == <<Upto(rest, i), From(rest, i + 3)>>
             IN  Item("attach", <<>>, <<>>, [j \in 1 .. 2 |-> parse_attach_side(Trim(sides[j]))], {}, <<>>)

parse_read(rest) ==
    LET parts == Split(rest, <<",">>)
    IN  Item("read", <<>>, [i \in DOMAIN parts |-> parse_symbol(Trim(parts[i]))], <<>>, {}, <<>>)

parse_swap(rest) ==
    LET sp == Find(rest, Sp)
    IN  IF sp = 0 THEN BadItem
        ELSE Item("swap", <<>>, <<parse_symbol(Upto(rest, sp)), parse_symbol(From(rest, sp + 1))>>,
                  <<>>, {}, <<>>)

Alone(k) == Item(k, <<>>, <<>>, <<>>, {}, <<>>)
Named(k, c) == Item(k, Trim(From(c, 3)), <<>>, <<>>, {}, <<>>)

parse_head(c) ==
    LET g == parse_print_items(From(c, 3), 1, 1, 0)
    IN  CASE c[1] = "facet" -> Alone("nop")
          [] c[1] = "print" -> IF Len(c) = 1 THEN Alone("print") ELSE Item("print", g.x, <<>>, g.e, {}, <<>>)
          [] OTHER -> Named(c[1], c)

\* The items of one line.
parse_line(c) ==
    LET w == c[1]
        rest == From(c, 3)
        bare == Len(c) = 1
        One(k) == Item(k, <<>>, <<>>, <<parse_expr(rest)>>, {}, <<>>)
    IN  CASE w \in {"version", "facet", "program_name", "print"} -> parse_head(c)
          [] w \in {"dim", "redim"} -> parse_dim(c)
          [] w = "assign" -> parse_assign(w, rest)
          [] w = "shared" -> IF rest[1] = "##" THEN parse_assign(w, Tail(rest)) ELSE BadItem
          [] w = "array_assign" -> parse_array_assign(rest)
          [] w = "attach" -> parse_attach(rest)
          [] w = "mid_assign" -> parse_mid_assign(rest)
          [] w = "builtin_assign" -> parse_builtin_assign(rest)
          [] w = "const" -> parse_const(rest)
          [] w = "return" -> IF bare THEN Alone(w) ELSE One(w)
          [] w \in {"exit_loop", "exit_select", "stop", "gosub_return"} /\ bare -> Alone(w)
          [] w = "swap" -> parse_swap(rest)
          [] w = "read" -> parse_read(rest)
          [] w \in {"restore", "gosub", "label", "goto"} -> Named(w, c)
          [] w \in {"gosub_expr", "goto_expr"} -> One(w)
          [] OTHER -> LET e == parse_expr(c)
                      IN  IF e.k = "call" THEN Item("call", e.x, <<>>, e.a, {}, <<>>) ELSE BadItem

parse_params(s) ==
    LET parts == IF Trim(s) = <<>> THEN <<>> ELSE Split(s, <<",">>)
        array(i) == At(Trim(parts[i]), Len(Trim(parts[i])) - 1, <<"[", "]">>)
        bare(i) == IF array(i) THEN Upto(Trim(parts[i]), Len(Trim(parts[i])) - 1) ELSE Trim(parts[i])
    IN  [s |-> [i \in DOMAIN parts |-> parse_symbol(bare(i))], f |-> {i \in DOMAIN parts : array(i)}]

\* What a line opens: the item without its bodies.
parse_for(rest) ==
    LET eq == Find(rest, <<" ", "=", " ">>)
        after == From(rest, eq + 3)
        to == Find(after, <<" ", "to", " ">>)
        end == From(after, to + 3)
        sp == Find(end, <<" ", "step", " ">>)
    IN  IF eq = 0 \/ to = 0 THEN BadItem
        ELSE Item("for", <<>>, <<parse_symbol(Trim(Upto(rest, eq)))>>,
                  <<parse_expr(Upto(after, to))>> \o
                  (IF sp = 0 THEN <<parse_expr(end)>>
                   ELSE <<parse_expr(Upto(end, sp)), parse_expr(From(end, sp + 3))>>), {}, <<>>)

parse_function(rest) ==
    LET lp == Find(rest, <<"(">>)
        rp == Find(rest, <<")">>)
        arrow == Find(rest, <<"->", " ">>)
        Function(ps) == Item("function", Upto(rest, lp) \o <<parse_type(Trim(From(rest, arrow + 2)))>>,
                             ps.s, <<>>, ps.f, <<>>)
    IN  Function(parse_params(SubSeq(rest, lp + 1, rp - 1)))

-----------------------------------------------------------------------------
(* The reader: blocks *)

Closers == {<<"end if">>, <<"else">>, <<"wend">>, <<"next">>, <<"end function">>, <<"loop">>,
            <<"end_select">>, <<"case_else">>}
is_closer(c) == c \in Closers \/ Starts(c, "case") \/ Starts(c, "data")

\* Read so far: the items, and the line the reader stands at (past the last one
\* after an error).
Now(v, idx) == [v |-> v, idx |-> idx]
Fail(lines) == Now(BadItem, Len(lines) + 1)
Is(lines, idx, c) == idx <= Len(lines) /\ lines[idx].c = c

RECURSIVE parse_item(_, _, _)
RECURSIVE parse_items(_, _, _)
parse_items(lines, idx, indent) ==
    IF idx > Len(lines) \/ lines[idx].level < indent THEN Now(<<>>, idx)
    ELSE IF lines[idx].level > indent THEN Now(<<BadItem>>, Len(lines) + 1)
    ELSE IF is_closer(lines[idx].c) THEN Now(<<>>, idx)
    ELSE LET Both(v, more) == Now(<<v>> \o more.v, more.idx)
             After(first) == Both(first.v, parse_items(lines, first.idx, indent))
         IN  After(parse_item(lines, idx, indent))

parse_if(lines, idx, indent) ==
    LET then == parse_items(lines, idx + 1, indent + 1)
        has == Is(lines, then.idx, <<"else">>)
        else == parse_items(lines, then.idx + 1, indent + 1)
        end == IF has THEN else.idx ELSE then.idx
    IN  IF ~Is(lines, end, <<"end if">>) THEN Fail(lines)
        ELSE Now(Item("if", <<>>, <<>>, <<parse_expr(From(lines[idx].c, 3))>>, {},
                      IF has THEN <<then.v, else.v>> ELSE <<then.v>>), end + 1)

\* WHILE, FOR and FUNCTION: open is the item of the first line.
parse_block(open, lines, idx, indent, close) ==
    LET body == parse_items(lines, idx + 1, indent + 1)
    IN  IF ~Is(lines, body.idx, close) THEN Fail(lines)
        ELSE Now([open EXCEPT !.b = <<body.v>>], body.idx + 1)

\* The keyword and condition of a DO or LOOP line: "do while e" is do, blank, while.
LoopWord(c) == IF Len(c) > 2 /\ c[3] \in {"while", "until"} THEN c[3] ELSE ""
LoopCondition(c) == IF LoopWord(c) = "" THEN <<>> ELSE <<parse_expr(From(c, 5))>>

parse_loop_condition(c) == c = <<"loop">> \/ (c # <<>> /\ c[1] = "loop" /\ LoopWord(c) # "")

parse_do(lines, idx, indent) ==
    LET c == lines[idx].c
        body == parse_items(lines, idx + 1, indent + 1)
    IN  IF body.idx > Len(lines) \/ ~parse_loop_condition(lines[body.idx].c) THEN Fail(lines)
        ELSE LET p == lines[body.idx].c
             IN  Now(Item("do", <<LoopWord(c), LoopWord(p)>>, <<>>,
                          LoopCondition(c) \o LoopCondition(p), {}, <<body.v>>), body.idx + 1)

\* The conditions of a CASE are split at every comma.
RECURSIVE parse_cases(_, _, _)
parse_cases(lines, idx, indent) ==
    LET c == lines[idx].c
        conds == Split(From(c, 3), <<",">>)
        body == parse_items(lines, idx + 1, indent + 2)
        more == parse_cases(lines, body.idx, indent)
        clause == IF c = <<"case_else">> THEN Item("case_else", <<>>, <<>>, <<>>, {}, <<body.v>>)
                  ELSE Item("case", <<>>, <<>>, [i \in DOMAIN conds |-> parse_expr(Trim(conds[i]))],
                            {}, <<body.v>>)
    IN  IF idx > Len(lines) THEN Now(<<BadItem>>, idx)
        ELSE IF c = <<"end_select">> THEN Now(<<>>, idx + 1)
        ELSE IF c = <<"case_else">> \/ Starts(c, "case") THEN Now(<<clause>> \o more.v, more.idx)
        ELSE Now(<<BadItem>>, Len(lines) + 1)

parse_select_case(lines, idx, indent) ==
    LET g == parse_cases(lines, idx + 1, indent)
    IN  Now(Item("select_case", <<>>, <<>>, <<parse_expr(From(lines[idx].c, 3))>>, {}, <<g.v>>), g.idx)

parse_item(lines, idx, indent) ==
    LET c == lines[idx].c
    IN  CASE Starts(c, "if") -> parse_if(lines, idx, indent)
          [] Starts(c, "while") ->
                parse_block(Item("while", <<>>, <<>>, <<parse_expr(From(c, 3))>>, {}, <<>>),
                            lines, idx, indent, <<"wend">>)
          [] c[1] = "do" -> parse_do(lines, idx, indent)
          [] Starts(c, "for") -> parse_block(parse_for(From(c, 3)), lines, idx, indent, <<"next">>)
          [] Starts(c, "function") ->
                parse_block(parse_function(From(c, 3)), lines, idx, indent, <<"end function">>)
          [] Starts(c, "select_case") -> parse_select_case(lines, idx, indent)
          [] OTHER -> Now(parse_line(c), idx + 1)

\* The data line: words of the form tag:value.
parse_data(c) ==
    LET words == SelectSeq(Split(From(c, 3), Sp), LAMBDA w : Find(w, <<":">>) # 0)
    IN  [i \in DOMAIN words |-> [tag |-> words[i][1], val |-> From(words[i], 3)]]

parse(lines) ==
    LET After(g) ==
            LET data == {i \in g.idx .. Len(lines) : Starts(lines[i].c, "data")}
            IN  [items |-> g.v, data |-> IF data = {} THEN <<>> ELSE parse_data(lines[Min(data)].c)]
    IN  After(parse_items(lines, 1, 0))

-----------------------------------------------------------------------------
(* Programs: one for every line with an expression, and nested blocks *)

LineItems(e, f) ==
    LET I(k, x, s, es) == Item(k, x, s, es, {}, <<>>)
        v == <<Sym("v", e.t)>>
        w == <<Sym("w", "float")>>
        side == Ex("side", <<"t">>, "string", <<e>>, "string")
        string == Symbol("s", "string")
    IN  {I("print", <<>>, <<>>, <<e>>), I("print", <<";">>, <<>>, <<e>>),
         I("print", <<";">>, <<>>, <<e, f>>), I("print", <<",", ";">>, <<>>, <<f, e, f>>),
         Item("dim", <<>>, v, <<e>>, {"array"}, <<>>),
         Item("dim", <<>>, v, <<f, e>>, {"array", "redim", "shared"}, <<>>),
         I("assign", <<>>, v, <<e>>), I("shared", <<>>, v, <<e>>),
         I("assign", <<>>, w, <<coerce(e, "float")>>),
         I("array_assign", <<>>, w, <<coerce(e, "float"), f>>), I("return", <<>>, <<>>, <<coerce(e, "float")>>),
         I("array_assign", <<>>, v, <<e, f>>), I("array_assign", <<>>, <<Sym("v", f.t)>>, <<f, f, e>>),
         I("mid_assign", <<>>, <<>>, <<string, e, f>>), I("mid_assign", <<>>, <<>>, <<string, f, f, e>>),
         I("builtin_assign", <<"XLONGAT">>, <<>>, <<e, f>>),
         I("builtin_assign", <<"XLONGAT">>, <<>>, <<f, f, e>>),
         I("return", <<>>, <<>>, <<e>>), I("call", <<"F">>, <<>>, <<e>>),
         I("call", <<"F">>, <<>>, <<f, e>>),
         I("attach", <<>>, <<>>, <<side, Ex("row", <<"u">>, "string", <<f>>, "string")>>),
         I("attach", <<>>, <<>>, <<Ex("side", <<"u">>, "string", <<>>, "string"),
                                   [side EXCEPT !.a = <<f, e>>]>>),
         I("gosub_expr", <<>>, <<>>, <<e>>), I("goto_expr", <<>>, <<>>, <<e>>),
         Item("if", <<>>, <<>>, <<e>>, {}, <<<<>>>>), Item("while", <<>>, <<>>, <<e>>, {}, <<<<>>>>),
         Item("do", <<"until", "while">>, <<>>, <<f, e>>, {}, <<<<>>>>),
         Item("do", <<"while", "">>, <<>>, <<e>>, {}, <<<<>>>>),
         Item("do", <<"", "until">>, <<>>, <<e>>, {}, <<<<>>>>),
         Item("for", <<>>, <<Sym("i", "integer")>>, <<e, f>>, {}, <<<<>>>>),
         Item("for", <<>>, <<Sym("i", "integer")>>, <<f, e, f>>, {}, <<<<>>>>),
         Item("select_case", <<>>, <<>>, <<f>>, {},
              <<<<Item("case", <<>>, <<>>, <<f, e>>, {}, <<<<>>>>)>>>>)}

\* The blocks with body b (and another body d).
Blocks(b, d) ==
    LET e == Symbol("x", "integer")
        I(k, x, s, es, f, bs) == Item(k, x, s, es, f, bs)
        params == <<Sym("p", "string"), Sym("q", "giant")>>
    IN  {I("if", <<>>, <<>>, <<e>>, {}, <<b>>), I("if", <<>>, <<>>, <<e>>, {}, <<b, d>>),
         I("while", <<>>, <<>>, <<e>>, {}, <<b>>), I("do", <<"", "">>, <<>>, <<>>, {}, <<b>>),
         I("do", <<"while", "until">>, <<>>, <<e, e>>, {}, <<b>>),
         I("for", <<>>, <<Sym("i", "integer")>>, <<e, e>>, {}, <<b>>),
         I("select_case", <<>>, <<>>, <<e>>, {},
           <<<<I("case", <<>>, <<>>, <<e, e>>, {}, <<b>>), I("case", <<>>, <<>>, <<e>>, {}, <<d>>),
               I("case_else", <<>>, <<>>, <<>>, {}, <<d>>)>>>>),
         I("function", <<"F", "float">>, params, <<>>, {2}, <<b>>),
         I("function", <<"F", "integer", "POINT">>, <<>>, <<>>, {}, <<b>>),
         I("compound", <<>>, <<>>, <<>>, {}, <<b>>), I("nop", <<>>, <<>>, <<>>, {}, <<>>)}

Facet == Line(0, <<"facet", " ", "v", ":", "dyn">>)

Init ==
    /\ \/ \E e \in Exprs, f \in Few : \E it \in LineItems(e, f) :
            prog = [items |-> <<it>>, data |-> <<>>] /\ facets = <<>>
       \/ \E b, d \in Bodies : \E inner \in Blocks(b, d) : \E outer \in Blocks(<<inner>> \o d, b) :
          \E values \in DataLists :
            /\ prog = [items |-> b \o <<outer>>, data |-> values]
            /\ facets \in {<<>>, Facet}
    /\ text = <<>> /\ back = [items |-> <<>>, data |-> <<>>]
    /\ pc = "emit"

Emit ==
    /\ pc = "emit" /\ pc' = "parse"
    /\ text' = emit_program_with_facets(prog, facets)
    /\ UNCHANGED <<prog, facets, back>>

Parse ==
    /\ pc = "parse" /\ pc' = "done"
    /\ back' = parse(text)
    /\ UNCHANGED <<prog, facets, text>>

Next == Emit \/ Parse
Spec == Init /\ [][Next]_vars

-----------------------------------------------------------------------------
(* What the text can and cannot carry *)

\* The text has no compound and no nop.
RECURSIVE Plain(_)
Plain(items) ==
    FlattenSeq([i \in DOMAIN items |->
        CASE items[i].k = "nop" -> <<>>
          [] items[i].k = "compound" -> Plain(items[i].b[1])
          [] OTHER -> <<[items[i] EXCEPT !.b = [j \in DOMAIN @ |-> Plain(@[j])]]>>])

RECURSIVE SubExprs(_)
SubExprs(e) == {e} \cup UNION {SubExprs(e.a[i]) : i \in DOMAIN e.a}
RECURSIVE AllItems(_)
AllItems(items) ==
    Range(items) \cup UNION {UNION {AllItems(it.b[j]) : j \in DOMAIN it.b} : it \in Range(items)}

Holds(e, p) == Find(emit_expr(e), p) # 0
Text(e, chars) ==
    \E u \in SubExprs(e) : u.k \in {"string", "constant"} /\ Range(u.x) \cap chars # {}

\* Lines the reader misreads: a separator of the line inside one of its expressions,
\* and the composite mark of a function header.
Misread(it) ==
    CASE it.k = "print" -> \E i \in DOMAIN it.e : Text(it.e[i], {"(", ")"})
      [] it.k = "case" -> \E i \in DOMAIN it.e : Holds(it.e[i], <<",">>)
      [] it.k = "builtin_assign" ->
            \/ Holds(Last(it.e), <<" ", "=", " ">>)
            \/ \E i \in 1 .. Len(it.e) - 1 : Holds(it.e[i], Sp)
      [] it.k = "array_assign" -> \E i \in 2 .. Len(it.e) : Holds(it.e[i], <<"]", " ", "=", " ">>)
      [] it.k = "mid_assign" -> \E i \in DOMAIN it.e : Holds(it.e[i], <<" ", "|", " ">>)
      [] it.k = "for" -> \E i \in DOMAIN it.e : \E w \in {"to", "step"} : Holds(it.e[i], <<" ", w, " ">>)
      [] it.k = "attach" -> \E i \in DOMAIN it.e : Text(it.e[i], {Q})
      [] it.k = "function" -> Len(it.x) = 3 /\ ~body_has_explicit_return(it.b[1])
      [] OTHER -> FALSE

\* A string constant where a number is asked for is written without quotes and escapes.
Unquoted(e) ==
    \E u \in SubExprs(e) : u.k = "constant" /\ u.t # "string" /\ Range(Tail(u.x)) \cap {"(", ")", Q} # {}

MisreadData == \E i \in DOMAIN prog.data : Find(prog.data[i].val, Sp) # 0

\* The type an expression has when it comes back: that of its symbol or its literal, or the
\* one the analysis gives it, but for a giant sum, a string and a number in one operation, a
\* shift of a float, a minus of a string, calls of functions and the conversions to floating
\* point, for which the reader has no arm.  A constant's type is in the text.
Told(e) ==
    LET ts == {e.a[i].t : i \in DOMAIN e.a}
        mixed == "string" \in ts /\ ts # {"string"}
        Arith(op) ==
            CASE ts \cap {"float", "string"} = {} -> "integer"
              [] mixed /\ op = <<"+">> -> "string"
              [] "float" \in ts /\ (mixed \/ is_integer_op(op)) /\ op \notin {<<BS>>, <<"mod">>} -> "float"
              [] OTHER -> arithmetic(op, e.a[1], e.a[2]).t
    IN  CASE e.k = "constant" -> e.t
          [] e.k \in {"symbol", "shared", "array_access", "side", "row"} -> e.s
          [] e.k \in {"string", "float"} -> e.k
          [] e.k \in {"neg", "pos", "byref"} -> e.a[1].t
          [] e.k = "arith" -> Arith(e.x)
          [] e.k = "call" /\ e.x[1] \in DOMAIN builtin_return_type -> builtin_return_type[e.x[1]]
          [] e.k = "call" /\ e.x[1] \in conversions \ {"DOUBLE", "SINGLE"} ->
                type_conversion(e.x[1], e.a[1]).t
          [] OTHER -> "integer"

\* What is lost: a type that is not the one told, of a coerced value too; the separator that
\* ends a PRINT; the composite type of a function with an explicit RETURN.
Lost(it) ==
    \/ \E i \in DOMAIN it.e : \E u \in SubExprs(it.e[i]) : u.t # Told(u)
    \/ it.k = "print" /\ Len(it.x) = Len(it.e) /\ it.e # <<>>
    \/ it.k = "function" /\ Len(it.x) = 3

Readable ==
    /\ ~MisreadData
    /\ \A it \in AllItems(prog.items) : ~Misread(it) /\ \A i \in DOMAIN it.e : ~Unquoted(it.e[i])

ReadAsWritten == Plain(back.items) = Plain(prog.items) /\ back.data = prog.data

-----------------------------------------------------------------------------
\* A program read back from its text is the program written, its types included, whatever
\* its string literals hold, exactly when it has nothing that the text does not say or the
\* reader does not know (Lost); compounds are flat and a header of facets adds nothing.
RoundTrip ==
    pc = "done" /\ Readable => (ReadAsWritten <=> \A it \in AllItems(prog.items) : ~Lost(it))

\* Where the text leaves out a type, writing what was read gives the same text again.
TextStable ==
    pc = "done" /\ Readable =>
        emit_program_with_facets(back, <<>>) = SelectSeq(text, LAMBDA l : l \notin Range(facets))

=============================================================================
