------------------------------ MODULE ParseExpr ------------------------------
(***************************************************************************)
(* The parser's cursor and its expressions (crates/xb-frontend/src:        *)
(* parser_cursor.rs, parser_expr.rs, parser_logical.rs).  The parser is a  *)
(* value: p.t are the tokens, p.i the index of the next one, p.single the  *)
(* flag in_single_line_if, p.types the TYPE names seen so far, p.v the     *)
(* result of the last call, and p.ok turns FALSE with the first Err, which *)
(* every caller passes on (`?`).  Each operator takes and returns a parser *)
(* as its method does.                                                     *)
(*                                                                         *)
(* A token keeps what the parser looks at: its kind, its name, its type    *)
(* suffix and a flag: a `(` that was a brace, a ## name spelt with $$.     *)
(* A name is the sequence of its parts, so a.b is <<"a", ".", "b">> and a$ *)
(* is <<"a", "$">>.                                                        *)
(***************************************************************************)
EXTENDS Integers, Sequences

Tok(k, n, s, b) == [k |-> k, n |-> n, s |-> s, b |-> b]
Kw(n)     == Tok("kw", n, "", FALSE)
Sym(n)    == Tok("sym", n, "", FALSE)
Brace(n)  == Tok("sym", n, "", TRUE)
Id(n)     == Tok("id", n, "", FALSE)
IdS(n, s) == Tok("id", n, s, FALSE)
Shared(n, s) == Tok("shared", n, s, FALSE)
SysVar(n, s) == Tok("sysvar", n, s, FALSE)
DollarVar(n, s) == Tok("sysvar", n, s, TRUE)
SysCon(n) == Tok("syscon", n, "", FALSE)
IntLit(n) == Tok("int", n, "", FALSE)
StrLit(n) == Tok("str", n, "", FALSE)
NewLine   == Tok("nl", "", "", FALSE)
Eof       == Tok("eof", "", "", FALSE)

NewParser(tokens) ==
    [t |-> tokens, i |-> 1, single |-> FALSE,
     types |-> {"DCOMPLEX", "SCOMPLEX"}, ok |-> TRUE, v |-> <<>>]

-----------------------------------------------------------------------------
(* The cursor *)

Peek(p) == IF p.i \in DOMAIN p.t THEN p.t[p.i] ELSE Eof
PeekNext(p) == IF p.i + 1 \in DOMAIN p.t THEN p.t[p.i + 1] ELSE Eof

IsSym(t, S) == t.k = "sym" /\ t.n \in S
IsKw(t, S)  == t.k = "kw" /\ t.n \in S
AtSym(p, s) == IsSym(Peek(p), {s})
AtKw(p, w)  == IsKw(Peek(p), {w})
AtEof(p)    == Peek(p).k = "eof"

\* After an Err nothing is read any more.
Skip(p, n) == IF p.ok THEN [p EXCEPT !.i = @ + n] ELSE p
Give(p, v) == [p EXCEPT !.v = v]
Fail(p)    == [p EXCEPT !.ok = FALSE]

ExpectSym(p, s) == IF AtSym(p, s) THEN Skip(p, 1) ELSE Fail(p)
ExpectKw(p, w)  == IF AtKw(p, w) THEN Skip(p, 1) ELSE Fail(p)

full_name(n, s) == IF s = "" THEN n ELSE Append(n, s)
EndsInDollar(n) == n[Len(n)] = "$"

\* An identifier or a keyword or a # or ## name, with its suffix; the suffix of a
\* # name is part of the name.
expect_name_or_keyword(p) ==
    LET t == Peek(p)
    IN  CASE t.k \in {"id", "kw", "sysvar"} -> Give(Skip(p, 1), <<<<t.n>>, t.s>>)
          [] t.k = "shared" -> Give(Skip(p, 1), <<full_name(<<t.n>>, t.s), "">>)
          [] OTHER -> Give(Fail(p), <<<<"">>, "">>)

expect_line_end(p) ==
    LET t == Peek(p)
    IN  CASE t.k = "nl" -> Skip(p, 1)
          [] IsSym(t, {":"}) -> IF p.single THEN p ELSE Skip(p, 1)
          [] /\ t.k \in {"id", "syscon", "sysvar"}
             /\ IsSym(PeekNext(p), {"=", "[", "."}) -> p
          [] t.k = "eof" -> p
          [] IsKw(t, {"ELSE", "ELSEIF"}) /\ p.single -> p
          [] OTHER -> Fail(p)

\* Mutant: ELSE does not end the statement before it on the line.
at_line_endNoElse(p) ==
    Peek(p).k \in {"nl", "eof"} \/ (AtSym(p, ":") /\ ~p.single)

at_line_end(p) ==
    LET t == Peek(p)
    IN  \/ t.k \in {"nl", "eof"}
        \/ IsSym(t, {":"}) /\ ~p.single
        \/ IsKw(t, {"ELSE", "ELSEIF"}) /\ p.single

\* The first index from p.i on where the stop condition holds.
SkipUntil(p, Stop(_)) ==
    LET stops == {j \in p.i .. Len(p.t) : Stop([p EXCEPT !.i = j])}
    IN  [p EXCEPT !.i = IF ~p.ok THEN @ ELSE IF stops = {} THEN Len(p.t) + 1
                        ELSE CHOOSE j \in stops : \A k \in stops : j <= k]

skip_newlines(p) ==
    SkipUntil(p, LAMBDA q : ~(Peek(q).k = "nl" \/ AtSym(q, ":")))

skip_to_line_end(p) == SkipUntil(p, at_line_end)

Member(n, m) == n \o <<".", m>>

\* Trailing members ".a.b" of a name; with strict, keywords are no members.
RECURSIVE Members(_, _, _)
Members(p, n, strict) ==
    IF ~p.ok \/ ~AtSym(p, ".") THEN Give(p, n)
    ELSE LET t == PeekNext(p)
         IN  IF t.k = "id" \/ (t.k = "kw" /\ ~strict)
             THEN Members(Skip(p, 2), Member(n, t.n), strict)
             ELSE Give(Skip(p, 1), n)

-----------------------------------------------------------------------------
(* Operators: the level of each binary operator, loosest first, and the    *)
(* node it makes.  Levels 5 and 11 are the prefix operators.               *)

LogicalOr == 1
LogicalAnd == 2
OrLevel == 3
AndLevel == 4
NotLevel == 5
CompareLevel == 6
AddLevel == 7
MulLevel == 8
PowLevel == 9
ShiftLevel == 10
UnaryLevel == 11
PrimaryLevel == 12

\* Mutant: XOR is read with AND.
OpLevelXorTight(t) ==
    CASE t.k = "op" /\ t.n \in {"||", "^^"} -> LogicalOr
      [] t.k = "op" /\ t.n = "&&" -> LogicalAnd
      [] IsKw(t, {"OR"}) \/ IsSym(t, {"|"}) -> OrLevel
      [] IsKw(t, {"AND", "XOR"}) \/ IsSym(t, {"&", "^"}) -> AndLevel
      [] IsSym(t, {"=", "<", ">"}) -> CompareLevel
      [] t.k = "op" /\ t.n \in {"==", "<>", "<=", ">="} -> CompareLevel
      [] IsSym(t, {"+", "-"}) -> AddLevel
      [] IsSym(t, {"*", "/", "\\"}) \/ IsKw(t, {"MOD"}) -> MulLevel
      [] t.k = "op" /\ t.n = "**" -> PowLevel
      [] t.k = "op" /\ t.n \in {"<<", ">>"} -> ShiftLevel
      [] OTHER -> 0

OpLevel(t) ==
    CASE t.k = "op" /\ t.n \in {"||", "^^"} -> LogicalOr
      [] t.k = "op" /\ t.n = "&&" -> LogicalAnd
      [] IsKw(t, {"OR", "XOR"}) \/ IsSym(t, {"|", "^"}) -> OrLevel
      [] IsKw(t, {"AND"}) \/ IsSym(t, {"&"}) -> AndLevel
      [] IsSym(t, {"=", "<", ">"}) -> CompareLevel
      [] t.k = "op" /\ t.n \in {"==", "<>", "<=", ">="} -> CompareLevel
      [] IsSym(t, {"+", "-"}) -> AddLevel
      [] IsSym(t, {"*", "/", "\\"}) \/ IsKw(t, {"MOD"}) -> MulLevel
      [] t.k = "op" /\ t.n = "**" -> PowLevel
      [] t.k = "op" /\ t.n \in {"<<", ">>"} -> ShiftLevel
      [] OTHER -> 0

\* The node of a binary operator: |, ^, & and == are other spellings.
OpNode(t) ==
    CASE t.n = "|" -> "OR" [] t.n = "^" -> "XOR" [] t.n = "&" -> "AND"
      [] t.n = "==" -> "=" [] OTHER -> t.n

Binary(op, l, r) == <<"bin", op, l, r>>

RECURSIVE Level(_, _), Rest(_, _), Exprs(_, _), collect_extra_indices(_)

\* What stands inside an expression is read by way of Level, given at the end.
expression(p) == Level(p, LogicalOr)
Atom(p) == Level(p, PrimaryLevel)

-----------------------------------------------------------------------------
(* Lists of expressions *)

\* One or more expressions with commas between, appended to acc.
Exprs(p, acc) ==
    LET After(q) == IF q.ok /\ AtSym(q, ",") THEN Exprs(Skip(q, 1), Append(acc, q.v))
                    ELSE Give(q, Append(acc, q.v))
    IN  After(expression(p))

\* "(" args ")".
parse_args(p) ==
    LET q == ExpectSym(p, "(")
        r == IF AtSym(q, ")") THEN Give(q, <<>>) ELSE Exprs(q, <<>>)
    IN  ExpectSym(r, ")")

\* ", e, e" up to "]"; a trailing comma adds nothing.
collect_extra_indices(p) ==
    IF ~p.ok \/ ~AtSym(p, ",") THEN Give(p, <<>>)
    ELSE IF AtSym(Skip(p, 1), "]") THEN Give(Skip(p, 1), <<>>)
    ELSE LET After(q) == LET r == collect_extra_indices(q) IN Give(r, <<q.v>> \o r.v)
         IN  After(expression(Skip(p, 1)))

\* "[" index, more "]" after the bracket; the value is <<index, more>>.
Subscript(p) ==
    LET Closed(e, r) == Give(ExpectSym(r, "]"), <<e, r.v>>)
        After(q) == Closed(q.v, collect_extra_indices(q))
    IN  After(expression(p))

\* "{{" w, o "}}" after the opening braces.
Field(p) ==
    LET q == Exprs(p, <<>>)
    IN  IF Peek(q).k = "op" /\ Peek(q).n = "}}" THEN Skip(q, 1) ELSE Fail(q)
AtField(p) == Peek(p).k = "op" /\ Peek(p).n = "{{"

\* Optional "[" e "]", read and dropped.
DropBrackets(p) ==
    IF ~AtSym(p, "[") THEN p
    ELSE ExpectSym(IF AtSym(Skip(p, 1), "]") THEN Skip(p, 1)
                   ELSE [expression(Skip(p, 1)) EXCEPT !.ok = p.ok], "]")

Ident(n, s) == <<"id", n, s>>
CallOf(n, a) == <<"call", n, a>>
Elem(n, iv) == <<"elem", n, iv[1], iv[2]>>
bitfield_extu(base, args) == CallOf(<<"EXTU">>, <<base>> \o args)
byte_read_desugar(base, i) ==
    CallOf(<<"ASC">>, <<CallOf(<<"MID", "$">>,
        <<base, Binary("+", i, <<"int", "1">>), <<"int", "1">>>>)>>)

-----------------------------------------------------------------------------
(* Names with what follows them *)

\* name(...): a call, a byte read of a string, or a bit field of the result.
CallExpr(p, n, s) ==
    LET full == full_name(n, s)
        q == parse_args(p)
        r == expression(Skip(p, 1))
    IN  IF Peek(p).b /\ EndsInDollar(full)
        THEN Give(IF AtSym(r, ")") THEN Skip(r, 1) ELSE r,
                  byte_read_desugar(Ident(SubSeq(full, 1, Len(full) - 1), "$"), r.v))
        ELSE IF AtField(q)
        THEN LET f == Field(Skip(q, 1)) IN Give(f, bitfield_extu(CallOf(full, q.v), f.v))
        ELSE IF AtSym(q, "(") /\ Peek(q).b
        THEN LET f == parse_args(q) IN Give(f, bitfield_extu(CallOf(full, q.v), f.v))
        ELSE Give(q, CallOf(full, q.v))

\* What follows the last member m of a name: arguments, a bit field of `base`, a
\* subscript of the member, or nothing (`alone`).
MemberTail(m, base, alone) ==
    LET args == parse_args(m)
        f == Field(Skip(m, 1))
        inner == Subscript(Skip(m, 1))
    IN  CASE AtSym(m, "(") -> Give(args, IF Peek(m).b THEN bitfield_extu(base, args.v)
                                         ELSE CallOf(m.v, args.v))
          [] AtField(m) -> Give(f, bitfield_extu(base, f.v))
          [] AtSym(m, "[") -> Give(inner, Elem(m.v, inner.v))
          [] OTHER -> Give(m, alone)

\* What follows name[iv] when no member does.
ElementTail(q, full, iv) ==
    LET args == parse_args(q)
        f == Field(Skip(q, 1))
    IN  CASE AtField(q) -> Give(f, bitfield_extu(Elem(full, iv), f.v))
          [] AtSym(q, "(") ->
                IF Peek(q).b /\ EndsInDollar(full)
                THEN Give(args, byte_read_desugar(Elem(full, iv), args.v[1]))
                ELSE Give(args, CallOf(full, args.v))
          [] OTHER -> Give(q, Elem(full, iv))

\* name[i, ...] and what follows it; e is past the "]" with the subscript in e.v.
\* A "." that no member follows is dropped.
ElementExpr(e, full) ==
    LET t == PeekNext(e)
        After(m) == MemberTail(m, Elem(m.v, e.v), Elem(m.v, e.v))
    IN  CASE AtSym(e, ".") /\ t.k = "kw" -> Give(Skip(e, 2), Elem(Member(full, t.n), e.v))
          [] AtSym(e, ".") /\ t.k = "id" -> After(Members(e, full, FALSE))
          [] OTHER -> ElementTail(IF AtSym(e, ".") THEN Skip(e, 1) ELSE e, full, e.v)

\* name.member...; the suffix is the one of the first member.
MemberExpr(p, n, s) ==
    LET t == PeekNext(p)
        After(m) == IF AtSym(m, "[") /\ AtSym(Skip(m, 1), "]")
                      THEN Give(Skip(m, 2), <<"aref", m.v>>)
                      ELSE MemberTail(m, Ident(m.v, t.s), Ident(m.v, t.s))
    IN  IF t.k \notin {"id", "kw"} THEN Give(Skip(p, 1), Ident(n, s))
        ELSE After(Members(p, n, FALSE))

\* identifier_expr, with the cursor on the name.
identifier_expr(p0, n, s) ==
    LET p == Skip(p0, 1)
        full == full_name(n, s)
        f == Field(Skip(p, 1))
    IN  CASE AtField(p) -> Give(f, bitfield_extu(Ident(full, ""), f.v))
          [] AtSym(p, "(") -> CallExpr(p, n, s)
          [] AtSym(p, "[") /\ AtSym(Skip(p, 1), "]") -> Give(Skip(p, 2), <<"aref", full>>)
          [] AtSym(p, "[") /\ ~AtSym(Skip(p, 1), "]") ->
                ElementExpr(Subscript(Skip(p, 1)), full)
          [] AtSym(p, ".") -> MemberExpr(p, n, s)
          [] OTHER -> Give(p, Ident(n, s))

StatementKeywords ==
    {"DIM", "IF", "IFZ", "IFT", "IFF", "FOR", "WHILE", "FUNCTION", "EXTERNAL",
     "INTERNAL", "CFUNCTION", "DO", "SELECT", "PROGRAM", "IMPORT", "DECLARE", "END",
     "STATIC", "SHARED", "THEN", "ELSE", "ELSEIF", "CASE", "TO", "STEP", "UNTIL",
     "WEND", "LOOP", "EXPORT"}

-----------------------------------------------------------------------------
(* primary: the arms of its match *)

\* @name, @name[], @func(...)
ByRefExpr(p) ==
    LET t == Peek(p)
        q == DropBrackets(Skip(p, 1))
        args == parse_args(q)
        isArray == AtSym(Skip(p, 1), "[")
    IN  CASE t.k = "id" ->
                IF AtSym(q, "(") THEN Give(args, CallOf(full_name(<<t.n>>, t.s), args.v))
                ELSE Give(q, <<"ref", IF isArray THEN full_name(<<t.n>>, t.s) ELSE <<t.n>>, t.s>>)
          [] t.k = "shared" \/ (t.k = "kw" /\ t.n \notin StatementKeywords) ->
                Give(q, <<"ref", full_name(<<t.n>>, t.s), "">>)
          [] OTHER -> Atom(p)

\* ##name, ##name[...], ##name(...)
SystemVariableExpr(p) ==
    LET t == Peek(p)
        full == full_name(<<t.n>>, t.s)
        q == Skip(p, 1)
        e == Subscript(Skip(q, 1))
        args == parse_args(q)
        drop == IF AtSym(e, "(") THEN parse_args(e) ELSE e
    IN  CASE AtSym(q, "[") /\ AtSym(Skip(q, 1), "]") -> Give(Skip(q, 2), <<"aref", full>>)
          [] AtSym(q, "[") /\ ~AtSym(Skip(q, 1), "]") -> Give(drop, Elem(full, e.v))
          [] AtSym(q, "(") -> Give(args, CallOf(full, args.v))
          [] OTHER -> Give(q, <<"sysvar", <<t.n>>, t.s>>)

\* The index after the ")" that closes the parenthesis open before index i.
RECURSIVE Closing(_, _, _)
Closing(t, i, depth) ==
    IF depth = 0 \/ i > Len(t) \/ t[i].k = "eof" THEN i
    ELSE Closing(t, i + 1, depth + (IF IsSym(t[i], {"("}) THEN 1
                                    ELSE IF IsSym(t[i], {")"}) THEN -1 ELSE 0))

\* &f(...), &x, &&x
IsAmp(t) == IsSym(t, {"&"}) \/ (t.k = "op" /\ t.n = "&&")
AddressExpr(p) ==
    LET q == Skip(p, IF IsAmp(PeekNext(p)) THEN 2 ELSE 1)
        t == Peek(q)
        inner == Atom(q)
    IN  IF t.k = "id" /\ IsSym(PeekNext(q), {"("})
        THEN Give([q EXCEPT !.i = Closing(q.t, q.i + 2, 1)], <<"fadr", full_name(<<t.n>>, t.s)>>)
        ELSE Give(inner, CallOf(<<"SUBADDR">>, <<inner.v>>))

\* (e): a missing ")" is forgiven, and a bit field may follow.
ParenExpr(p) ==
    LET e == expression(Skip(p, 1))
        q == IF AtSym(e, ")") THEN Skip(e, 1) ELSE e
        f == Field(Skip(q, 1))
    IN  IF AtField(q) THEN Give(f, bitfield_extu(e.v, f.v)) ELSE q

primary(p) ==
    LET t == Peek(p)
        operand == Atom(Skip(p, 1))
        inner == expression(Skip(p, 1))
    IN  CASE ~p.ok -> p
          [] IsSym(t, {"@"}) -> ByRefExpr(Skip(p, 1))
          [] t.k \in {"str", "int", "float"} -> Give(Skip(p, 1), <<t.k, t.n>>)
          [] t.k = "syscon" -> Give(Skip(p, 1), <<"syscon", t.n>>)
          [] t.k = "sysvar" -> SystemVariableExpr(p)
          [] IsAmp(t) -> AddressExpr(p)
          [] IsSym(t, {"~", "!"}) \/ IsKw(t, {"NOT"}) -> Give(operand, <<"not", operand.v>>)
          [] t.k \in {"kw", "id", "shared"} /\ ~IsKw(t, {"NOT"}) ->
                identifier_expr(p, IF t.k = "shared" THEN full_name(<<t.n>>, t.s) ELSE <<t.n>>,
                                IF t.k = "id" THEN t.s ELSE "")
          [] IsSym(t, {"("}) -> ParenExpr(p)
          [] IsSym(t, {"["}) -> Give(ExpectSym(inner, "]"), inner.v)
          [] OTHER -> Fail(p)

-----------------------------------------------------------------------------
(* The levels *)

\* The loop of a left-associative level.
Rest(p, l) ==
    IF ~p.ok \/ OpLevel(Peek(p)) # l THEN p
    ELSE LET r == Level(Skip(p, 1), l + 1)
         IN  Rest(Give(r, Binary(OpNode(Peek(p)), p.v, r.v)), l)

Signed(p) == IsSym(Peek(p), {"-", "+"})

Level(p, l) ==
    CASE ~p.ok \/ l = PrimaryLevel \/ (l = UnaryLevel /\ ~Signed(p)) -> primary(p)
      [] l = UnaryLevel ->
            LET q == Level(Skip(p, 1), UnaryLevel)
            IN  Give(q, <<IF AtSym(p, "-") THEN "neg" ELSE "pos", q.v>>)
      [] l = NotLevel ->
            IF AtKw(p, "NOT") \/ AtSym(p, "!")
            THEN LET q == Level(Skip(p, 1), NotLevel) IN Give(q, <<"not", q.v>>)
            ELSE Level(p, CompareLevel)
      [] l = CompareLevel ->
            LET q == Level(p, AddLevel)
            IN  IF OpLevel(Peek(q)) # CompareLevel THEN q
                ELSE LET r == Level(Skip(q, 1), AddLevel)
                     IN  Give(r, Binary(OpNode(Peek(q)), q.v, r.v))
      [] l = PowLevel ->
            LET q == Level(p, ShiftLevel)
            IN  IF OpLevel(Peek(q)) # PowLevel THEN q
                ELSE LET r == Level(Skip(q, 1), PowLevel)
                     IN  Give(r, Binary("**", q.v, r.v))
      [] OTHER -> Rest(Level(p, l + 1), l)
=============================================================================
