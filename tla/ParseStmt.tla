------------------------------ MODULE ParseStmt ------------------------------
(***************************************************************************)
(* The statements of the parser (crates/xb-frontend/src: parser.rs,        *)
(* parser_if.rs, parser_loops.rs, parser_select.rs).  One operator per     *)
(* method; a statement is a tuple that begins with its kind.  An optional  *)
(* part is <<>> or <<part>>.                                               *)
(***************************************************************************)
EXTENDS ParseExpr

RECURSIVE Phrase(_, _), BodyUntil(_, _, _), Colons(_, _), parse_if_chain_with_cond(_, _),
          ReplaceExit(_, _), CaseClauses(_, _, _), DimList(_, _, _)

\* The parts of a statement, by name; Phrase is given at the end.
Statement(p)      == Phrase("statement", p)
Expression(p)     == Phrase("expression", p)
ExpressionList(p) == Phrase("expressions", p)
Arguments(p)      == Phrase("arguments", p)
Indices(p)        == Phrase("indices", p)
ExtraIndices(p)   == Phrase("extra", p)
Brackets(p)       == Phrase("brackets", p)
ArraySize(p)      == Phrase("size", p)
Parameters(p)     == Phrase("params", p)
Name(p)           == Phrase("name", p)

Compound(ss) == <<"Compound", ss>>
OneOrCompound(ss) == IF Len(ss) = 1 THEN ss[1] ELSE Compound(ss)

\* A statement that was read up to its end of line.
Ended(p, s) == Give(expect_line_end(p), s)

-----------------------------------------------------------------------------
(* What a line starts with *)

StartsEnd(p, w) == AtKw(p, "END") /\ IsKw(PeekNext(p), {w})
AtEndIf(p) == StartsEnd(p, "IF") \/ (Peek(p).k = "id" /\ Peek(p).n = "ENDIF")
starts_next(p) == AtKw(p, "NEXT") /\ ~IsSym(PeekNext(p), {"=", "[", ".", "("})

expect_end_if(p) ==
    IF Peek(p).k = "id" /\ Peek(p).n = "ENDIF" THEN Skip(p, 1)
    ELSE ExpectKw(ExpectKw(p, "END"), "IF")

\* The closers of a body: what ends the loop `while !at_eof && !...`.
Closes(p, c) ==
    CASE c = "if"     -> AtKw(p, "ELSE") \/ AtKw(p, "ELSEIF") \/ AtEndIf(p)
      [] c = "bareif" -> AtKw(p, "ELSE") \/ AtEndIf(p)
      [] c = "else"   -> AtEndIf(p)
      [] c = "for"    -> starts_next(p)
      [] c = "while"  -> AtKw(p, "WEND")
      [] c = "do"     -> AtKw(p, "LOOP")
      [] c = "sub"    -> StartsEnd(p, "SUB")
      [] c = "case"   -> AtKw(p, "CASE") \/ StartsEnd(p, "SELECT")
      [] c = "caseelse" -> StartsEnd(p, "SELECT")

\* Statements up to the closer, with blank lines and colons between.
BodyUntil(p, c, acc) ==
    LET q == skip_newlines(p)
        s == Statement(q)
    IN  IF ~q.ok \/ AtEof(q) \/ Closes(q, c) THEN Give(q, acc)
        ELSE BodyUntil(s, c, Append(acc, s.v))
Body(p, c) == BodyUntil(p, c, <<>>)

-----------------------------------------------------------------------------
(* IF *)

parse_if_chain_with_cond(p, cond) ==
    LET Chain(c) == parse_if_chain_with_cond(ExpectKw(c, "THEN"), c.v)
        ElseIf(q, then) == Give(q, <<"If", cond, then, <<<<q.v>>>>>>)
        Else(q, then) == Give(q, <<"If", cond, then, <<q.v>>>>)
        After(b) == CASE ~b.ok -> b
                      [] b.ok /\ AtKw(b, "ELSEIF") -> ElseIf(Chain(Expression(Skip(b, 1))), b.v)
                      [] b.ok /\ AtKw(b, "ELSE") ->
                            Else(Body(expect_line_end(Skip(b, 1)), "else"), b.v)
                      [] OTHER -> Give(b, <<"If", cond, b.v, <<>>>>)
    IN  After(Body(expect_line_end(p), "if"))

\* IF c THEN <newline>: a block up to END IF.
BlockIf(p, cond) ==
    LET s == parse_if_chain_with_cond(p, cond) IN Ended(expect_end_if(s), s.v)

\* IF c <newline>: no THEN, and no ELSEIF.
BareBlockIf(p, cond) ==
    LET Else(b) == IF ~AtKw(b, "ELSE") THEN Give(b, <<b.v, <<>>>>)
                   ELSE LET e == Body(expect_line_end(Skip(b, 1)), "else") IN Give(e, <<b.v, <<e.v>>>>)
        q == Else(Body(expect_line_end(p), "bareif"))
    IN  Ended(expect_end_if(q), <<"If", cond, q.v[1], q.v[2]>>)

\* Further statements of a single-line body, each after a colon.
Colons(p, acc) ==
    IF ~p.ok \/ ~AtSym(p, ":") THEN Give(p, acc)
    ELSE LET s == Statement(Skip(p, 1)) IN Colons(s, Append(acc, s.v))

LineBody(p) == LET s == Statement(p) IN Colons(s, <<s.v>>)

\* IF c THEN s : s ELSE s : s on one line.
SingleLineIf(p, cond) ==
    LET b == LineBody([p EXCEPT !.single = TRUE])
        newline == \E j \in p.i .. b.i - 1 : p.t[j].k = "nl"
        e == LineBody(Skip(b, 1))
    IN  IF b.ok /\ ~newline /\ AtKw(b, "ELSE")
        THEN Give([e EXCEPT !.single = FALSE], <<"If", cond, b.v, <<e.v>>>>)
        ELSE Give([b EXCEPT !.single = FALSE], <<"If", cond, b.v, <<>>>>)

SkipThens(p) == SkipUntil(p, LAMBDA q : ~AtKw(q, "THEN"))

if_stmt(p) ==
    LET c == Expression(Skip(p, 1))
        hasThen == AtKw(c, "THEN")
        q == SkipThens(c)
    IN  CASE ~c.ok -> c
          [] c.ok /\ ~hasThen /\ at_line_end(c) -> BareBlockIf(c, c.v)
          [] c.ok /\ ~(~hasThen /\ at_line_end(c)) ->
                IF at_line_end(q) THEN BlockIf(q, c.v) ELSE SingleLineIf(q, c.v)

\* IFZ, IFF compare with = 0, IFT with <> 0.
if_cond_stmt(p) ==
    LET c == Expression(Skip(p, 1))
        cond == Binary(IF AtKw(p, "IFT") THEN "<>" ELSE "=", c.v, <<"int", "0">>)
        q == SkipThens(c)
    IN  IF ~c.ok THEN c
        ELSE IF at_line_end(q) THEN BlockIf(q, cond) ELSE SingleLineIf(q, cond)

-----------------------------------------------------------------------------
(* Loops *)

\* WHILE e or UNTIL e before or after the body of DO.
DoCondition(p) ==
    LET c == Expression(Skip(p, 1))
    IN  IF IsKw(Peek(p), {"WHILE", "UNTIL"}) THEN Give(c, <<<<c.v, AtKw(p, "WHILE")>>>>)
        ELSE Give(p, <<>>)

do_stmt(p) ==
    LET q == Skip(p, 1)
        pre == DoCondition(q)
        b == Body(pre, "do")
        post == DoCondition(ExpectKw(b, "LOOP"))
        level == IF Peek(Skip(q, 1)).k = "int" THEN 2 ELSE 1
    IN  CASE AtKw(q, "NEXT") -> Ended(Skip(q, level), <<"ExitLoop">>)
          [] AtKw(q, "FOR") -> Ended(Skip(q, 1), <<"ExitLoop">>)
          [] AtKw(q, "DO") -> Ended(Skip(q, 1), Compound(<<>>))
          [] ~IsKw(Peek(q), {"NEXT", "FOR", "DO"}) /\ AtKw(pre, "LOOP") ->
                Ended(Skip(pre, 1), <<"Do", <<>>, <<>>, <<>>>>)
          [] OTHER -> Ended(post, <<"Do", pre.v, post.v, b.v>>)

for_stmt(p) ==
    LET var == Name(Skip(p, 1))
        start == Expression(ExpectSym(var, "="))
        end == Expression(ExpectKw(start, "TO"))
        step == IF AtKw(end, "STEP") THEN Expression(Skip(end, 1)) ELSE end
        b == Body(expect_line_end(step), "for")
        n == ExpectKw(b, "NEXT")
        named == ~at_line_end(n) /\ Peek(n).k \in {"id", "kw"}
    IN  Ended(Skip(n, IF named THEN 1 ELSE 0),
              <<"For", var.v[1], start.v, end.v,
                IF AtKw(end, "STEP") THEN <<step.v>> ELSE <<>>, b.v>>)

while_stmt(p) ==
    LET c == Expression(Skip(p, 1))
        b == Body(expect_line_end(c), "while")
    IN  Ended(ExpectKw(b, "WEND"), <<"While", c.v, b.v>>)

-----------------------------------------------------------------------------
(* SELECT CASE *)

\* The clauses; the value is <<cases, default>>.  After a colon the first statement
\* of the clause is read before the closers are looked for.
CaseBody(p) ==
    LET s == Statement(Skip(p, 1))
    IN  IF ~AtSym(p, ":") THEN Body(expect_line_end(p), "case")
        ELSE IF at_line_end(Skip(p, 1)) THEN Body(Skip(p, 1), "case")
        ELSE BodyUntil(s, "case", <<s.v>>)

CaseElseBody(p) ==
    LET s == Statement(p)
    IN  IF at_line_end(p) THEN Body(expect_line_end(p), "caseelse") ELSE Give(s, <<s.v>>)

CaseClauses(p, cases, default) ==
    LET c == ExpectKw(p, "CASE")
        else == CaseElseBody(Skip(c, 1))
        conds == ExpressionList(c)
        b == CaseBody(conds)
    IN  IF ~p.ok \/ AtEof(p) \/ StartsEnd(p, "SELECT") THEN Give(p, <<cases, default>>)
        ELSE IF ~c.ok THEN c
        ELSE IF AtKw(c, "ELSE") THEN CaseClauses(else, cases, <<else.v>>)
        ELSE CaseClauses(b, Append(cases, <<conds.v, b.v>>), default)

cond_test(selector, truthy, c) ==
    CASE truthy = "TRUE" -> c
      [] truthy = "FALSE" -> <<"not", c>>
      [] truthy = "" -> Binary("=", selector, c)

\* Mutant: only the last condition counts.
case_testLast(selector, truthy, conds) == cond_test(selector, truthy, conds[Len(conds)])

\* The conditions of one CASE, OR-ed from the left.
RECURSIVE case_test(_, _, _)
case_test(selector, truthy, conds) ==
    LET n == Len(conds)
        last == cond_test(selector, truthy, conds[n])
    IN  IF n = 1 THEN last
        ELSE Binary("OR", case_test(selector, truthy, SubSeq(conds, 1, n - 1)), last)

\* replace_exit_select: into every body, those of an inner SELECT too.
ReplaceExit(ss, label) ==
    LET In(s) ==
          CASE s[1] = "ExitSelect" -> <<"Goto", <<"id", label, "">>>>
            [] s[1] = "If" -> <<"If", s[2], ReplaceExit(s[3], label),
                                [i \in DOMAIN s[4] |-> ReplaceExit(s[4][i], label)]>>
            [] s[1] = "Compound" -> Compound(ReplaceExit(s[2], label))
            [] s[1] = "For" -> [s EXCEPT ![6] = ReplaceExit(@, label)]
            [] s[1] = "While" -> [s EXCEPT ![3] = ReplaceExit(@, label)]
            [] s[1] = "Do" -> [s EXCEPT ![4] = ReplaceExit(@, label)]
            [] s[1] = "SelectCase" ->
                 <<"SelectCase", s[2],
                   [i \in DOMAIN s[3] |-> <<s[3][i][1], ReplaceExit(s[3][i][2], label)>>],
                   [i \in DOMAIN s[4] |-> ReplaceExit(s[4][i], label)]>>
            [] OTHER -> s
    IN  [i \in DOMAIN ss |-> In(ss[i])]

\* The label of the SELECT whose END is before index i: the counter makes it unique.
ExitLabel(i) == <<"_exit_sel_true_", i>>

\* First match: a chain of IFs, built from the last CASE.
RECURSIVE IfChain(_, _, _, _, _)
IfChain(selector, truthy, cases, default, label) ==
    IF cases = <<>> THEN [i \in DOMAIN default |-> ReplaceExit(default[i], label)]
    ELSE <<<<<<"If", case_test(selector, truthy, Head(cases)[1]),
               ReplaceExit(Head(cases)[2], label),
               IfChain(selector, truthy, Tail(cases), default, label)>>>>>>

desugar_select_true(selector, truthy, all, cases, default, label) ==
    LET tests == [i \in DOMAIN cases |->
                    <<"If", case_test(selector, truthy, cases[i][1]),
                      ReplaceExit(cases[i][2], label), <<>>>>]
        chain == IfChain(selector, truthy, cases, default, label)
        ss == IF all THEN tests ELSE IF chain = <<>> THEN <<>> ELSE chain[1]
    IN  Compound(Append(ss, <<"Label", label>>))

\* The selector; the value is <<expression, the word TRUE or FALSE or "">>.
Selector(p) ==
    LET w == Peek(p)
    IN  IF w.k = "id" /\ w.n \in {"TRUE", "FALSE"} THEN Give(Skip(p, 1), <<<<"int", "1">>, w.n>>)
        ELSE IF w.k \in {"nl", "eof"} \/ IsSym(w, {":"}) THEN Give(p, <<<<"int", "1">>, "">>)
        ELSE LET e == Expression(p) IN Give(e, <<e.v, "">>)

\* END SELECT, and the statement of what was read before it.
SelectEnd(sel, all, pre, cs) ==
    LET end == expect_line_end(ExpectKw(ExpectKw(cs, "END"), "SELECT"))
        s == IF sel[2] = "" /\ ~all THEN <<"SelectCase", sel[1], cs.v[1], cs.v[2]>>
             ELSE desugar_select_true(sel[1], sel[2], all, cs.v[1], cs.v[2], ExitLabel(cs.i))
    IN  IF ~end.ok THEN end
        ELSE Give(end, IF pre = <<>> THEN s ELSE Compound(Append(pre, s)))

\* Statements before the first CASE go before the SELECT.
select_case_stmt(p) ==
    LET q == ExpectKw(ExpectKw(p, "SELECT"), "CASE")
        all == Peek(q).k = "id" /\ Peek(q).n = "ALL"
        Cases(sel, pre) == SelectEnd(sel, all, pre.v, CaseClauses(pre, <<>>, <<>>))
        AfterSelector(r) == Cases(r.v, Body(r, "case"))
    IN  AfterSelector(Selector(Skip(q, IF all THEN 1 ELSE 0)))

-----------------------------------------------------------------------------
(* Declarations *)

\* [ ], [d0, d1, ...] or (d0): the value is <<size, is_array, extra>>.
parse_array_size(p) ==
    LET q == Expression(Skip(p, 1))
        r == Indices(Skip(p, 1))
    IN  CASE AtSym(p, "(") -> Give(ExpectSym(q, ")"), <<<<q.v>>, TRUE, <<>>>>)
          [] AtSym(p, "[") /\ AtSym(Skip(p, 1), "]") -> Give(Skip(p, 2), <<<<>>, TRUE, <<>>>>)
          [] AtSym(p, "[") /\ ~AtSym(Skip(p, 1), "]") -> Give(r, <<<<r.v[1]>>, TRUE, r.v[2]>>)
          [] OTHER -> Give(p, <<<<>>, FALSE, <<>>>>)

\* A $, ! or # at the end of a # name is its suffix here.
shared_name_suffix(ns) ==
    LET n == Len(ns[1])
    IN  IF ns[2] = "" /\ n > 1 /\ ns[1][n] \in {"$", "!", "#"}
        THEN <<SubSeq(ns[1], 1, n - 1), ns[1][n]>> ELSE ns

Dim(ns, sz, redim, shared) == <<"Dim", ns[1], ns[2], sz[1], sz[2], sz[3], redim, shared>>

\* The type list of a FUNCADDR variable, "(" type, ... ")", is skipped.
SkipTypeList(p) ==
    LET t == PeekNext(p)
        after == Peek(Skip(p, 2))
        close == SkipUntil(Skip(p, 2), LAMBDA q : AtSym(q, ")") \/ AtEof(q))
    IN  CASE AtSym(p, "(") /\ IsSym(t, {")"}) -> Skip(p, 2)
          [] AtSym(p, "(") /\ t.k \in {"id", "kw"} /\ IsSym(after, {",", ")"}) ->
                IF AtSym(close, ")") THEN Skip(close, 1) ELSE close
          [] OTHER -> p

\* name size, name size, ...; typed says that a type list may follow a name.
DimList(p, typed, shared) ==
    LET hash == Peek(p).k = "shared"
        n == Name(p)
        sz == ArraySize(IF typed THEN SkipTypeList(n) ELSE n)
        d == Dim(shared_name_suffix(n.v), sz.v, FALSE, shared \/ hash)
        rest == DimList(Skip(sz, 1), typed, shared)
    IN  IF sz.ok /\ AtSym(sz, ",") THEN Give(rest, <<d>> \o rest.v) ELSE Give(sz, <<d>>)

dim_stmt(p) ==
    LET shared == IsKw(PeekNext(p), {"SHARED"})
        ds == DimList(Skip(p, IF shared THEN 2 ELSE 1), FALSE, shared)
    IN  Ended(ds, OneOrCompound(ds.v))

\* Type words and storage classes before the name are skipped.
typed_dim_stmt(p) ==
    LET Leading(q) == Peek(q).k \in {"id", "kw"}
                      /\ PeekNext(q).k \in {"id", "kw", "shared", "sysvar"}
        ds == DimList(SkipUntil(p, LAMBDA q : ~Leading(q)), TRUE, FALSE)
    IN  Ended(ds, OneOrCompound(ds.v))

\* SHARED and STATIC: the rest of the line is skipped, its end is not read.
RECURSIVE MoreShared(_, _)
MoreShared(p, shared) ==
    LET n == Name(Skip(p, 1))
        sz == ArraySize(n)
        rest == MoreShared(sz, shared)
    IN  IF ~p.ok \/ ~AtSym(p, ",") THEN Give(p, <<>>)
        ELSE Give(rest, <<Dim(n.v, sz.v, FALSE, shared)>> \o rest.v)

SkipPath(p) ==
    LET q == SkipUntil(Skip(p, 1), LAMBDA r : at_line_end(r) \/ AtSym(r, "/"))
    IN  IF ~AtSym(p, "/") THEN p ELSE IF AtSym(q, "/") THEN Skip(q, 1) ELSE q

shared_static_stmt(p) ==
    LET shared == AtKw(p, "SHARED")
        q == SkipPath(Skip(p, 1))
        t == Peek(q)
        composite == t.k = "id" /\ t.n \in q.types /\ PeekNext(q).k \in {"id", "shared"}
        word == t.k = "id" /\ PeekNext(q).k \in {"id", "shared", "sysvar"}
        First(n, sz) ==
            IF ~composite THEN <<Dim(n, sz, FALSE, shared)>>
            ELSE <<<<"Composite", t.n, n[1], shared, sz[2]>>>>
                 \o (IF sz[2] /\ sz[1] # <<>> THEN <<Dim(n, sz, FALSE, shared)>> ELSE <<>>)
        AfterSize(n, sz) ==
            LET rest == MoreShared(sz, shared)
            IN  Give(skip_to_line_end(rest), OneOrCompound(First(n, sz.v) \o rest.v))
        AfterName(n) == AfterSize(n.v, ArraySize(n))
    IN  AfterName(Name(Skip(q, IF composite \/ word THEN 1 ELSE 0)))

redim_stmt(p) ==
    LET n == Name(Skip(p, 1))
        sz == ArraySize(n)
    IN  IF IsKw(PeekNext(p), {"SHARED"}) THEN Fail(p)
        ELSE Ended(sz, Dim(shared_name_suffix(n.v), sz.v, TRUE, FALSE))

funcaddr_stmt(p) ==
    LET q == Skip(p, 1)
        typed == Peek(q).k = "kw" \/ (Peek(q).k = "id" /\ PeekNext(q).k \in {"id", "kw"})
        r == Skip(q, IF typed THEN 1 ELSE 0)
        n == Name(Skip(r, IF AtSym(r, ".") THEN 1 ELSE 0))
        b == IF AtSym(n, "[") THEN ExpectSym(Skip(n, 1), "]") ELSE n
        l == IF AtSym(b, "(")
             THEN ExpectSym(SkipUntil(Skip(b, 1), LAMBDA x : AtSym(x, ")")), ")") ELSE b
    IN  Ended(l, Dim(n.v, <<<<>>, FALSE, <<>>>>, FALSE, FALSE))

\* TYPE ... END TYPE.  A member is recorded at the start of its line: type, an
\* optional *n, ".", name and the parameter types of a FUNCADDR.
TypeMember(t, i) ==
    LET At(j) == IF j \in DOMAIN t THEN t[j] ELSE Eof
        fixed == IsSym(At(i + 1), {"*"})
        d == i + (IF fixed THEN 3 ELSE 1)
        open == IsSym(At(d + 2), {"("})
        close == {j \in d + 3 .. Len(t) : IsSym(t[j], {")"})}
        last == IF close = {} THEN Len(t) ELSE (CHOOSE j \in close : \A k \in close : j <= k) - 1
        params == SelectSeq(SubSeq(t, d + 3, last), LAMBDA x : x.k \in {"id", "kw"})
    IN  IF /\ At(i).k = "id" \/ IsKw(At(i), {"FUNCADDR"})
           /\ IsSym(At(d), {"."}) /\ At(d + 1).k \in {"id", "shared", "kw"}
        THEN <<<<At(d + 1).n, At(i).n,
                 IF fixed /\ At(i + 2).k = "int" THEN At(i + 2).n ELSE "",
                 IF open THEN [j \in DOMAIN params |-> params[j].n] ELSE <<>>>>>>
        ELSE <<>>

RECURSIVE TypeBody(_, _, _, _)
TypeBody(p, members, depth, start) ==
    LET found == members \o (IF start THEN TypeMember(p.t, p.i) ELSE <<>>)
        q == Skip(p, 1)
    IN  CASE AtEof(p) \/ depth = 0 -> Give(p, members)
          [] OTHER ->
               IF start /\ IsKw(Peek(p), {"TYPE", "PACKED"})
               THEN TypeBody(q, found, depth + 1, FALSE)
               ELSE IF start /\ AtKw(p, "END")
               THEN IF IsKw(Peek(q), {"TYPE", "PACKED"})
                    THEN TypeBody(Skip(q, 1), found, depth - 1, FALSE)
                    ELSE TypeBody(q, found, depth, FALSE)
               ELSE TypeBody(q, found, depth, Peek(p).k = "nl" \/ AtSym(p, ":"))

type_stmt(p) ==
    LET named == PeekNext(p).k = "id"
        n == Skip(p, IF named THEN 2 ELSE 1)
        name == IF named THEN PeekNext(p).n ELSE ""
        alias == skip_to_line_end(Skip(n, 1))
        start == expect_line_end(n)
        b == TypeBody(start, <<>>, 1, TRUE)
        e == expect_line_end(b)
    IN  IF AtSym(n, "=") THEN Ended(alias, Compound(<<>>))
        ELSE IF ~start.ok THEN start
        ELSE Give([e EXCEPT !.types = @ \cup ({name} \ {""})], <<"TypeDecl", name, b.v>>)

\* TYPE0 a, b[...]: brackets are skipped, and so is the rest of the line.
RECURSIVE CompositeVars(_, _)
CompositeVars(p, type) ==
    LET t == Peek(p)
        q == Skip(p, 1)
        array == AtSym(q, "[")
        c == SkipUntil(Skip(q, 1), LAMBDA r : AtSym(r, "]") \/ at_line_end(r) \/ AtEof(r))
        r == IF ~array THEN q ELSE IF AtSym(c, "]") THEN Skip(c, 1) ELSE c
        d == <<"Composite", type, full_name(<<t.n>>, IF t.k = "shared" THEN t.s ELSE ""), t.k = "shared", array>>
        rest == CompositeVars(Skip(r, 1), type)
    IN  IF t.k \notin {"id", "shared"} THEN Give(Fail(p), <<>>)
        ELSE IF AtSym(r, ",") THEN Give(rest, <<d>> \o rest.v) ELSE Give(r, <<d>>)

composite_decl_stmt(p) ==
    LET ds == CompositeVars(Skip(p, 1), Peek(p).n)
    IN  Ended(skip_to_line_end(ds), OneOrCompound(ds.v))

-----------------------------------------------------------------------------
(* Assignments and calls *)

\* name = e
AssignFrom(p, n, s, kind) ==
    LET v == Expression(ExpectSym(p, "=")) IN Ended(v, <<kind, n, s, v.v>>)
assignment_stmt(p) ==
    LET n == Name(p)
    IN  IF Peek(p).k # "id" THEN Fail(p) ELSE AssignFrom(n, n.v[1], n.v[2], "Let")
keyword_assignment_stmt(p) ==
    LET n == Name(p) IN AssignFrom(n, n.v[1], n.v[2], "Let")
shared_assignment_stmt(p) ==
    IF Peek(p).k = "sysvar" THEN AssignFrom(Skip(p, 1), <<Peek(p).n>>, Peek(p).s, "SharedLet")
    ELSE AssignFrom(Skip(p, 1), full_name(<<Peek(p).n>>, Peek(p).s), "", "SharedLet")

IsConstantName(t) == t.k = "syscon" \/ (t.k = "sysvar" /\ t.s = "$" /\ t.b)
\* $$NAME = e and $$NAME$ = e.  The next definition may follow on the same line.
ConstantText(e) ==
    CASE e[1] \in {"int", "float", "str"} -> e[2]
      [] e[1] = "neg" /\ e[2][1] = "int" -> <<"-", e[2][2]>>
      [] e[1] = "call" /\ e[2] = <<"BITFIELD">> /\ Len(e[3]) = 2 -> <<"bits", e[3]>>
      [] OTHER -> "0"
constant_definition_stmt(p) ==
    LET v == Expression(ExpectSym(Skip(p, 1), "="))
        next == Peek(v).k = "syscon" \/ (Peek(v).k = "sysvar" /\ Peek(v).s = "$")
    IN  IF ~v.ok THEN v
        ELSE Give(IF next THEN v ELSE expect_line_end(v),
                  <<"Const", full_name(<<Peek(p).n>>, Peek(p).s), ConstantText(v.v)>>)

ElemLet(n, args, v) ==
    <<"ElemLet", n, IF args = <<>> THEN <<"int", "0">> ELSE Head(args),
      IF args = <<>> THEN <<>> ELSE Tail(args), v>>

\* name.member... = e, name.member[...].member = e, name.member(...); sub is the
\* subscript that was read, <<>> for none.
dot_access_stmt(p) ==
    LET After(q, suffix, sub) ==
            LET full == full_name(q.v, suffix)
                ev == Expression(Skip(q, 1))
                AfterArgs(args) ==
                    LET av == Expression(Skip(args, 1))
                    IN  IF AtSym(args, "=") THEN Ended(av, ElemLet(full, args.v, av.v))
                        ELSE Ended(args, <<"Call", full, args.v>>)
            IN  CASE ~q.ok -> q
                  [] q.ok /\ AtSym(q, "=") ->
                        Ended(ev, IF sub # <<>> THEN <<"ElemLet", q.v, sub[1], sub[2], ev.v>>
                                  ELSE <<"Let", q.v, suffix, ev.v>>)
                  [] q.ok /\ AtSym(q, "(") -> AfterArgs(Arguments(q))
                  [] OTHER -> Ended(q, <<"Call", full, <<>>>>)
        AfterSub(name, suffix, sub) == After(Members(sub, name, FALSE), suffix, sub.v)
        AfterMembers(m, suffix) == IF AtSym(m, "[") THEN AfterSub(m.v, suffix, Indices(Skip(m, 1)))
                                   ELSE After(m, suffix, <<>>)
        AfterName(n) == AfterMembers(Members(n, n.v[1], FALSE), n.v[2])
    IN  AfterName(Name(p))

\* @name.method[...](...)
at_call_stmt(p) ==
    LET n == Name(Skip(p, 1))
        m == Members(n, full_name(n.v[1], n.v[2]), TRUE)
        b == IF AtSym(m, "[") THEN ExpectSym([ExpressionList(Skip(m, 1)) EXCEPT !.ok = m.ok], "]")
             ELSE m
        args == IF AtSym(b, "(") THEN Arguments(b) ELSE Give(b, <<>>)
    IN  Ended(args, <<"Call", m.v, args.v>>)

AtBuiltins == {"SBYTEAT", "UBYTEAT", "SSHORTAT", "USHORTAT", "SLONGAT", "ULONGAT",
               "XLONGAT", "GIANTAT", "SINGLEAT", "DOUBLEAT", "SUBADDRAT", "GOADDRAT"}

\* name(...), or name[...], more .member; the value is <<name, arguments>>.
Called(n) ==
    LET name == full_name(n.v[1], n.v[2])
        Named(a) == LET m == Members(a, name, FALSE) IN Give(m, <<m.v, a.v>>)
        More(args, q) == Give(q, args \o q.v)
        Inside(a) == IF AtSym(a, ",") THEN More(a.v, ExpressionList(Skip(a, 1))) ELSE a
        Plain(a) == Give(a, <<name, a.v>>)
    IN  IF AtSym(n, "[") THEN Named(Inside(ExpectSym(ExpressionList(Skip(n, 1)), "]")))
        ELSE Plain(Arguments(n))

\* A call, name[...].member[...], and an assignment to any of them; sub is the second
\* subscript.
call_stmt(p) ==
    LET After(e, full, args, sub) ==
            LET v == Expression(Skip(e, 1))
                mid == full = <<"MID", "$">> /\ Len(args) \in {2, 3}
                builtin == Len(full) = 1 /\ full[1] \in AtBuiltins /\ Len(args) \in {1, 2}
            IN  CASE ~e.ok -> e
                  [] e.ok /\ AtSym(e, "=") /\ (Len(args) > 0 \/ sub # <<>>) ->
                        Ended(v, IF builtin THEN <<"BuiltinLet", full, args, v.v>>
                                 ELSE IF sub # <<>> THEN <<"ElemLet", full, sub[1], sub[2], v.v>>
                                 ELSE IF mid THEN <<"MidLet", args, v.v>>
                                 ELSE ElemLet(full, args, v.v))
                  [] OTHER -> Ended(e, <<"Call", full, args>>)
        AfterSub(c, sub) == After(sub, c[1], c[2], sub.v)
        AfterCall(q) == IF IsSym(PeekNext(p), {"["}) /\ AtSym(q, "[")
                        THEN AfterSub(q.v, Indices(Skip(q, 1)))
                        ELSE After(q, q.v[1], q.v[2], <<>>)
    IN  AfterCall(Called(Name(p)))

\* The trailing [...] and .member groups of INC, DEC, SWAP and ATTACH; a keyword is no
\* member.  The value is <<name, indices, is_row, has_brackets>>.
RECURSIVE Groups(_, _, _, _, _)
Groups(p, n, ix, row, br) ==
    LET q == Skip(p, 1)
        first == Expression(q)
        more == ExtraIndices(first)
        trailing == IsSym(more.t[more.i - 1], {","})
        close == ExpectSym(more, "]")
    IN  CASE ~p.ok -> Give(p, <<n, ix, row, br>>)
          [] p.ok /\ AtSym(p, "[") ->
                IF AtSym(q, "]") THEN Groups(Skip(q, 1), n, ix, row, TRUE)
                ELSE Groups(close, n, ix \o <<first.v>> \o more.v, row \/ trailing, TRUE)
          [] p.ok /\ AtSym(p, ".") ->
                IF Peek(q).k = "id" THEN Groups(Skip(q, 1), Member(n, Peek(q).n), ix, row, br)
                ELSE Give(q, <<n, ix, row, br>>)
          [] OTHER -> Give(p, <<n, ix, row, br>>)

\* One side of SWAP, ATTACH, INC: a $, ! or # suffix is part of SWAP's name.
Operand(p, baked) ==
    LET n == Name(p)
        name == IF baked /\ n.v[2] \in {"$", "!", "#"} THEN full_name(n.v[1], n.v[2]) ELSE n.v[1]
        g == Groups(n, name, <<>>, FALSE, FALSE)
    IN  Give(g, <<g.v[1], n.v[2], g.v[2], g.v[3], g.v[4]>>)

inc_dec_stmt(p) ==
    LET o == Operand(Skip(p, 1), FALSE)
    IN  IF o.v[4] THEN Fail(o)
        ELSE Ended(o, <<IF AtKw(p, "INC") THEN "Inc" ELSE "Dec", o.v[1], o.v[2], o.v[3]>>)
swap_stmt(p) ==
    LET l == Operand(Skip(p, 1), TRUE)
        r == Operand(ExpectSym(l, ","), TRUE)
    IN  Ended(r, <<"Swap", SubSeq(l.v, 1, 3), SubSeq(r.v, 1, 3)>>)
attach_stmt(p) ==
    LET l == Operand(Skip(p, 1), FALSE)
        r == Operand(ExpectKw(l, "TO"), FALSE)
    IN  Ended(r, <<"Attach", l.v, r.v>>)

-----------------------------------------------------------------------------
(* PRINT *)

Separators == {";", ","}

\* IF c THEN a ELSE b as an item.  It clears the flag of an IF around the PRINT.
RECURSIVE parse_print(_), PrintItems(_, _, _)
parse_inline_if_branch(p) ==
    LET q == parse_print(p)
    IN  IF ~AtKw(p, "PRINT") THEN Expression(p)
        ELSE IF ~q.ok THEN q
        ELSE Give(q, IF Len(q.v[2]) = 1 THEN q.v[2][1] ELSE CallOf(<<"PRINT">>, q.v[2]))

parse_print_item(p) ==
    LET c == Expression(Skip(p, 1))
        then == parse_inline_if_branch([Skip(c, IF AtKw(c, "THEN") THEN 1 ELSE 0)
                                        EXCEPT !.single = TRUE])
        else == parse_inline_if_branch(Skip(then, 1))
        q == IF AtKw(then, "ELSE") THEN Give(else, <<c.v, then.v, else.v>>)
             ELSE Give(then, <<c.v, then.v>>)
    IN  IF AtKw(p, "IF") THEN Give([q EXCEPT !.single = FALSE], CallOf(<<"IF">>, q.v))
        ELSE Expression(p)

\* Items and separators; two items side by side have an implicit ";".
PrintItems(p, items, seps) ==
    LET sep == Peek(p).n
        q == Skip(p, 1)
        next == parse_print_item(IF IsSym(Peek(p), Separators) THEN q ELSE p)
    IN  CASE ~p.ok -> p
          [] p.ok /\ IsSym(Peek(p), Separators) ->
                IF IsSym(Peek(q), Separators)
                THEN PrintItems(q, Append(items, <<"str", "">>), Append(seps, sep))
                ELSE IF at_line_end(q) THEN Give(q, <<items, Append(seps, sep)>>)
                ELSE PrintItems(next, Append(items, next.v), Append(seps, sep))
          [] p.ok /\ (at_line_end(p) \/ (p.single /\ AtSym(p, ":"))) -> Give(p, <<items, seps>>)
          [] OTHER -> PrintItems(next, Append(items, next.v), Append(seps, ";"))

\* PRINT [file], with the comma after it: read and dropped.
PrintFile(q) ==
    LET h == Expression(Skip(q, 1))
        r == Skip([h EXCEPT !.ok = q.ok], IF AtSym(h, "]") THEN 1 ELSE 0)
    IN  IF ~AtSym(q, "[") THEN q ELSE Skip(r, IF AtSym(r, ",") THEN 1 ELSE 0)

parse_print(p) ==
    LET All(q) == IF ~q.ok THEN q ELSE Ended(q, <<"Print", q.v[1], q.v[2]>>)
        First(q) == All(PrintItems(q, <<q.v>>, <<>>))
        Items(q) == IF at_line_end(q) THEN Ended(q, <<"Print", <<>>, <<>>>>)
                    ELSE First(parse_print_item(q))
    IN  Items(PrintFile(Skip(p, 1)))

-----------------------------------------------------------------------------
(* Jumps, labels, DATA *)

\* EXIT ...: a level number is read and dropped.
exit_stmt(p) ==
    LET q == Skip(p, 1)
        leveled == Skip(q, IF PeekNext(q).k = "int" THEN 2 ELSE 1)
        r == Skip(q, 1)
        args == Arguments(r)
        call == Arguments(q)
    IN  CASE IsKw(Peek(q), {"FUNCTION", "SUB"}) ->
                Ended(IF AtSym(r, "(") THEN args ELSE r, <<"ExitFunction">>)
          [] IsKw(Peek(q), {"FOR", "DO", "LOOP"}) -> Ended(leveled, <<"ExitLoop">>)
          [] AtKw(q, "SELECT") -> Ended(leveled, <<"ExitSelect">>)
          [] AtKw(q, "IF") -> Ended(leveled, Compound(<<>>))
          [] AtSym(q, "(") -> Ended(call, <<"Call", <<"exit">>, call.v>>)
          [] at_line_end(q) -> Ended(q, <<"ExitFunction">>)
          [] OTHER -> Ended(ExpectKw(q, "WHILE"), <<"ExitLoop">>)

return_stmt(p) ==
    LET q == Skip(p, 1)
        e == Expression(q)
    IN  IF at_line_end(q) THEN Ended(q, <<"Return", <<>>>>)
        ELSE IF AtSym(q, "(") /\ IsSym(PeekNext(q), {")"}) THEN Ended(Skip(q, 2), <<"Return", <<>>>>)
        ELSE Ended(e, <<"Return", <<e.v>>>>)

label_expr(p) ==
    LET t == Peek(p)
    IN  CASE IsSym(t, {"@"}) -> Expression(Skip(p, 1))
          [] t.k \in {"id", "kw"} -> Give(Skip(p, 1), <<"id", <<t.n>>, t.s>>)
          [] OTHER -> Expression(p)
jump_stmt(p, kind) == LET e == label_expr(Skip(p, 1)) IN Ended(e, <<kind, e.v>>)

\* A label: a statement may follow on the line.
label_stmt(p) ==
    LET q == Skip(p, 2)
    IN  Give(IF at_line_end(q) THEN expect_line_end(q) ELSE q, <<"Label", <<Peek(p).n>>>>)

RECURSIVE DataValues(_, _)
DataValues(p, acc) ==
    LET minus == AtSym(p, "-")
        q == Skip(p, IF minus THEN 1 ELSE 0)
        t == Peek(q)
        vs == Append(acc, <<t.k, IF minus THEN <<"-", t.n>> ELSE <<t.n>>>>)
        r == Skip(q, 1)
    IN  IF ~p.ok \/ t.k \notin {"int", "float"} \cup (IF minus THEN {} ELSE {"str"}) THEN Fail(q)
        ELSE IF AtSym(r, ",") THEN DataValues(Skip(r, 1), vs) ELSE Give(r, vs)
data_stmt(p) == LET d == DataValues(Skip(p, 1), <<>>) IN Ended(d, <<"Data", d.v>>)

\* READ: the file and the subscripts are dropped.
RECURSIVE ReadVars(_, _)
ReadVars(p, acc) ==
    LET n == Name(p)
        q == Brackets(n)
    IN  IF q.ok /\ AtSym(q, ",") THEN ReadVars(Skip(q, 1), Append(acc, n.v))
        ELSE Give(q, Append(acc, n.v))
read_stmt(p) ==
    LET q == Skip(p, 1)
        c == SkipUntil(Skip(q, 1), LAMBDA r : AtSym(r, "]") \/ Peek(r).k \in {"eof", "nl"})
        d == Skip(c, IF AtSym(c, "]") THEN 1 ELSE 0)
        e == Skip(d, IF AtSym(d, ",") THEN 1 ELSE 0)
        v == ReadVars(IF AtSym(q, "[") THEN e ELSE q, <<>>)
    IN  Ended(v, <<"Read", v.v>>)
restore_stmt(p) ==
    LET q == Skip(p, 1)
    IN  IF at_line_end(q) THEN Ended(q, <<"Restore", <<>>>>)
        ELSE IF Peek(q).k = "id" THEN Ended(Skip(q, 1), <<"Restore", <<Peek(q).n>>>>)
        ELSE Fail(q)

-----------------------------------------------------------------------------
(* Functions and the frame of a program *)

TypeWord(w) == CASE w = "STRING" -> "$" [] w \in {"SINGLE", "FLOAT"} -> "!"
                 [] w = "DOUBLE" -> "#" [] w = "GIANT" -> "&&" [] OTHER -> ""
OrElse(a, b) == IF a # "" THEN a ELSE b

\* One parameter: @, an optional type, @, a name, optional brackets.  The value is
\* <<name, suffix, composite type, by_ref, is_array>>.
Parameter(p) ==
    LET q == Skip(p, IF AtSym(p, "@") THEN 1 ELSE 0)
        t == Peek(q)
        u == PeekNext(q)
        typed == (t.k = "id" \/ IsKw(t, {"FUNCADDR"})) /\ (u.k \in {"id", "kw"} \/ IsSym(u, {"@"}))
        composite == typed /\ t.k = "id" /\ t.n \in q.types
        r == Skip(q, IF typed THEN 1 ELSE 0)
        n == Name(Skip(r, IF AtSym(r, "@") THEN 1 ELSE 0))
        array == AtSym(n, "[")
        s == OrElse(n.v[2], IF typed /\ ~composite /\ t.k = "id" THEN TypeWord(t.n) ELSE "")
    IN  Give(Brackets(n),
             <<IF array THEN full_name(n.v[1], s) ELSE n.v[1], s,
               IF composite THEN t.n ELSE "", AtSym(p, "@") \/ AtSym(r, "@"), array>>)

RECURSIVE Params(_, _)
Params(p, acc) ==
    LET dots == SkipUntil(p, LAMBDA q : ~AtSym(q, "."))
        group == ExpectSym(SkipUntil(Skip(p, 1), LAMBDA q : AtSym(q, ")") \/ AtEof(q)), ")")
        AfterOne(q) == IF AtSym(q, ",") THEN Params(Skip(q, 1), Append(acc, q.v))
                       ELSE Give(q, Append(acc, q.v))
    IN  IF ~p.ok THEN p
        ELSE IF AtSym(p, ".") /\ IsSym(PeekNext(p), {"."}) THEN Give(dots, acc)
        ELSE IF AtSym(p, "(")
        THEN IF AtSym(group, ",") THEN Params(Skip(group, 1), acc) ELSE Give(group, acc)
        ELSE AfterOne(Parameter(p))
parse_params(p) ==
    LET q == ExpectSym(p, "(")
    IN  ExpectSym(IF AtSym(q, ")") THEN Give(q, <<>>) ELSE Params(q, <<>>), ")")
OptParams(p) == IF AtSym(p, "(") THEN Parameters(p) ELSE Give(p, <<>>)

\* The name that may follow END FUNCTION and END SUB.
SkipEndName(p) == Skip(p, IF Peek(p).k \in {"id", "sysvar", "syscon"} THEN 1 ELSE 0)

sub_stmt(p) ==
    LET n == Name(Skip(p, 1))
        a == OptParams(n)
        b == Body(expect_line_end(a), "sub")
    IN  Ended(SkipEndName(ExpectKw(ExpectKw(b, "END"), "SUB")),
              <<"Function", n.v[1], n.v[2], a.v, b.v, "">>)

FunctionWords == {"FUNCTION", "CFUNCTION", "INTERNAL"}
AtExternalFunction(p) == AtKw(p, "EXTERNAL") /\ IsKw(PeekNext(p), FunctionWords)
\* A new declaration begins: the one being read has no (further) body.
AtFunctionStart(p, external) ==
    \/ IsKw(Peek(p), FunctionWords) /\ ~IsSym(PeekNext(p), {"="})
    \/ AtExternalFunction(p)
    \/ external /\ (Peek(p).k = "syscon" \/ (Peek(p).k = "sysvar" /\ Peek(p).b))
IsForward(p, external) ==
    \/ AtEof(p)
    \/ AtKw(p, "FUNCTION") /\ ~IsSym(PeekNext(p), {"="})
    \/ IsKw(Peek(p), {"INTERNAL", "CFUNCTION", "DECLARE", "PROGRAM", "EXPORT"})
    \/ AtKw(p, "END") /\ ~IsKw(PeekNext(p), {"FUNCTION"})
    \/ AtKw(p, "EXTERNAL") /\ PeekNext(p).k = "sysvar"
    \/ AtExternalFunction(p)
    \/ external /\ (Peek(p).k = "syscon" \/ (Peek(p).k = "sysvar" /\ Peek(p).b))

RECURSIVE FunctionBody(_, _, _)
FunctionBody(p, external, acc) ==
    LET s == Statement(p)
    IN  IF ~p.ok \/ AtEof(p) \/ StartsEnd(p, "FUNCTION") \/ AtFunctionStart(p, external)
        THEN Give(p, acc)
        ELSE FunctionBody(skip_newlines(s), external, Append(acc, s.v))

\* [type] name [(params)] [type]; the cursor is left on the body.  The value is
\* <<name, suffix, parameters, composite type>>.
FunctionHead(f) ==
    LET t == Peek(f)
        typed == t.k = "id" /\ PeekNext(f).k \in {"id", "kw"}
        composite == typed /\ t.n \in f.types
        prefix == IF typed /\ ~composite THEN TypeWord(t.n) ELSE ""
        AfterParams(n, a) ==
            LET u == Peek(a)
                postfix == u.k = "id"
                suffix == OrElse(OrElse(n[2], prefix), IF postfix THEN TypeWord(u.n) ELSE "")
                head == skip_newlines(expect_line_end(Skip(a, IF postfix THEN 1 ELSE 0)))
            IN  Give(head, <<n[1], suffix, a.v, IF composite THEN t.n ELSE "">>)
        AfterName(n) == AfterParams(n.v, OptParams(n))
    IN  AfterName(Name(Skip(f, IF typed THEN 1 ELSE 0)))

\* A function with a body, or a forward declaration.
function_stmt(p) ==
    LET q == SkipUntil(p, LAMBDA r : ~IsKw(Peek(r), {"EXTERNAL", "INTERNAL"}))
        external == q.i # p.i
        Decl(h, body) == <<"Function", h[1], h[2], h[3], body, h[4]>>
        AfterBody(h, b) ==
            LET e == SkipEndName(Skip(b, 2))
            IN  IF b.ok /\ StartsEnd(b, "FUNCTION")
                THEN Ended(IF AtSym(e, "(") THEN Arguments(e) ELSE e, Decl(h, b.v))
                ELSE IF AtEof(b) THEN Fail(b) ELSE Give(b, Decl(h, b.v))
        AfterHead(head) ==
            IF ~head.ok THEN head
            ELSE IF IsForward(head, external) THEN Give(head, Decl(head.v, <<>>))
            ELSE AfterBody(head.v, FunctionBody(head, external, <<>>))
    IN  IF Peek(q).k \in {"sysvar", "shared"} \/ AtSym(q, "/")
        THEN Ended(skip_to_line_end(q), Compound(<<>>))
        ELSE AfterHead(FunctionHead(IF AtKw(q, "CFUNCTION") THEN Skip(q, 1)
                                    ELSE ExpectKw(q, "FUNCTION")))

\* The arguments of DECLARE: a type before the name is skipped, @ is kept.
RECURSIVE DeclareArgs(_, _)
DeclareArgs(p, acc) ==
    LET u == PeekNext(p)
        q == Skip(p, IF Peek(p).k = "id" /\ (u.k \in {"id", "kw"} \/ IsSym(u, {"@"})) THEN 1 ELSE 0)
        byref == AtSym(q, "@")
        n == Name(Skip(q, IF byref THEN 1 ELSE 0))
        r == Brackets(n)
        args == Append(acc, <<n.v[1], byref>>)
    IN  IF r.ok /\ AtSym(r, ",") THEN DeclareArgs(Skip(r, 1), args) ELSE Give(r, args)
declare_stmt(p) ==
    LET q == SkipUntil(Skip(p, 1), LAMBDA r : ~IsKw(Peek(r), FunctionWords \cup {"EXTERNAL"}))
        typed == Peek(q).k = "id" /\ PeekNext(q).k \in {"id", "kw"}
        n == Name(Skip(q, IF typed THEN 1 ELSE 0))
        o == Skip(n, 1)
        a == IF ~AtSym(n, "(") THEN Give(n, <<>>)
             ELSE ExpectSym(IF AtSym(o, ")") THEN Give(o, <<>>) ELSE DeclareArgs(o, <<>>), ")")
    IN  Ended(a, <<"Declare", n.v[1], a.v>>)

\* VERSION, PROGRAM and IMPORT take a string; VERSION and EXPORT drop the rest of the line.
named_stmt(p) ==
    LET q == Skip(p, 1)
        r == Skip(q, 1)
    IN  IF Peek(q).k # "str" THEN Fail(q)
        ELSE Ended(IF AtKw(p, "VERSION") THEN skip_to_line_end(r) ELSE r, <<Peek(p).n, Peek(q).n>>)
export_stmt(p) == Ended(skip_to_line_end(Skip(p, 1)), <<"EndProgram">>)
const_stmt(p) ==
    LET q == ExpectSym(Skip(p, 2), "=")
    IN  IF PeekNext(p).k # "id" \/ Peek(q).k # "int" THEN Fail(q)
        ELSE Ended(Skip(q, 1), <<"Const", <<PeekNext(p).n>>, Peek(q).n>>)

-----------------------------------------------------------------------------
(* statement: what a token and the one after it select, in the order tried *)

KeywordStatement(p) ==
    LET w == Peek(p).n
        next == PeekNext(p)
    IN  CASE w \in {"VERSION", "PROGRAM", "IMPORT"} -> named_stmt(p)
          [] w = "PRINT" -> parse_print(p)
          [] w = "DIM" -> dim_stmt(p)
          [] w = "IF" -> if_stmt(p)
          [] w \in {"IFZ", "IFT", "IFF"} -> if_cond_stmt(p)
          [] w = "FOR" -> for_stmt(p)
          [] w = "WHILE" -> while_stmt(p)
          [] w \in {"FUNCTION", "EXTERNAL", "INTERNAL", "CFUNCTION"} -> function_stmt(p)
          [] w = "DO" -> do_stmt(p)
          [] w = "SELECT" -> select_case_stmt(p)
          [] w = "SUB" -> IF IsSym(next, {"["}) THEN call_stmt(p) ELSE sub_stmt(p)
          [] w = "EXIT" -> exit_stmt(p)
          [] w \in {"INC", "DEC"} -> inc_dec_stmt(p)
          [] w = "RETURN" -> return_stmt(p)
          [] w = "SWAP" -> swap_stmt(p)
          [] w = "DECLARE" -> declare_stmt(p)
          [] w = "END" ->
                IF IsKw(next, {"PROGRAM", "EXPORT"}) THEN Ended(Skip(p, 2), <<"EndProgram">>)
                ELSE IF IsKw(next, {"IF"}) THEN Ended(Skip(p, 2), Compound(<<>>)) ELSE Fail(p)
          [] w \in {"STATIC", "SHARED"} -> shared_static_stmt(p)
          [] w = "REDIM" -> redim_stmt(p)
          [] w = "GOSUB" -> jump_stmt(p, "Gosub")
          [] w = "GOTO" -> jump_stmt(p, "Goto")
          [] w \in {"DOEVENTS", "RANDOMIZE"} -> Ended(Skip(p, 1), <<"PROGRAM", "">>)
          [] w = "BREAK" -> IF IsSym(next, {"(", "["}) THEN call_stmt(p)
                            ELSE Ended(Skip(p, 1), <<"ExitLoop">>)
          [] w = "CONST" -> const_stmt(p)
          [] w = "DATA" -> IF IsSym(next, {"(", "["}) THEN call_stmt(p) ELSE data_stmt(p)
          [] w = "READ" -> IF IsSym(next, {"["}) THEN call_stmt(p) ELSE read_stmt(p)
          [] w = "STOP" -> IF IsSym(next, {"[", "."}) THEN dot_access_stmt(p)
                           ELSE Ended(Skip(p, 1), <<"Stop">>)
          [] w = "RESTORE" -> restore_stmt(p)
          [] w = "EXPORT" -> export_stmt(p)
          [] w = "FUNCADDR" -> funcaddr_stmt(p)
          [] w \in {"TYPE", "PACKED"} -> IF IsSym(next, {"[", ".", "("}) THEN dot_access_stmt(p)
                                        ELSE type_stmt(p)
          [] w = "NEXT" /\ IsKw(next, {"CASE"}) -> Ended(Skip(p, 2), <<"ExitSelect">>)
          [] w = "LET" -> assignment_stmt(Skip(p, 1))
          [] OTHER -> IF w \notin StatementKeywords /\ IsSym(next, {"(", "["}) THEN call_stmt(p)
                      ELSE Fail(p)

NameStatement(p) ==
    LET t == Peek(p)
        next == PeekNext(p)
    IN  IF t.k = "id" /\ t.n = "ENDIF" THEN Ended(Skip(p, 1), Compound(<<>>))
        ELSE IF t.k = "id" /\ t.n = "ATTACH" THEN attach_stmt(p)
        ELSE IF t.k = "id" /\ IsSym(next, {"."}) THEN dot_access_stmt(p)
        ELSE IF t.k = "id" /\ t.n \in p.types /\ next.k \in {"id", "shared"}
        THEN composite_decl_stmt(p)
        ELSE IF t.k = "id" /\ next.k \in {"id", "kw", "sysvar", "shared"} THEN typed_dim_stmt(p)
        ELSE IF t.k \in {"id", "shared"} /\ IsSym(next, {"="}) THEN assignment_stmt(p)
        ELSE IF IsSym(t, {"@"}) THEN at_call_stmt(p)
        ELSE IF t.k \in {"id", "shared"} /\ IsSym(next, {"(", "["}) THEN call_stmt(p)
        ELSE Fail(p)

statement(p) ==
    LET t == Peek(p)
        next == PeekNext(p)
    IN  IF ~p.ok THEN p
        ELSE IF IsConstantName(t) /\ IsSym(next, {"="}) THEN constant_definition_stmt(p)
        ELSE IF t.k \in {"sysvar", "shared"} /\ IsSym(next, {"="}) THEN shared_assignment_stmt(p)
        ELSE IF \/ t.k = "sysvar" /\ IsSym(next, {"[", "."})
                \/ t.k = "shared" /\ IsSym(next, {"."}) THEN dot_access_stmt(p)
        ELSE IF t.k = "id" /\ IsSym(next, {":"}) THEN label_stmt(p)
        ELSE IF t.k = "kw" /\ IsSym(next, {"="}) THEN keyword_assignment_stmt(p)
        ELSE IF t.k = "kw" THEN KeywordStatement(p) ELSE NameStatement(p)

Phrase(kind, p) ==
    CASE kind = "statement"   -> statement(p)
      [] kind = "expression"  -> expression(p)
      [] kind = "expressions" -> Exprs(p, <<>>)
      [] kind = "arguments"   -> parse_args(p)
      [] kind = "indices"     -> Subscript(p)
      [] kind = "size"        -> parse_array_size(p)
      [] kind = "extra"       -> collect_extra_indices(p)
      [] kind = "brackets"    -> DropBrackets(p)
      [] kind = "params"      -> parse_params(p)
      [] kind = "name"        -> expect_name_or_keyword(p)

RECURSIVE Statements(_, _)
Statements(p, acc) ==
    LET q == skip_newlines(p)
        More(s) == Statements(s, Append(acc, s.v))
    IN  IF ~q.ok \/ AtEof(q) THEN Give(q, acc) ELSE More(Statement(q))

parse_program(tokens) == Statements(NewParser(tokens), <<>>)
=============================================================================
