------------------------------ MODULE MCParser -------------------------------
(***************************************************************************)
(* The parser on bounded inputs.  A state is one text that is read: an     *)
(* expression, a statement somewhere in a program, or a SELECT.  Each text *)
(* is made from a tree by operators that know nothing of the parser (where *)
(* parentheses are needed, how a block is laid out, what a SELECT does),   *)
(* and what the parser makes of it is compared with that tree.             *)
(***************************************************************************)
EXTENDS ParseStmt, FiniteSetsExt

VARIABLES
    case,   \* what is read: <<"expr", e, table>>, <<"stmt", outer, part>> or
            \* <<"select", s, environment>>
    text,   \* its tokens, <<>> until they are written
    tree    \* what parse_program answers, <<>> until it has

vars == <<case, text, tree>>

A == Ident(<<"a">>, "")
B == Ident(<<"b">>, "")
C == Ident(<<"c">>, "")
One == <<"int", "1">>

-----------------------------------------------------------------------------
(* Expressions, and a text with no more parentheses than the levels of the  *)
(* operators ask for.  The repository documents the levels twice, and not   *)
(* alike, so an expression is written by the one table and by the other.    *)

Comparisons == {"=", "<>", "<", ">", "<=", ">="}

\* docs/stage2-contract-v0.12.md:20-27 for OR, AND, NOT, comparisons, + and *; it says
\* nothing of the other operators, which are where help/operator.hlp:64-94 puts them.
ContractTable ==
    << {"||", "^^"}, {"&&"}, {"OR", "XOR"}, {"AND"}, {"not"}, Comparisons, {"+", "-"},
       {"*", "/", "\\", "MOD"}, {"**"}, {"<<", ">>"}, {"neg", "pos"} >>

\* help/operator.hlp:64-94 throughout, "the table the compiler implements"
\* (docs/08-language-reference.md:149).
HelpTable ==
    << {"||", "^^"}, {"&&"}, {"=", "<>"}, {"<", ">", "<=", ">="}, {"OR", "XOR"}, {"AND"}, {"+", "-"},
       {"*", "/", "\\", "MOD"}, {"**"}, {"<<", ">>"}, {"not", "neg", "pos"} >>

LevelOf(t, op) == CHOOSE l \in DOMAIN t : op \in t[l]

\* The loosest level of an operand.  No document says which way ** groups, and to the right
\* is how power_expr calls itself.  A comparison of a comparison takes parentheses
\* (docs/stage2-contract-v0.5.md:63); the other operators group to the left.
Tighter(t, op) == 1 + Max({LevelOf(t, o) : o \in IF op \in Comparisons THEN Comparisons ELSE {op}})
LeftLevel(t, op) == IF op \in {"**"} \cup Comparisons THEN Tighter(t, op) ELSE LevelOf(t, op)
RightLevel(t, op) == IF op = "**" THEN LevelOf(t, op) ELSE Tighter(t, op)

OpToken(op) ==
    IF op \in {"OR", "XOR", "AND", "MOD"} THEN Kw(op)
    ELSE IF op \in {"||", "^^", "&&", "<>", "<=", ">=", "**", "<<", ">>"}
    THEN Tok("op", op, "", FALSE) ELSE Sym(op)

RECURSIVE Show(_, _), ShowList(_, _)
ShowAt(t, e, level) ==
    LET own == IF e[1] = "bin" THEN LevelOf(t, e[2])
               ELSE IF e[1] \in {"not", "neg", "pos"} THEN LevelOf(t, e[1]) ELSE Len(t) + 1
    IN  IF own < level THEN <<Sym("(")>> \o Show(t, e) \o <<Sym(")")>> ELSE Show(t, e)
ShowList(t, es) ==
    IF es = <<>> THEN <<>> ELSE IF Len(es) = 1 THEN Show(t, es[1])
    ELSE Show(t, es[1]) \o <<Sym(",")>> \o ShowList(t, Tail(es))
Show(t, e) ==
    CASE e[1] = "bin" ->
            ShowAt(t, e[3], LeftLevel(t, e[2])) \o <<OpToken(e[2])>> \o ShowAt(t, e[4], RightLevel(t, e[2]))
      [] e[1] = "not" -> <<Kw("NOT")>> \o ShowAt(t, e[2], LevelOf(t, "not"))
      [] e[1] \in {"neg", "pos"} ->
            <<Sym(IF e[1] = "neg" THEN "-" ELSE "+")>> \o ShowAt(t, e[2], LevelOf(t, "neg"))
      [] e[1] = "id" -> <<IdS(e[2][1], e[3])>>
      [] e[1] = "int" -> <<IntLit(e[2])>>
      [] e[1] = "str" -> <<StrLit(e[2])>>
      [] e[1] = "syscon" -> <<SysCon(e[2])>>
      [] e[1] = "sysvar" -> <<SysVar(e[2][1], e[3])>>
      [] e[1] = "ref" -> <<Sym("@"), IdS(e[2][1], e[3])>>
      [] e[1] = "fadr" -> <<Sym("&"), Id(e[2][1]), Sym("("), Sym(")")>>
      [] e[1] = "aref" -> <<Id(e[2][1]), Sym("["), Sym("]")>>
      [] e[1] = "call" -> <<Id(e[2][1]), Sym("(")>> \o ShowList(t, e[3]) \o <<Sym(")")>>
      [] e[1] = "elem" -> <<Id(e[2][1]), Sym("[")>> \o ShowList(t, <<e[3]>> \o e[4]) \o <<Sym("]")>>

Leaves == {A, One, Ident(<<"s">>, "$"), <<"str", "t">>, <<"syscon", "K">>,
           <<"sysvar", <<"V">>, "">>, <<"ref", <<"a">>, "">>, <<"fadr", <<"f">>>>,
           <<"aref", <<"r">>>>, CallOf(<<"f">>, <<>>), CallOf(<<"f">>, <<A, One>>),
           Elem(<<"r">>, <<A, <<>>>>), Elem(<<"r">>, <<A, <<One>>>>)}
\* One operator of each kind: those of one level are read by one loop.
Ops == {"||", "^^", "&&", "OR", "XOR", "AND", "=", "<=", "+", "-", "*", "MOD", "**", ">>"}
Small == {A} \cup {<<u, A>> : u \in {"not", "neg", "pos"}} \cup {Binary(op, A, One) : op \in Ops}
Expressions ==
    {Binary(op, l, r) : op \in Ops, l \in Small, r \in Small}
    \cup {<<u, e>> : u \in {"not", "neg", "pos"}, e \in Small}
    \cup {CallOf(<<"f">>, <<e, A>>) : e \in Small} \cup {Elem(<<"r">>, <<e, <<e>>>>) : e \in Small}
    \cup {Binary(op, l, r) : op \in {"&&", "+", "**"}, l \in Leaves, r \in Leaves}

\* Where the parser does not read an expression as the help file's levels have it: NOT, which
\* takes all that follows, left of an operator that the help file has looser than NOT and the
\* parser has not, and AND, OR and XOR beside a comparison.
Bitwise == {"AND", "OR", "XOR"}
IsBin(e, ops) == e[1] = "bin" /\ e[2] \in ops
Contested(e) ==
    /\ e[1] = "bin"
    /\ \/ e[3][1] = "not" /\ e[2] \in Comparisons \cup {"+", "-", "*", "MOD", "**", ">>"}
       \/ e[2] \in Comparisons /\ (IsBin(e[3], Bitwise) \/ IsBin(e[4], Bitwise))

-----------------------------------------------------------------------------
(* Statements: a sample is its tokens and its tree.  Line samples may stand *)
(* in a single-line IF, block samples take lines of their own.             *)

Let(n, v) == <<"Let", <<n>>, "", v>>
Sized(n, s, e) == Dim(<<n, s>>, <<<<e>>, TRUE, <<>>>>, FALSE, FALSE)
Scalar(n, s) == Dim(<<n, s>>, <<<<>>, FALSE, <<>>>>, FALSE, FALSE)

\* Primaries that are another tree than they look.
Curly(n) == Tok("op", n, "", FALSE)
Bits == <<Curly("{{"), IntLit("1"), Sym(","), IntLit("1"), Curly("}}")>>
PrimarySamples ==
    { << <<Id("a")>> \o Bits, CallOf(<<"EXTU">>, <<A, One, One>>) >>,
      << <<Sym("("), Id("a"), Sym(")")>> \o Bits, CallOf(<<"EXTU">>, <<A, One, One>>) >>,
      << <<Id("f"), Sym("("), Id("a"), Sym(")")>> \o Bits,
         CallOf(<<"EXTU">>, <<CallOf(<<"f">>, <<A>>), One, One>>) >>,
      << <<Id("r"), Sym("["), Id("a"), Sym("]"), Sym("."), Id("m")>> \o Bits,
         CallOf(<<"EXTU">>, <<Elem(<<"r", ".", "m">>, <<A, <<>>>>), One, One>>) >>,
      << <<IdS("s", "$"), Brace("("), Id("a"), Sym(")")>>,
         CallOf(<<"ASC">>, <<CallOf(<<"MID", "$">>, <<Ident(<<"s">>, "$"), Binary("+", A, One), One>>)>>) >>,
      << <<Id("a"), Sym("."), Id("m"), Sym("."), Id("k")>>, Ident(<<"a", ".", "m", ".", "k">>, "") >>,
      << <<Id("a"), Sym("."), Id("m"), Sym("["), Id("c"), Sym("]")>>, Elem(<<"a", ".", "m">>, <<C, <<>>>>) >>,
      << <<Id("r"), Sym("["), Id("a"), Sym("]"), Sym("."), Id("m")>>, Elem(<<"r", ".", "m">>, <<A, <<>>>>) >>,
      << <<Sym("@"), Id("r"), Sym("["), Sym("]")>>, <<"ref", <<"r">>, "">> >>,
      << <<Sym("@"), Id("f"), Sym("("), Id("a"), Sym(")")>>, CallOf(<<"f">>, <<A>>) >>,
      << <<Curly("&&"), Id("a")>>, CallOf(<<"SUBADDR">>, <<A>>) >>,
      << <<SysVar("V", ""), Sym("["), Id("a"), Sym("]")>>, Elem(<<"V">>, <<A, <<>>>>) >>,
      << <<Sym("~"), Id("a")>>, <<"not", A>> >>,
      << <<Id("r"), Sym("["), Id("a"), Sym(","), Sym("]")>>, Elem(<<"r">>, <<A, <<>>>>) >> }

LineSamples ==
    { << <<Id("a"), Sym("="), Id("b"), Sym("+"), IntLit("1")>>, Let("a", Binary("+", B, One)) >>,
      << <<Kw("LET"), Id("a"), Sym("="), IntLit("1")>>, Let("a", One) >>,
      << <<IdS("s", "$"), Sym("="), StrLit("t")>>, <<"Let", <<"s">>, "$", <<"str", "t">>>> >>,
      << <<Shared("g", "$"), Sym("="), StrLit("t")>>,
         <<"SharedLet", <<"g", "$">>, "", <<"str", "t">>>> >>,
      << <<SysVar("V", ""), Sym("="), IntLit("1")>>, <<"SharedLet", <<"V">>, "", One>> >>,
      << <<SysCon("K"), Sym("="), IntLit("1")>>, <<"Const", <<"K">>, "1">> >>,
      << <<Kw("CONST"), Id("k"), Sym("="), IntLit("1")>>, <<"Const", <<"k">>, "1">> >>,
      << <<Id("a"), Sym("."), Id("m"), Sym("="), IntLit("1")>>,
         <<"Let", <<"a", ".", "m">>, "", One>> >>,
      << <<Id("r"), Sym("["), Id("a"), Sym(","), IntLit("1"), Sym("]"), Sym("="), Id("b")>>,
         <<"ElemLet", <<"r">>, A, <<One>>, B>> >>,
      << <<Id("r"), Sym("["), Id("a"), Sym("]"), Sym("."), Id("m"), Sym("="), Id("b")>>,
         <<"ElemLet", <<"r", ".", "m">>, A, <<>>, B>> >>,
      << <<IdS("MID", "$"), Sym("("), IdS("s", "$"), Sym(","), IntLit("1"), Sym(")"), Sym("="), StrLit("t")>>,
         <<"MidLet", <<Ident(<<"s">>, "$"), One>>, <<"str", "t">>>> >>,
      << <<Id("f"), Sym("("), Sym("@"), Id("a"), Sym(","), IntLit("1"), Sym(")")>>,
         <<"Call", <<"f">>, <<<<"ref", <<"a">>, "">>, One>>>> >>,
      << <<Sym("@"), Id("f"), Sym("("), Id("a"), Sym(")")>>, <<"Call", <<"f">>, <<A>>>> >>,
      << <<Kw("PRINT")>>, <<"Print", <<>>, <<>>>> >>,
      << <<Kw("PRINT"), Id("a"), Sym(";"), StrLit("t"), Sym(",")>>,
         <<"Print", <<A, <<"str", "t">>>>, <<";", ",">>>> >>,
      << <<Kw("PRINT"), Id("a"), StrLit("t")>>, <<"Print", <<A, <<"str", "t">>>>, <<";">>>> >>,
      << <<Kw("DIM"), Id("a"), Sym(","), IdS("s", "$"), Sym("["), IntLit("1"), Sym("]")>>,
         Compound(<<Scalar(<<"a">>, ""), Sized(<<"s">>, "$", One)>>) >>,
      << <<Id("XLONG"), Id("a"), Sym("["), IntLit("1"), Sym("]")>>, Sized(<<"a">>, "", One) >>,
      << <<Kw("REDIM"), Id("r"), Sym("["), IntLit("1"), Sym("]")>>,
         Dim(<<<<"r">>, "">>, <<<<One>>, TRUE, <<>>>>, TRUE, FALSE) >>,
      << <<Kw("INC"), Id("a")>>, <<"Inc", <<"a">>, "", <<>>>> >>,
      << <<Kw("DEC"), Id("r"), Sym("["), IntLit("1"), Sym("]")>>, <<"Dec", <<"r">>, "", <<One>>>> >>,
      << <<Kw("SWAP"), Id("a"), Sym(","), Id("r"), Sym("["), IntLit("1"), Sym("]")>>,
         <<"Swap", <<<<"a">>, "", <<>>>>, <<<<"r">>, "", <<One>>>>>> >>,
      << <<Id("ATTACH"), Id("r"), Sym("["), IntLit("1"), Sym(","), Sym("]"), Kw("TO"), Id("q"), Sym("["), Sym("]")>>,
         <<"Attach", <<<<"r">>, "", <<One>>, TRUE, TRUE>>, <<<<"q">>, "", <<>>, FALSE, TRUE>>>> >>,
      << <<Kw("GOTO"), Id("l")>>, <<"Goto", Ident(<<"l">>, "")>> >>,
      << <<Kw("GOSUB"), Id("l")>>, <<"Gosub", Ident(<<"l">>, "")>> >>,
      << <<Kw("RETURN")>>, <<"Return", <<>>>> >>,
      << <<Kw("RETURN"), Sym("("), Id("a"), Sym(")")>>, <<"Return", <<A>>>> >>,
      << <<Kw("EXIT"), Kw("DO")>>, <<"ExitLoop">> >>,
      << <<Kw("EXIT"), Kw("FUNCTION")>>, <<"ExitFunction">> >>,
      << <<Kw("DO"), Kw("NEXT")>>, <<"ExitLoop">> >>,
      << <<Kw("STOP")>>, <<"Stop">> >>,
      << <<Kw("BREAK")>>, <<"ExitLoop">> >>,
      << <<Kw("DATA"), IntLit("1"), Sym(","), Sym("-"), IntLit("2"), Sym(","), StrLit("t")>>,
         <<"Data", <<<<"int", <<"1">>>>, <<"int", <<"-", "2">>>>, <<"str", <<"t">>>>>>>> >>,
      << <<Kw("READ"), Id("a"), Sym(","), IdS("s", "$")>>,
         <<"Read", <<<<<<"a">>, "">>, <<<<"s">>, "$">>>>>> >>,
      << <<Kw("RESTORE"), Id("l")>>, <<"Restore", <<"l">>>> >>,
      << <<Id("a"), Sym("."), Id("m"), Sym("("), Id("b"), Sym(")")>>,
         <<"Call", <<"a", ".", "m">>, <<B>>>> >>,
      << <<Id("a"), Sym("."), Id("m"), Sym("["), Id("b"), Sym("]"), Sym("."), Id("k"), Sym("="), IntLit("1")>>,
         <<"ElemLet", <<"a", ".", "m", ".", "k">>, B, <<>>, One>> >>,
      << <<Id("XLONGAT"), Sym("("), Id("a"), Sym(")"), Sym("="), IntLit("1")>>,
         <<"BuiltinLet", <<"XLONGAT">>, <<A>>, One>> >>,
      << <<Kw("EXIT"), Sym("("), Id("a"), Sym(")")>>, <<"Call", <<"exit">>, <<A>>>> >>,
      << <<Kw("EXIT"), Kw("SELECT"), IntLit("1")>>, <<"ExitSelect">> >>,
      << <<Kw("EXIT"), Kw("WHILE")>>, <<"ExitLoop">> >>,
      << <<Kw("EXIT"), Kw("IF")>>, Compound(<<>>) >>,
      << <<Kw("PRINT"), Sym("["), Id("a"), Sym("]"), Sym(","), Id("b")>>, <<"Print", <<B>>, <<>>>> >>,
      << <<Kw("PRINT"), Id("a"), Sym(";"), Sym(";"), Id("b")>>,
         <<"Print", <<A, <<"str", "">>, B>>, <<";", ";">>>> >>,
      << <<Kw("RANDOMIZE")>>, <<"PROGRAM", "">> >>,
      << <<Kw("STOP"), Sym("="), IntLit("1")>>, Let("STOP", One) >>,
      << <<Shared("g", ""), Sym("["), Id("a"), Sym("]"), Sym("="), IntLit("1")>>,
         <<"ElemLet", <<"g">>, A, <<>>, One>> >>,
      << <<SysVar("V", ""), Sym("["), Id("a"), Sym("]"), Sym("="), IntLit("1")>>,
         <<"ElemLet", <<"V">>, A, <<>>, One>> >> }
    \cup {<< <<Id("b"), Sym("=")>> \o x[1], Let("b", x[2]) >> : x \in PrimarySamples}

-----------------------------------------------------------------------------
(* Places: x is <<tokens, trees>> of a part of a program, Put(c, x) that of  *)
(* the part around it.  A block place takes whole lines, a line place what *)
(* may stand in a single-line IF.                                          *)

NL == <<NewLine>>
Stmt == <<Id("b"), Sym("="), IntLit("1")>>
Tree == Let("b", One)
IfThen == <<Kw("IF"), Id("c"), Kw("THEN")>>
EndIf == <<Kw("END"), Kw("IF"), NewLine>>
Select == <<Kw("SELECT"), Kw("CASE"), Id("c"), NewLine>>
EndSelect == <<Kw("END"), Kw("SELECT"), NewLine>>
TypeT == <<Kw("TYPE"), Id("T"), NewLine, Id("XLONG"), Sym("."), Id("m"), NewLine,
           Kw("END"), Kw("TYPE"), NewLine>>
Cond(w) == <<Kw(w), Id("c"), NewLine>>


BlockPlaces == {"top", "if", "else", "elseif", "bareif", "bareelse", "ifz", "for", "while", "do",
                "until", "loopuntil", "sub", "function", "case", "caseelse", "after"}
LinePlaces == {"then", "then_colon", "colon_then", "then_else", "else_then", "else_colon",
               "ift", "colon", "case_colon", "case_else_line"}

PutBlock(c, x) ==
    LET t == x[1]
        s == x[2]
    IN  CASE c = "top" -> x
          [] c = "after" -> << Stmt \o NL \o NL \o t \o Stmt \o NL, <<Tree>> \o s \o <<Tree>> >>
          [] c = "if" -> << IfThen \o NL \o t \o EndIf, <<<<"If", C, s, <<>>>>>> >>
          [] c = "else" -> << IfThen \o NL \o Stmt \o NL \o <<Kw("ELSE")>> \o NL \o t \o EndIf,
                              <<<<"If", C, <<Tree>>, <<s>>>>>> >>
          [] c = "elseif" ->
               << IfThen \o NL \o Stmt \o NL \o <<Kw("ELSEIF"), Id("a"), Kw("THEN")>> \o NL \o t
                    \o <<Kw("ELSE")>> \o NL \o Stmt \o NL \o EndIf,
                  <<<<"If", C, <<Tree>>, <<<<<<"If", A, s, <<<<Tree>>>>>>>>>>>>>> >>
          [] c = "bareif" -> << Cond("IF") \o t \o <<Id("ENDIF")>> \o NL, <<<<"If", C, s, <<>>>>>> >>
          [] c = "bareelse" -> << Cond("IF") \o Stmt \o NL \o <<Kw("ELSE")>> \o NL \o t \o EndIf,
                                  <<<<"If", C, <<Tree>>, <<s>>>>>> >>
          [] c = "ifz" -> << Cond("IFZ") \o t \o EndIf,
                             <<<<"If", Binary("=", C, <<"int", "0">>), s, <<>>>>>> >>
          [] c = "for" ->
               << <<Kw("FOR"), Id("a"), Sym("="), IntLit("1"), Kw("TO"), Id("b"), Kw("STEP"), Id("c")>>
                    \o NL \o t \o <<Kw("NEXT"), Id("a")>> \o NL,
                  <<<<"For", <<"a">>, One, B, <<C>>, s>>>> >>
          [] c = "while" -> << Cond("WHILE") \o t \o <<Kw("WEND")>> \o NL, <<<<"While", C, s>>>> >>
          [] c = "do" -> << <<Kw("DO")>> \o NL \o t \o <<Kw("LOOP")>> \o NL,
                            <<<<"Do", <<>>, <<>>, s>>>> >>
          [] c = "until" -> << <<Kw("DO")>> \o Cond("UNTIL") \o t \o <<Kw("LOOP")>> \o NL,
                               <<<<"Do", <<<<C, FALSE>>>>, <<>>, s>>>> >>
          [] c = "loopuntil" -> << <<Kw("DO")>> \o NL \o t \o <<Kw("LOOP")>> \o Cond("WHILE"),
                                   <<<<"Do", <<>>, <<<<C, TRUE>>>>, s>>>> >>
          [] c = "sub" -> << <<Kw("SUB"), Id("p")>> \o NL \o t \o <<Kw("END"), Kw("SUB"), NewLine>>,
                             <<<<"Function", <<"p">>, "", <<>>, s, "">>>> >>
          [] c = "function" ->
               << <<Kw("FUNCTION"), Id("DOUBLE"), Id("f"), Sym("("), Sym("@"), Id("a"), Sym(","), IdS("s", "$"),
                    Sym("["), Sym("]"), Sym(")")>> \o NL \o Stmt \o NL \o t
                    \o <<Kw("END"), Kw("FUNCTION")>> \o NL,
                  <<<<"Function", <<"f">>, "#", <<<<<<"a">>, "", "", TRUE, FALSE>>,
                      <<<<"s", "$">>, "$", "", FALSE, TRUE>>>>, <<Tree>> \o s, "">>>> >>
          [] c = "case" ->
               << Select \o <<Kw("CASE"), IntLit("1"), Sym(","), Id("a")>> \o NL \o t
                    \o <<Kw("CASE"), IntLit("2")>> \o NL \o EndSelect,
                  <<<<"SelectCase", C, <<<<<<One, A>>, s>>, <<<<<<"int", "2">>>>, <<>>>>>>, <<>>>>>> >>
          [] c = "caseelse" ->
               << Select \o <<Kw("CASE"), IntLit("1")>> \o NL \o Stmt \o NL \o <<Kw("CASE"), Kw("ELSE")>>
                    \o NL \o t \o EndSelect,
                  <<<<"SelectCase", C, <<<<<<One>>, <<Tree>>>>>>, <<s>>>>>> >>

PutLine(c, x) ==
    LET t == x[1]
        s == x[2]
    IN  CASE c = "then" -> << IfThen \o t \o NL, <<<<"If", C, s, <<>>>>>> >>
          [] c = "then_colon" -> << IfThen \o t \o <<Sym(":")>> \o Stmt \o NL,
                                    <<<<"If", C, s \o <<Tree>>, <<>>>>>> >>
          [] c = "colon_then" -> << IfThen \o Stmt \o <<Sym(":")>> \o t \o NL,
                                    <<<<"If", C, <<Tree>> \o s, <<>>>>>> >>
          [] c = "then_else" -> << IfThen \o t \o <<Kw("ELSE")>> \o Stmt \o NL,
                                   <<<<"If", C, s, <<<<Tree>>>>>>>> >>
          [] c = "else_then" -> << IfThen \o Stmt \o <<Kw("ELSE")>> \o t \o NL,
                                   <<<<"If", C, <<Tree>>, <<s>>>>>> >>
          [] c = "else_colon" -> << IfThen \o Stmt \o <<Kw("ELSE")>> \o t \o <<Sym(":")>> \o Stmt \o NL,
                                    <<<<"If", C, <<Tree>>, <<s \o <<Tree>>>>>>>> >>
          [] c = "ift" -> << <<Kw("IFT"), Id("c"), Kw("THEN")>> \o t \o <<Sym(":")>> \o Stmt \o NL,
                             <<<<"If", Binary("<>", C, <<"int", "0">>), s \o <<Tree>>, <<>>>>>> >>
          [] c = "colon" -> << Stmt \o <<Sym(":")>> \o t \o <<Sym(":")>> \o Stmt \o NL,
                               <<Tree>> \o s \o <<Tree>> >>
          [] c = "case_colon" ->
               << Select \o <<Kw("CASE"), IntLit("1"), Sym(":")>> \o t \o <<Sym(":")>> \o Stmt \o NL
                    \o EndSelect,
                  <<<<"SelectCase", C, <<<<<<One>>, s \o <<Tree>>>>>>, <<>>>>>> >>
          [] c = "case_else_line" ->
               << Select \o <<Kw("CASE"), Kw("ELSE")>> \o t \o NL \o EndSelect,
                  <<<<"SelectCase", C, <<>>, <<s>>>>>> >>

\* Statements that take lines of their own.
BlockSamples ==
    { << <<Id("l"), Sym(":"), NewLine>> \o Stmt \o NL, <<<<"Label", <<"l">>>>, Tree>> >>,
      << <<Id("l"), Sym(":")>> \o Stmt \o NL, <<<<"Label", <<"l">>>>, Tree>> >>,
      << <<Kw("SHARED"), Id("g"), Sym("["), Sym("]"), Sym(","), Id("h")>> \o NL,
         <<Compound(<<Dim(<<<<"g">>, "">>, <<<<>>, TRUE, <<>>>>, FALSE, TRUE),
                      Dim(<<<<"h">>, "">>, <<<<>>, FALSE, <<>>>>, FALSE, TRUE)>>)>> >>,
      << <<Kw("STATIC"), Id("XLONG"), Id("g")>> \o NL, <<Scalar(<<"g">>, "")>> >>,
      << TypeT \o <<Id("T"), Id("v"), Sym(","), Id("w"), Sym("["), IntLit("1"), Sym("]"), NewLine>>,
         <<<<"TypeDecl", "T", <<<<"m", "XLONG", "", <<>>>>>>>>,
           Compound(<<<<"Composite", "T", <<"v">>, FALSE, FALSE>>, <<"Composite", "T", <<"w">>, FALSE, TRUE>>>>)>> >>,
      << <<Kw("FUNCADDR"), Id("h"), Sym("("), Id("XLONG"), Sym(")")>> \o NL, <<Scalar(<<"h">>, "")>> >>,
      << <<Kw("IMPORT"), StrLit("t")>> \o NL, <<<<"IMPORT", "t">>>> >>,
      << <<Kw("VERSION"), StrLit("t"), Id("x")>> \o NL, <<<<"VERSION", "t">>>> >>,
      << Select \o <<Kw("CASE"), IntLit("1")>> \o NL \o <<Kw("NEXT"), Kw("CASE")>> \o NL \o EndSelect,
         <<<<"SelectCase", C, <<<<<<One>>, <<<<"ExitSelect">>>>>>>>, <<>>>>>> >>,
      << <<SysCon("K"), Sym("="), IntLit("1"), DollarVar("L", "$"), Sym("="), StrLit("t")>> \o NL,
         <<<<"Const", <<"K">>, "1">>, <<"Const", <<"L", "$">>, "t">>>> >>,
      << <<Kw("DECLARE"), Kw("FUNCTION"), Id("f"), Sym("("), Id("XLONG"), Id("a"), Sym(","), Sym("@"), Id("b"),
           Sym(")")>> \o NL, <<<<"Declare", <<"f">>, <<<<<<"a">>, FALSE>>, <<<<"b">>, TRUE>>>>>>>> >>,
      << <<Kw("EXPORT"), NewLine>> \o Stmt \o NL \o <<Kw("END"), Kw("EXPORT"), NewLine>>,
         <<<<"EndProgram">>, Tree, <<"EndProgram">>>> >>,
      << <<Kw("PRINT"), Kw("IF"), Id("c"), Kw("THEN"), StrLit("t"), Kw("ELSE"), StrLit("u")>> \o NL,
         <<<<"Print", <<CallOf(<<"IF">>, <<C, <<"str", "t">>, <<"str", "u">>>>)>>, <<>>>>>> >> }

\* A statement that ends where a colon would be its operand's place: in a single-line
\* IF the parser takes the colon for the operand and rejects the line.
OptionalTail(tree_) ==
    \/ tree_ \in {<<"Return", <<>>>>, <<"Print", <<>>, <<>>>>}
    \/ tree_[1] = "Print" /\ Len(tree_[3]) = Len(tree_[2])
SingleLineColon == {"then_colon", "else_colon", "ift"}

NestedIf == << <<Kw("IF"), Id("a"), Kw("THEN")>> \o Stmt \o <<Kw("ELSE")>> \o Stmt,
               <<"If", A, <<Tree>>, <<<<Tree>>>>>> >>

Parts ==
    {PutLine(c, <<x[1], <<x[2]>>>>) : <<c, x>> \in
        {y \in LinePlaces \X LineSamples : ~(y[1] \in SingleLineColon /\ OptionalTail(y[2][2]))}}
    \cup {PutLine(c, <<NestedIf[1], <<NestedIf[2]>>>>) : c \in {"then", "colon_then", "case_else_line"}}
    \cup {PutBlock(c, <<x[1] \o NL, <<x[2]>>>>) : c \in BlockPlaces \ {"function"}, x \in LineSamples}
    \cup {PutBlock(c, x) : c \in BlockPlaces \ {"function"}, x \in BlockSamples}

-----------------------------------------------------------------------------
(* SELECT: a source is [kind, all, cases, else]; a case is <<conditions, body>>. *)
(* A body is a sequence of "mark" n, "exit" (EXIT SELECT) and inner SELECTs. *)

Mark(n) == <<"mark", n>>
Exit == <<"exit">>
Inner(s) == <<"sel", s>>
Source(kind, all, cases, else) == [kind |-> kind, all |-> all, cases |-> cases, else |-> else]

Kinds == {<<k, all>> : k \in {"TRUE", "FALSE", "c"}, all \in BOOLEAN}
Conditions == {<<A>>, <<B, A>>}
InnerSources == {Source(k[1], k[2], <<<<<<A>>, <<Mark(1), x, Mark(2)>>>>>>, <<>>) :
                    k \in Kinds, x \in {Mark(3), Exit}}
FirstBodies == {<<Mark(4), Mark(5)>>, <<Exit, Mark(5)>>} \cup {<<Inner(s), Mark(5)>> : s \in InnerSources}
SecondBodies == {<<Mark(6)>>, <<Exit, Mark(6)>>}
Sources ==
    {Source(k[1], k[2], <<<<c1, b1>>, <<c2, b2>>>>, e) :
        k \in Kinds, c1 \in Conditions, c2 \in Conditions,
        b1 \in FirstBodies, b2 \in SecondBodies, e \in {<<>>, <<<<Mark(7)>>>>}}
\* ALL has no CASE ELSE.
SelectSources == {s \in Sources : s.all => s.else = <<>>}
Environments == {[a |-> x, b |-> y, c |-> z] : x, y \in {-1, 0, 1}, z \in {0, 1}}

RECURSIVE ShowSelect(_), ShowBody(_)
ShowBody(b) ==
    IF b = <<>> THEN <<>>
    ELSE LET x == b[1]
             t == CASE x[1] = "mark" -> <<Id("m"), Sym("="), IntLit(x[2])>> \o NL
                    [] x[1] = "exit" -> <<Kw("EXIT"), Kw("SELECT")>> \o NL
                    [] x[1] = "sel" -> ShowSelect(x[2])
         IN  t \o ShowBody(Tail(b))
ShowSelect(s) ==
    LET ShowCase(c) == <<Kw("CASE")>> \o ShowList(ContractTable, c[1]) \o NL \o ShowBody(c[2])
    IN  <<Kw("SELECT"), Kw("CASE")>> \o (IF s.all THEN <<Id("ALL")>> ELSE <<>>) \o <<Id(s.kind)>> \o NL
        \o ShowCase(s.cases[1]) \o (IF Len(s.cases) = 2 THEN ShowCase(s.cases[2]) ELSE <<>>)
        \o (IF s.else = <<>> THEN <<>> ELSE <<Kw("CASE"), Kw("ELSE")>> \o NL \o ShowBody(s.else[1]))
        \o <<Kw("END"), Kw("SELECT")>> \o NL

\* What a SELECT does: the marks it makes.
Holds(kind, cond, env) ==
    LET v == env[cond[2][1]]
    IN  CASE kind = "TRUE" -> v # 0 [] kind = "FALSE" -> v = 0 [] kind = "c" -> v = env.c
Matches(s, c, env) == \E i \in DOMAIN c[1] : Holds(s.kind, c[1][i], env)

RECURSIVE Marks(_, _, _), BodyMarks(_, _)
\* <<marks, left by EXIT SELECT>>
BodyMarks(b, env) ==
    IF b = <<>> THEN <<<<>>, FALSE>>
    ELSE IF b[1] = Exit THEN <<<<>>, TRUE>>
    ELSE LET now == IF b[1][1] = "mark" THEN <<b[1][2]>> ELSE Marks(b[1][2], 1, env)
             rest == BodyMarks(Tail(b), env)
         IN  <<now \o rest[1], rest[2]>>
\* From case i on.
Marks(s, i, env) ==
    IF i > Len(s.cases) THEN IF s.else = <<>> THEN <<>> ELSE BodyMarks(s.else[1], env)[1]
    ELSE IF ~Matches(s, s.cases[i], env) THEN Marks(s, i + 1, env)
    ELSE LET m == BodyMarks(s.cases[i][2], env)
         IN  IF s.all /\ ~m[2] THEN m[1] \o Marks(s, i + 1, env) ELSE m[1]

\* What the statements that were read do: <<marks, flow>>; flow is "go", "exit" or the
\* name of a label that is looked for.  NOT complements every bit, a comparison is -1 or 0.
RECURSIVE Value(_, _), Run(_, _)
Value(e, env) ==
    CASE e[1] = "id" -> env[e[2][1]]
      [] e[1] = "not" -> - Value(e[2], env) - 1
      [] e[1] = "bin" /\ e[2] = "OR" ->
            IF Value(e[3], env) # 0 THEN Value(e[3], env) ELSE Value(e[4], env)
      [] e[1] = "bin" /\ e[2] = "=" -> IF Value(e[3], env) = Value(e[4], env) THEN -1 ELSE 0

LabelIndex(ss, l) == {i \in DOMAIN ss : ss[i] = <<"Label", l>>}
Step(s, env) ==
    CASE s[1] = "Let" -> <<<<s[4][2]>>, "go">>
      [] s[1] = "Label" -> <<<<>>, "go">>
      [] s[1] = "ExitSelect" -> <<<<>>, "exit">>
      [] s[1] = "Goto" -> <<<<>>, s[2][2]>>
      [] s[1] = "Compound" -> Run(s[2], env)
      [] s[1] = "If" -> IF Value(s[2], env) # 0 THEN Run(s[3], env)
                        ELSE IF s[4] = <<>> THEN <<<<>>, "go">> ELSE Run(s[4][1], env)
      [] s[1] = "SelectCase" ->
            LET v == Value(s[2], env)
                hits == {i \in DOMAIN s[3] : \E j \in DOMAIN s[3][i][1] : Value(s[3][i][1][j], env) = v}
                body == IF hits # {} THEN s[3][CHOOSE i \in hits : \A j \in hits : i <= j][2]
                        ELSE IF s[4] = <<>> THEN <<>> ELSE s[4][1]
                r == Run(body, env)
            IN  <<r[1], IF r[2] = "exit" THEN "go" ELSE r[2]>>
Run(ss, env) ==
    IF ss = <<>> THEN <<<<>>, "go">>
    ELSE LET now == Step(ss[1], env)
             at == LabelIndex(ss, now[2])
             next == IF now[2] = "go" THEN 2 ELSE IF at = {} THEN 0 ELSE CHOOSE i \in at : TRUE
             rest == Run(SubSeq(ss, next, Len(ss)), env)
         IN  IF next = 0 THEN now ELSE <<now[1] \o rest[1], rest[2]>>

\* Where the rewriting of SELECT is not faithful: CASE conditions of SELECT CASE FALSE
\* that are neither 0 nor -1, and EXIT SELECT in a plain SELECT inside a rewritten one.
RECURSIVE Unfaithful(_, _)
Unfaithful(s, env) ==
    \/ s.kind = "FALSE" /\ \E i \in DOMAIN s.cases : \E j \in DOMAIN s.cases[i][1] :
                              env[s.cases[i][1][j][2][1]] \notin {0, -1}
    \/ \E i \in DOMAIN s.cases : \E j \in DOMAIN s.cases[i][2] :
          LET x == s.cases[i][2][j]
          IN  /\ x[1] = "sel"
              /\ \/ Unfaithful(x[2], env)
                 \/ /\ s.all \/ s.kind # "c"
                    /\ ~x[2].all /\ x[2].kind = "c"
                    /\ \E k \in DOMAIN x[2].cases[1][2] : x[2].cases[1][2][k] = Exit

-----------------------------------------------------------------------------
(* Reading *)

Wanted == IF case[1] = "stmt" THEN PutBlock(case[2], case[3]) ELSE <<<<>>, <<>>>>
TextOf ==
    CASE case[1] = "expr" -> <<Id("a"), Sym("=")>> \o Show(case[3], case[2]) \o NL
      [] case[1] = "stmt" -> Wanted[1]
      [] case[1] = "select" -> ShowSelect(case[2])

Init ==
    /\ \/ \E e \in Expressions, t \in {ContractTable, HelpTable} : case = <<"expr", e, t>>
       \/ \E c \in BlockPlaces, x \in Parts : case = <<"stmt", c, x>>
       \/ \E s \in SelectSources, env \in Environments :
            ~Unfaithful(s, env) /\ case = <<"select", s, env>>
    /\ text = <<>>
    /\ tree = <<>>

Write == text = <<>> /\ text' = TextOf /\ UNCHANGED <<case, tree>>
Read ==
    LET Result(p) == <<p.ok, p.v>>
    IN  /\ text # <<>> /\ tree = <<>>
        /\ tree' = Result(parse_program(text))
        /\ UNCHANGED <<case, text>>

Next == Write \/ Read
Spec == Init /\ [][Next]_vars

-----------------------------------------------------------------------------
\* An expression written with no more parentheses than the levels of the contract and the
\* direction of its operators ask for is read back as that expression: the descent of
\* parser_expr.rs gives every operator the place the contract gives it.  By the levels of the
\* help file it is read back too, exactly when it is not contested.
ExpressionsReadBack ==
    case[1] = "expr" /\ tree # <<>> =>
        (tree = <<TRUE, <<Let("a", case[2])>>>> <=> ~(case[3] = HelpTable /\ Contested(case[2])))

\* A statement reads the same in every body and on every line it may stand on, and leaves
\* the statements around it where they were: nothing of it is taken for a part of its
\* surroundings (at_line_end and expect_line_end in a single-line IF, the closers of each body).
StatementsReadInPlace ==
    case[1] = "stmt" /\ tree # <<>> => tree = <<TRUE, Wanted[2]>>

\* A SELECT CASE [ALL] TRUE, FALSE or expression, rewritten to IF and GOTO or kept, runs the
\* bodies of the cases that match, in order, and EXIT SELECT leaves the SELECT it is in.
SelectsRunTheirMatches ==
    case[1] = "select" /\ tree # <<>> =>
        tree[1] /\ Run(tree[2], case[3]) = <<Marks(case[2], 1, case[3]), "go">>
=============================================================================
