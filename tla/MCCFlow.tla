------------------------------- MODULE MCCFlow -------------------------------
(***************************************************************************)
(* CFlow on every program of the family that cc would accept.              *)
(***************************************************************************)
EXTENDS CFlow

P == INSTANCE FlowPrograms

MCBlock == P!MCBlock
MCLabel == P!MCLabel
MCNone  == P!MCNone

L2 == {P!Act, P!Stmt("return"), P!Jump("gosub", "s"), P!Jump("goto", "b")}
L3 == {P!Act, P!CallF, P!Stmt("exitloop"), P!Stmt("exitselect"),
       P!Stmt("gosubreturn"), P!Stmt("return"), P!Stmt("stop"),
       P!Jump("goto", "a"), P!Jump("goto", "t"), P!Jump("gosub", "s"),
       P!Jump("gosub", "t"), P!Jump("gosubexpr", "b"),
       P!Jump("gosubexpr", MCNone), P!Jump("gotoexpr", "b"),
       P!Jump("gotoexpr", MCNone)}
L4 == {P!Act, P!Stmt("return"), P!Jump("gosub", "t")}

MCPrograms ==
  P!ProgramsWith({"if", "while", "do", "for", "select"},
                 {"ifelse", "dopost", "for", "selectelse", "compound"},
                 {P!Act, P!CallF}, L2, L3, L4, Compiles)

\* EXIT FUNCTION inside a subroutine of F.
ReturnInsideGosub ==
  P!ProgramsWith({"if"}, {"if"}, {P!CallF}, {P!Act}, {P!Act},
                 {P!Stmt("return")}, Compiles)
=============================================================================
