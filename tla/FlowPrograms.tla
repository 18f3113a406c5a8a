----------------------------- MODULE FlowPrograms -----------------------------
(***************************************************************************)
(* A family of small programs for the control-flow runs: a main function   *)
(* with two levels of nested items, a subroutine reached by GOSUB, and a   *)
(* function with a subroutine of its own.                                  *)
(*                                                                         *)
(*   M:  a:  c1 { B }  l1  z: GOSUB s  RETURN   s: l2  RETURN              *)
(*   B:  c2 { G }  b:  act                                                 *)
(*   G:  l3  act                                                           *)
(*   F:  GOSUB t  RETURN   t: l4  RETURN                                   *)
(*                                                                         *)
(* A run chooses which items may stand in the holes c1, c2 and l1 .. l4.   *)
(***************************************************************************)
EXTENDS Naturals, Sequences

MCBlock == {"M", "B", "G", "F"}
MCLabel == {"a", "b", "z", "s", "t"}
MCNone  == "none"

Stmt(op)       == [op |-> op, arg |-> MCNone, body |-> {}]
Jump(op, l)    == [op |-> op, arg |-> l, body |-> {}]
Nest(op, b)    == [op |-> op, arg |-> MCNone, body |-> {b}]
Place(b, i)    == [block |-> b, idx |-> i]

ProgramOf(c1, c2, l1, l2, l3, l4) ==
  [code |-> [b \in MCBlock |->
     CASE b = "M" -> <<Jump("label", "a"), Nest(c1, "B"), l1,
                       Jump("label", "z"), Jump("gosub", "s"),
                       Stmt("gosubreturn"),
                       Jump("label", "s"), l2, Stmt("gosubreturn")>>
       [] b = "B" -> <<Nest(c2, "G"), Jump("label", "b"), Stmt("act")>>
       [] b = "G" -> <<l3, Stmt("act")>>
       [] b = "F" -> <<Jump("gosub", "t"), Stmt("gosubreturn"),
                       Jump("label", "t"), l4, Stmt("gosubreturn")>>],
   path |-> [b \in MCBlock |->
     CASE b = "B" -> <<Place("M", 2)>>
       [] b = "G" -> <<Place("M", 2), Place("B", 1)>>
       [] OTHER   -> <<>>]]

\* The programs of the family that satisfy Keep.
ProgramsWith(c1s, c2s, l1s, l2s, l3s, l4s, Keep(_)) ==
  LET Build(h) == ProgramOf(h[1], h[2], h[3], h[4], h[5], h[6])
  IN  {Build(h) : h \in {g \in c1s \X c2s \X l1s \X l2s \X l3s \X l4s :
                           Keep(Build(g))}}

Act   == Stmt("act")
CallF == Jump("call", "F")

AllContainers == {"if", "ifelse", "while", "dopre", "dopost", "do", "for",
                  "select", "selectelse", "compound"}
=============================================================================
