------------------------------ MODULE MCForLoop ------------------------------
(***************************************************************************)
(* ForLoop with integers of four bits.                                     *)
(***************************************************************************)
EXTENDS ForLoop

\* Loops up and down, empty ones, a step of 0, and ends near either limit.
\* (A literal with a '-' comes only from text IR.)
MCHeaders ==
  {h \in [start : {-3, 0, 2, 5}, end : {-7, -1, 0, 3, 6},
          step : {-2, -1, 0, 1, 3}, neg : BOOLEAN] : h.neg => h.step < 0}

MCMinInt == -8
MCMinPtr == -12
MCValue  == {-8, 0, 3, 7}

AllEngines == {"interp", "c", "llvm"}

\* The interpreter lets the body assign all three, LLVM end and step, C none.
Discipline == [e \in Engines |->
                 CASE e = "interp" -> {"var", "lim", "stp"}
                   [] e = "llvm"   -> {"lim", "stp"}
                   [] e = "c"      -> {}]
=============================================================================
