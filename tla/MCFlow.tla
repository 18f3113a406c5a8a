------------------------------- MODULE MCFlow -------------------------------
(***************************************************************************)
(* Control flow on programs of every shape, portable or not: what          *)
(* exec_items owes by itself and, for the portable ones among them, the    *)
(* refinement of CFlow and of LFlow.                                       *)
(***************************************************************************)
EXTENDS FlowRefinement, FlowPrograms

Every(p) == TRUE

MCPrograms ==
  ProgramsWith({"if", "while", "dopost", "for", "selectelse", "compound"},
               {"ifelse", "dopre", "do", "for", "select", "compound"},
               {CallF},
               {Act, Stmt("return"), Jump("goto", "b"), Jump("goto", "z"),
                Jump("gosub", "s")},
               {Act, CallF, Stmt("exitloop"), Stmt("exitselect"),
                Stmt("gosubreturn"), Stmt("return"), Stmt("stop"),
                Jump("goto", "a"), Jump("goto", "b"), Jump("goto", "z"),
                Jump("goto", "t"), Jump("gosub", "s"), Jump("gosub", "b"),
                Jump("gosubexpr", "s"), Jump("gosubexpr", "b"),
                Jump("gosubexpr", MCNone), Jump("gotoexpr", "z"),
                Jump("gotoexpr", "b"), Jump("gotoexpr", MCNone)},
               {Act, Stmt("return"), Stmt("exitloop"), Jump("goto", "z"),
                Jump("gosub", "t")},
               Every)
=============================================================================
