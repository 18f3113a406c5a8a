---------------------------- MODULE MCCallState ----------------------------
(***************************************************************************)
(* CallState with two locals, one shared variable and calls that pass them *)
(* with and without `@`.                                                   *)
(***************************************************************************)
EXTENDS CallState

A(p, kind, v, ref) == [param |-> p, from |-> <<kind, v>>, byref |-> ref]

\* f(), f(@s), f(y, @x), f(@y, @s)
MCArgLists ==
  {<<>>,
   <<A("y", "shared", "s", TRUE)>>,
   <<A("x", "local", "y", FALSE), A("y", "local", "x", TRUE)>>,
   <<A("x", "local", "y", TRUE), A("y", "shared", "s", TRUE)>>}
=============================================================================
