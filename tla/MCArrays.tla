------------------------------ MODULE MCArrays ------------------------------
(***************************************************************************)
(* Arrays on six declarations; every departure the module names is         *)
(* excused.                                                                *)
(***************************************************************************)
EXTENDS Arrays

\* Two vectors; a vector, a fixed array and a string; two strings and a vector; a
\* table of rows; a table that is REDIMed; a SHARED vector.
MCKinds ==
    { [v |-> "vec", w |-> "vec"],
      [v |-> "vec", x |-> "fixed", s |-> "text"],
      [v |-> "vec", s |-> "text", t |-> "text"],
      [v |-> "vec", m |-> "node"],
      [v |-> "vec", f |-> "flat"],
      [v |-> "vec", g |-> "shared"] }
MCSizes == {-1, 0, 2}
MCExcused == {"shared", "tail", "flat", "fixed", "scalar", "rows", "attach", "swap"}
=============================================================================
