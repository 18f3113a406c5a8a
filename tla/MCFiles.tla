------------------------------- MODULE MCFiles -------------------------------
(***************************************************************************)
(* Files on two interchangeable names and short texts.                     *)
(***************************************************************************)
EXTENDS Files

MCCounts  == {-1, 1}
MCOffsets == {-1, 1}

\* A file of one empty line.
MCText == {<<"lf">>}

NameSymmetry == Permutations(Name)
=============================================================================
