--------------------------- MODULE MCBinarySearch ---------------------------
(* All ascending columns of up to MaxLength rows over five values, searched *)
(* for each of them: keys before, between, on and after the values present. *)
EXTENDS BinarySearch

MCNumbers == 0 .. Half - 1
============================================================================
