----------------------------- MODULE MCHCorEnum -----------------------------
(***************************************************************************)
(* Enumerations of one or two ranges of up to three rows, null ones among  *)
(* them, and of up to six tokens or three pairs on pages of two; a chunk    *)
(* has up to three units.  Positions go one past the end.                   *)
(***************************************************************************)
EXTENDS HCorEnum
=============================================================================
