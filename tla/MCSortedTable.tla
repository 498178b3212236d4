---------------------------- MODULE MCSortedTable ----------------------------
(* Keyed tables of up to MaxRows rows, sorted and not, with two key columns *)
(* as GenericParam has (both ascending), and with a secondary key that      *)
(* descends as LocalScope has.                                              *)
EXTENDS SortedTable
============================================================================
