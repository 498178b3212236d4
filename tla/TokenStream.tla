---------------------------- MODULE TokenStream ----------------------------
(***************************************************************************)
(* What an enumeration of metadata tokens promises to its caller (the      *)
(* HCORENUM of IMetaDataImport): a fixed sequence that is read in chunks   *)
(* of any size, one after the other, and can be set back to any position.  *)
(***************************************************************************)
EXTENDS Naturals, Sequences

VARIABLES
    items,      \* the whole sequence
    pos,        \* how many of its items have been read
    left,       \* how many units the running call may still read
    chunk,      \* what the running or last call has read
    span        \* the items of a unit: 1, or 2 for pairs of tokens

vars == <<items, pos, left, chunk, span>>

Init ==
    /\ items \in Seq(Nat \X Nat)
    /\ pos = 0 /\ left = 0 /\ chunk = << >>
    /\ span \in {1, 2}

(* The sequence is collected before anything is read of it.                 *)
Collect ==
    /\ pos = 0 /\ left = 0 /\ chunk = << >>
    /\ Len(items') = Len(items) + 1
    /\ items = SubSeq(items', 1, Len(items))
    /\ UNCHANGED <<pos, left, chunk, span>>

(* A call asks for any number of units.                                     *)
Read ==
    /\ left = 0
    /\ left' \in Nat /\ chunk' = << >>
    /\ UNCHANGED <<items, pos, span>>

(* The call reads the units that follow what has been read.                 *)
Deliver ==
    /\ left > 0 /\ pos < Len(items)
    /\ chunk' = chunk \o SubSeq(items, pos + 1, pos + span)
    /\ pos' = pos + span
    /\ left' = left - 1
    /\ UNCHANGED <<items, span>>

(* A call reads less than it might only at the end of the sequence.         *)
Return ==
    /\ pos = Len(items)
    /\ left' = 0
    /\ UNCHANGED <<items, pos, chunk, span>>

Reset ==
    /\ left = 0
    /\ pos' \in 0 .. Len(items)
    /\ UNCHANGED <<items, left, chunk, span>>

Next == Collect \/ Read \/ Deliver \/ Return \/ Reset

Spec == Init /\ [][Next]_vars
=============================================================================
