------------------------------ MODULE ListStore ------------------------------
(***************************************************************************)
(* What member lists promise, without tables, list columns or indirection: *)
(* a sequence of owners, each with the sequence of its members.  Members   *)
(* are numbered in the order of their creation, and that number, the row   *)
(* of their token, never changes.                                          *)
(***************************************************************************)
EXTENDS Naturals, SequencesExt

VARIABLES
    lists,      \* the members of each owner, in list order
    rows        \* the number of members created so far

vars == <<lists, rows>>

(* An image holds every member in exactly one list.                         *)
Init ==
    /\ rows \in Nat
    /\ lists \in Seq(Seq(1 .. rows))
    /\ \A m \in 1 .. rows :
          \E o \in 1 .. Len(lists) : \E k \in 1 .. Len(lists[o]) :
             /\ lists[o][k] = m
             /\ \A p \in 1 .. Len(lists) : \A j \in 1 .. Len(lists[p]) :
                   lists[p][j] = m => p = o /\ j = k

(* A new member enters the list of one owner, somewhere, and no other list  *)
(* changes.                                                                 *)
AddMember(o) ==
    /\ rows' = rows + 1
    /\ \E k \in 1 .. Len(lists[o]) + 1 :
          lists' = [lists EXCEPT ![o] = InsertAt(@, k, rows + 1)]

(* A new owner starts with no members and does not disturb the others.      *)
AddOwner(o) ==
    /\ lists' = InsertAt(lists, o, << >>)
    /\ UNCHANGED rows

Next ==
    \/ \E o \in 1 .. Len(lists) : AddMember(o)
    \/ \E o \in 1 .. Len(lists) + 1 : AddOwner(o)

Spec == Init /\ [][Next]_vars
============================================================================
