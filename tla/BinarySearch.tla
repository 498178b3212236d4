---------------------------- MODULE BinarySearch ----------------------------
(***************************************************************************)
(* The binary search of src/dnmd/search.template.h step by step, for any   *)
(* sorted column and any key: the loop that md_bsearch and                 *)
(* mdtable_bsearch_closest share.  The two differ only in what they return *)
(* when the loop ends: md_bsearch a row or NULL, mdtable_bsearch_closest   *)
(* the row last probed together with the comparison's sign, from which     *)
(* find_range_element picks the owner of a list element.                   *)
(***************************************************************************)
EXTENDS TableSearch

CONSTANTS
    MaxLength,  \* bound on the rows of the searched column
    Numbers     \* the values a row of the column, and the key, can have

ASSUME BoundsAssumption == MaxLength \in Nat /\ Numbers \subseteq 0 .. 2 * Half - 1

VARIABLES
    col,        \* the searched column, one value per row
    key,        \* the value searched for
    base,       \* first row of the window that is still searched
    count,      \* number of rows in that window
    row,        \* the row probed last
    res,        \* the result of its comparison
    done        \* the loop has ended

loopvars == <<col, key, base, count, row, res, done>>

Columns == UNION {[1 .. n -> Numbers] : n \in 0 .. MaxLength}

LoopInit ==
    /\ col \in {c \in Columns : Ascending(c)}
    /\ key \in Numbers
    /\ base = 1 /\ count = Len(col)
    /\ row = 1 /\ res = 0
    /\ done = FALSE

Exhausted ==
    /\ ~done /\ count = 0
    /\ done' = TRUE
    /\ UNCHANGED <<col, key, base, count, row, res>>

(* Mutants: the middle rounds down; a window of one row is halved again;    *)
(* the lower half loses its last row; the upper half drops the odd row.     *)
Middle_low == base + (count - 1) \div 2
Stops_on_hit(r) == r = 0
RowsBelow_short == (count - 1) \div 2
RowsFromMiddle_half == count \div 2

(* The row probed, when to stop, and the rows left on either side of it.    *)
Middle == base + count \div 2
Stops(r) == r = 0 \/ count = 1
RowsBelow == count \div 2
RowsFromMiddle == count - count \div 2

(* One turn of the loop.                                                    *)
ProbeMiddle ==
    /\ ~done /\ count > 0
    /\ row' = Middle
    /\ res' = col_compare(key, col[row'])
    /\ done' = Stops(res')
    /\ UNCHANGED <<col, key>>
    /\ IF done' THEN UNCHANGED <<base, count>>
       ELSE IF res' < 0 THEN count' = RowsBelow /\ base' = base
       ELSE base' = row' /\ count' = RowsFromMiddle

LoopNext == Exhausted \/ ProbeMiddle

(* The loop runs on one thread and nothing can suspend it forever.          *)
LoopSpec == LoopInit /\ [][LoopNext]_loopvars /\ WF_loopvars(LoopNext)
----------------------------------------------------------------------------
LoopTypeOK ==
    /\ col \in Seq(Numbers) /\ key \in Numbers
    /\ base \in Nat \ {0} /\ count \in Nat
    /\ row \in Nat \ {0} /\ res \in Int
    /\ done \in BOOLEAN

(* The loop invariant: the window lies inside the column, every row before  *)
(* it holds a smaller value than the key and every row after it a larger    *)
(* one.                                                                     *)
WindowHoldsKey ==
    /\ base + count <= Len(col) + 1
    /\ Len(col) > 0 => count > 0
    /\ \A r \in 1 .. Len(col) :
          /\ r >= base + count => col[r] > key
          /\ base > 1 /\ r <= base => col[r] < key

(* md_bsearch returns a row exactly when the column holds the key, and that *)
(* row holds it (search.template.h:16-46).                                  *)
FindsKey ==
    done /\ Len(col) > 0 =>
        /\ res = 0 => col[row] = key
        /\ res # 0 => \A r \in 1 .. Len(col) : col[r] # key

(* What find_range_element (query.c:799-850) needs of a miss: either the    *)
(* key precedes the whole column and row 1 was probed last, or the row is   *)
(* the last one with a smaller value, so that no run of the list column     *)
(* starts between it and the key.                                           *)
MissIsAdjacent ==
    done /\ Len(col) > 0 =>
        /\ res < 0 => row = 1 /\ \A r \in 1 .. Len(col) : col[r] > key
        /\ res > 0 => /\ row \in 1 .. Len(col)
                      /\ col[row] < key
                      /\ \A r \in row + 1 .. Len(col) : col[r] > key

(* The step by step search ends where the recursive function used by the    *)
(* other modules says: TableSearch states the same loop.                    *)
AgreesWithFunction ==
    done => mdtable_bsearch_closest(key, col) = [row |-> row, res |-> res]

(* Every search ends: the window shrinks on each turn.                      *)
Terminates == <>done
============================================================================
