---------------------------- MODULE TableSearch ----------------------------
(***************************************************************************)
(* The searches over one column of a metadata table: the functions of      *)
(* src/dnmd/search.template.h, which is instantiated once for columns of   *)
(* two bytes and once for columns of four.                                 *)
(*                                                                         *)
(* A column is the sequence of its values, one per row.  The loop that     *)
(* md_bsearch and mdtable_bsearch_closest share is written once, as the    *)
(* recursive function Probe: `base' is the first row of the window still   *)
(* searched, `count' its number of rows.                                   *)
(***************************************************************************)
EXTENDS Integers, Sequences, FiniteSetsExt

CONSTANT Half       \* 2^31 in the code: the least value an int32 cannot hold

ASSUME HalfAssumption == Half \in Nat \ {0}

(* What the int32 result of `lhs - rhs' is for values below 2 * Half: the   *)
(* difference, wrapped around when it leaves the int32 range.               *)
Wrapped(d) == IF d >= Half THEN d - 2 * Half
              ELSE IF d < -Half THEN d + 2 * Half ELSE d

col_compare(key, value) == Wrapped(key - value)

(* The windows of a column: the row they start at and their number of rows. *)
Windows(col) ==
    {w \in (1 .. Len(col)) \X (0 .. Len(col)) : w[1] + w[2] <= Len(col) + 1}

(* Where the loop stops in the window of `count' rows that starts at row    *)
(* `base': the row last probed and the result of its comparison.  An empty  *)
(* window leaves the initial values of the C variables.                     *)
Probe(col, key) ==
    LET probe[w \in Windows(col)] ==
            LET base  == w[1]
                count == w[2]
                row   == base + count \div 2
                res   == col_compare(key, col[row])
            IN  IF count = 0 THEN [row |-> base, res |-> 0]
                ELSE IF res = 0 \/ count = 1 THEN [row |-> row, res |-> res]
                ELSE IF res < 0 THEN probe[<<base, count \div 2>>]
                ELSE probe[<<row, count - count \div 2>>]
    IN  probe

(* The row and the comparison that mdtable_bsearch_closest returns.         *)
mdtable_bsearch_closest(key, col) ==
    IF col = << >> THEN [row |-> 1, res |-> 0]
    ELSE Probe(col, key)[<<1, Len(col)>>]

(* The row md_bsearch returns for the window from row `first' to the end of *)
(* the column; 0 stands for NULL.                                           *)
md_bsearch(key, col, first) ==
    LET hit == Probe(col, key)[<<first, Len(col) - first + 1>>]
    IN  IF hit.res = 0 THEN hit.row ELSE 0

(* The same for md_lsearch: the first row from `first' on that matches.     *)
md_lsearch(key, col, first) ==
    LET hits == {r \in first .. Len(col) : col_compare(key, col[r]) = 0}
    IN  IF hits = {} THEN 0 ELSE Min(hits)

(* The order every binary search relies on.                                 *)
Ascending(col) == \A i, j \in 1 .. Len(col) : i <= j => col[i] <= col[j]
============================================================================
