----------------------------- MODULE SortedTable -----------------------------
(***************************************************************************)
(* A metadata table that ECMA-335 wants sorted by its key columns, for     *)
(* example NestedClass, GenericParam or LocalScope, and the flag that says *)
(* that it is (is_sorted of mdtable_t).  Finding a row is a binary search  *)
(* while the flag is set, and the flag is saved with the image, so it must *)
(* not be set on a table that is out of order.                             *)
(*                                                                         *)
(* Only the key columns of a row are kept.  The editor never sorts: it     *)
(* compares some neighbours of the rows it writes and clears the flag.     *)
(***************************************************************************)
EXTENDS TableSearch, SequencesExt

CONSTANTS
    MaxRows,        \* bound on the rows of the table
    KeyCount,       \* the number of key columns
    Descending,     \* the key columns that descend; the primary never does
    MaxValue        \* bound on the values of a key column

ASSUME KeyAssumption ==
    /\ KeyCount \in Nat \ {0}
    /\ Descending \subseteq 2 .. KeyCount
    /\ MaxRows \in Nat /\ MaxValue \in Nat

VARIABLES
    rows,           \* the keys of each row
    isSorted,       \* is_sorted
    newRow          \* the row being added; 0 when is_adding_new_row is false

vars == <<rows, isSorted, newRow>>

Keys == 1 .. KeyCount
Values == 0 .. MaxValue
Rows == [Keys -> Values]
ZeroRow == [k \in Keys |-> 0]
KeyColumn(k) == [r \in 1 .. Len(rows) |-> rows[r][k]]
----------------------------------------------------------------------------
(* Comparing rows.                                                          *)

(* The order of one key column.                                             *)
Precedes(k, x, y) == IF k \in Descending THEN x > y ELSE x < y

(* validate_tables compares rows key by key until two keys differ ...       *)
InOrder(a, b) ==
    \/ \A k \in Keys : a[k] = b[k]
    \/ \E k \in Keys : /\ Precedes(k, a[k], b[k])
                       /\ \A j \in 1 .. k - 1 : a[j] = b[j]

(* ... but the editor wants every key in order by itself.                   *)
is_row_sorted_with_next_row(a, b) == \A k \in Keys : ~Precedes(k, b[k], a[k])
----------------------------------------------------------------------------
(* Mutant: the row being added is searched as if the table were in order.   *)
find_row_flag_only(b, k, v) ==
    LET hit == IF isSorted THEN md_bsearch(v, KeyColumn(k), b)
               ELSE md_lsearch(v, KeyColumn(k), b)
    IN  IF hit = 0 THEN 0 ELSE hit - b + 1

(* Finding rows, with begin at row b.  The result of find_row_from_cursor   *)
(* is 0 for "not found"; the row it reports is counted from b.              *)
find_row_from_cursor(b, k, v) ==
    LET hit == IF isSorted /\ newRow = 0
               THEN md_bsearch(v, KeyColumn(k), b)
               ELSE md_lsearch(v, KeyColumn(k), b)
    IN  IF hit = 0 THEN 0 ELSE hit - b + 1

(* Mutant: the range begins at whichever row the search hit.                *)
find_range_from_hit(b, v) ==
    LET col   == KeyColumn(1)
        found == find_row_from_cursor(b, 1, v)
        end   == Max({e \in found + 1 .. Len(col) + 1 :
                         \A r \in found + 1 .. e - 1 : col_compare(v, col[r]) >= 0})
    IN  IF found = 0 THEN {} ELSE found .. end - 1

(* Is md_find_range_from_cursor supported, and the rows it reports for the  *)
(* primary key.                                                             *)
CanFindRange == isSorted /\ newRow = 0

md_find_range_from_cursor(b, v) ==
    LET col   == KeyColumn(1)
        found == find_row_from_cursor(b, 1, v)
        start == Min({s \in 1 .. found :
                         \A r \in s .. found - 1 : col_compare(v, col[r]) <= 0})
        end   == Max({e \in found + 1 .. Len(col) + 1 :
                         \A r \in found + 1 .. e - 1 : col_compare(v, col[r]) >= 0})
    IN  IF found = 0 THEN {} ELSE start .. end - 1
----------------------------------------------------------------------------
(* Changing the table.                                                      *)

(* Mutant: the caller's cursor is one row past the new row.                 *)
insert_row_before_cursor(r) ==
    /\ newRow = 0
    /\ Len(rows) < MaxRows
    /\ rows' = InsertAt(rows, r, ZeroRow)
    /\ newRow' = r + 1
    /\ UNCHANGED isSorted

(* md_append_row, md_insert_row_before and md_insert_row_after: the new row *)
(* takes number r and its columns are cleared.                              *)
insert_row_into_table(r) ==
    /\ newRow = 0
    /\ Len(rows) < MaxRows
    /\ rows' = InsertAt(rows, r, ZeroRow)
    /\ newRow' = r
    /\ UNCHANGED isSorted

(* The checks after key columns of row r were written in `table'.  The code *)
(* moves to the row after r before it starts, so that it never looks at the *)
(* row before r, and the last row fails for want of a next one.             *)
StillSorted(table, r) ==
    /\ r < Len(table)
    /\ is_row_sorted_with_next_row(table[r], table[r + 1])
    /\ r + 1 < Len(table) => is_row_sorted_with_next_row(table[r + 1], table[r + 2])

(* md_set_column_value_as_token, _as_cursor and _as_constant on key k.      *)
md_set_column_value(r, k, v) ==
    /\ rows' = [rows EXCEPT ![r][k] = v]
    /\ isSorted' = (isSorted /\ (newRow # 0 \/ StillSorted(rows', r)))
    /\ UNCHANGED newRow

(* A row is inserted before row `first' of the table the primary key refers *)
(* to: every reference from there on grows by one, row by row, each of them *)
(* with the checks of md_set_column_value_as_token.                         *)
update_shifted_row_references(first) ==
    LET moved == {r \in 1 .. Len(rows) : rows[r][1] >= first}
        upto(n) == [r \in 1 .. Len(rows) |->
                       IF r \in moved /\ r <= n
                       THEN [rows[r] EXCEPT ![1] = @ + 1] ELSE rows[r]]
    IN  /\ \A r \in moved : rows[r][1] < MaxValue
        /\ rows' = upto(Len(rows))
        /\ isSorted' = /\ isSorted
                       /\ newRow # 0 \/ \A r \in moved : StillSorted(upto(r), r)
        /\ UNCHANGED newRow

(* Mutant: the first row is not looked at.                                  *)
validate_from_row_3(r) ==
    r > 2 => is_row_sorted_with_next_row(rows[r - 1], rows[r])

(* The row before r is compared; the row after it never is, because the     *)
(* code compares it only if it could not move there (write.c:900).          *)
validate_row_sorted_within_table(r) ==
    r > 1 => is_row_sorted_with_next_row(rows[r - 1], rows[r])

md_commit_row_add ==
    /\ newRow # 0
    /\ isSorted' = (isSorted /\ validate_row_sorted_within_table(newRow))
    /\ newRow' = 0
    /\ UNCHANGED rows
----------------------------------------------------------------------------
(* Every two rows, other than those of `except', are in the order of their  *)
(* numbers.                                                                 *)
Sorted(table, except) ==
    \A r, s \in (1 .. Len(table)) \ except : r < s => InOrder(table[r], table[s])

(* A new table is flagged; a well-formed image flags sorted tables only.    *)
Init ==
    /\ rows \in BoundedSeq(Rows, MaxRows)
    /\ isSorted \in BOOLEAN
    /\ isSorted => Sorted(rows, {})
    /\ newRow = 0

Shift == \E first \in 1 .. MaxValue : update_shifted_row_references(first)

Next ==
    \/ \E r \in 1 .. Len(rows) + 1 : insert_row_into_table(r)
    \/ \E r \in 1 .. Len(rows), k \in Keys, v \in Values : md_set_column_value(r, k, v)
    \/ Shift
    \/ md_commit_row_add

(* Any caller.                                                              *)
Spec == Init /\ [][Next]_vars

(* The caller takes over the comparisons the code leaves out.  It commits a *)
(* row only if that row is in order with the one after it, writes the keys  *)
(* of no other row while it adds one, and after that writes only keys that  *)
(* leave the row in order with the one before it.                           *)
DisciplinedCommit ==
    /\ isSorted /\ newRow \in 1 .. Len(rows) - 1 => InOrder(rows[newRow], rows[newRow + 1])
    /\ md_commit_row_add

DisciplinedSet(r, k, v) ==
    /\ isSorted => \/ newRow = r
                   \/ newRow = 0 /\ (r > 1 => InOrder(rows[r - 1], [rows[r] EXCEPT ![k] = v]))
    /\ md_set_column_value(r, k, v)

DisciplinedNext ==
    \/ \E r \in 1 .. Len(rows) + 1 : insert_row_into_table(r)
    \/ \E r \in 1 .. Len(rows), k \in Keys, v \in Values : DisciplinedSet(r, k, v)
    \/ Shift
    \/ DisciplinedCommit

DisciplinedSpec == Init /\ [][DisciplinedNext]_vars
----------------------------------------------------------------------------
(* Properties of the disciplined specification.                             *)

TypeOK ==
    /\ rows \in Seq(Rows) /\ Len(rows) <= MaxRows
    /\ isSorted \in BOOLEAN
    /\ newRow \in 0 .. Len(rows)

(* A flagged table is in order, but for the row being added: an image saved *)
(* between two adds passes md_validate ("Validate that tables marked as     *)
(* sorted are actually sorted", streams.c:306).                             *)
FlagIsSound == isSorted => Sorted(rows, {newRow})

(* Looking from the first row on, md_find_row_from_cursor finds a row with  *)
(* the primary key exactly when there is one, by either search.             *)
FindsPrimaryKey ==
    \A v \in Values :
        rows # << >> =>
            LET r == find_row_from_cursor(1, 1, v)
            IN  IF r = 0 THEN \A s \in 1 .. Len(rows) : rows[s][1] # v
                ELSE rows[r][1] = v

(* Where it is supported, md_find_range_from_cursor reports all rows with   *)
(* the value and no other (query.c:600-691).                                *)
RangeIsComplete ==
    CanFindRange /\ rows # << >> =>
        \A v \in Values :
            md_find_range_from_cursor(1, v) = {r \in 1 .. Len(rows) : rows[r][1] = v}
----------------------------------------------------------------------------
(* What comments and documentation say of all callers.                      *)

(* "validate that the current row is sorted with respect to the prior and   *)
(* following rows" (write.c:922).  False: never with the row that follows.  *)
CommitComparesBothNeighbours ==
    [][md_commit_row_add /\ isSorted' =>
          /\ newRow > 1 => InOrder(rows[newRow - 1], rows[newRow])
          /\ newRow < Len(rows) => InOrder(rows[newRow], rows[newRow + 1])]_vars

(* "We'll validate against the previous row here" (write.c:119, 211).       *)
(* False: the row written is taken for the previous one.                    *)
SetComparesPreviousRow ==
    [][\A r \in 2 .. Len(rows), k \in Keys, v \in Values :
          newRow = 0 /\ md_set_column_value(r, k, v) /\ isSorted'
          => InOrder(rows'[r - 1], rows'[r])]_vars

(* "Find a row ... where the supplied column has the expected value"        *)
(* (dnmd.h:471), wherever the search begins.  False beyond row 1.           *)
FoundRowHasValue ==
    \A b \in 1 .. Len(rows), v \in Values :
        LET r == find_row_from_cursor(b, 1, v)
        IN  r # 0 => rows[r][1] = v
============================================================================
