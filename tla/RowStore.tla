------------------------------- MODULE RowStore -------------------------------
(***************************************************************************)
(* What an image promises its caller, whatever widths its columns have and *)
(* wherever its tables and heaps lie in memory: a row keeps the values it  *)
(* was given, and a reference keeps referring to the row it was given,     *)
(* also when rows are inserted before that row.                            *)
(***************************************************************************)
EXTENDS Naturals, SequencesExt

CONSTANTS
    Tables,
    Columns,        \* the columns of each table, records with a kind
    Entries,        \* what a heap can be given
    MaxConstant     \* the largest constant of two bytes

VARIABLE content    \* the values of the rows of each table

IsIndex(col) == col.kind = "index"

(* A reference is a pair of a table and a row; row 0 is the null reference. *)
Moved(v, t, r) == IF v[1] = t /\ v[2] >= r THEN <<t, v[2] + 1>> ELSE v

NullValue(col) == CASE col.kind = "constant" -> 0
                    [] col.kind = "heap" -> ""
                    [] IsIndex(col) -> <<col.of[1], 0>>

NullRow(t) == [c \in DOMAIN Columns[t] |-> NullValue(Columns[t][c])]

(* All rows once references to row r of t and to rows after it have moved.  *)
Shifted(rows, t, r) ==
    [u \in Tables |-> [s \in DOMAIN rows[u] |-> [c \in DOMAIN Columns[u] |->
        IF IsIndex(Columns[u][c]) THEN Moved(rows[u][s][c], t, r) ELSE rows[u][s][c]]]]

InsertRow(t, r) ==
    LET before == content
    IN  content' = [Shifted(before, t, r) EXCEPT ![t] = InsertAt(@, r, NullRow(t))]

ValuesOf(col) ==
    CASE col.kind = "constant" -> 0 .. MaxConstant
      [] col.kind = "heap" -> Entries \union {""}
      [] IsIndex(col) -> UNION {{u} \X (0 .. Len(content[u]) + 1) : u \in Range(col.of)}

SetColumn(t, r, c) ==
    LET after == content'
    IN  /\ after[t][r][c] \in ValuesOf(Columns[t][c])
        /\ after = [content EXCEPT ![t][r][c] = after[t][r][c]]

Next ==
    \/ \E t \in Tables : \E r \in 1 .. Len(content[t]) + 1 : InsertRow(t, r)
    \/ \E t \in Tables : \E r \in DOMAIN content[t], c \in DOMAIN Columns[t] : SetColumn(t, r, c)

Spec == [][Next]_content
=============================================================================
