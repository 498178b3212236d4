----------------------------- MODULE ImageLayout -----------------------------
(***************************************************************************)
(* The tables and heaps of an image in memory.  A column that refers to a  *)
(* table or a heap is two or four bytes wide, as the number of rows or the *)
(* size of the heap demands; when either grows past what two bytes hold,   *)
(* the editor copies every table that refers to it into a wider layout.    *)
(* An image is saved by writing that memory out as it is, and the widths   *)
(* are computed anew, from row counts and flags, when it is loaded.        *)
(*                                                                         *)
(* Memory is a sequence of cells of two bytes each.  A cell holds one of   *)
(* 0 .. Max16, with Max16 far below the real 2^16 - 1.                     *)
(***************************************************************************)
EXTENDS Naturals, FiniteSets, SequencesExt

CONSTANTS
    Tables, Heaps,
    Columns,        \* for each table a sequence of records with a kind:
                    \*   constant; heap, of a heap;
                    \*   index, of a sequence of tables, with tag bits
    GuidHeap,       \* the heap whose references count entries of GuidSize
    GuidSize,
    HasPdb,         \* does the image have the stream of a Portable PDB
    InitialTables,  \* the tables a new image has, with one row each
    LoadedEntries,  \* of heaps a loaded image may have: their entry
    DeltaSizes,     \* of each heap: how much a delta may add to it
    Strings,        \* what a heap can be given, with its size there
    Max16,          \* UINT16_MAX
    MaxRows,        \* bound on the rows of each table
    MaxHeap         \* bound on the size of each heap

(* The tags of a coded index tell its tables apart and leave room for a row *)
(* in two bytes; no table refers to itself.                                 *)
IsColumn(col, t) ==
    \/ col.kind = "constant"
    \/ col.kind = "heap" /\ col.of \in Heaps
    \/ /\ col.kind = "index" /\ col.bits \in Nat
       /\ col.of \in Seq(Tables \ {t}) /\ Len(col.of) <= 2^col.bits
       /\ 2^col.bits \in 1 .. Max16

ASSUME LayoutAssumption ==
    /\ Max16 \in Nat /\ \E n \in 1 .. 16 : Max16 = 2^n - 1
    /\ HasPdb \in BOOLEAN
    /\ Tables \cap Heaps = {}
    /\ InitialTables \subseteq Tables /\ InitialTables # {}
    /\ "" \notin DOMAIN Strings /\ \A s \in DOMAIN Strings : Strings[s] \in Nat
    /\ GuidSize \in Nat \ {0} /\ \A h \in Heaps : DeltaSizes[h] \subseteq Nat
    /\ \A t \in Tables : MaxRows[t] \in Nat \ {0}
    /\ \A h \in Heaps : MaxHeap[h] \in Nat
    /\ \A t \in Tables : /\ Columns[t] \in Seq(Range(Columns[t])) \ {<< >>}
                          /\ \A c \in DOMAIN Columns[t] : IsColumn(Columns[t][c], t)

VARIABLES
    tables,         \* mdtable_t and its editor, for each table
    heaps,          \* the size and the entries of each heap
    large,          \* the heaps whose large-heap flag is set
    minimal,        \* mdc_minimal_delta
    content         \* what a caller reads in every column: see Content

vars == <<tables, heaps, large, minimal, content>>
----------------------------------------------------------------------------
(* Columns and their widths.                                                *)

Exists(t) == tables[t].rows > 0 \/ tables[t].capacity > 0
RowSize(wide) == Len(wide) + Cardinality({c \in DOMAIN wide : wide[c]})

(* compute_row_offsets_size: where each column of a row begins.             *)
Offsets(wide) == [c \in DOMAIN wide |-> RowSize(SubSeq(wide, 1, c - 1))]

Tag(col, t) == (CHOOSE i \in DOMAIN col.of : col.of[i] = t) - 1
compose_coded_index(col, t, row) == row * 2^col.bits + Tag(col, t)

(* A direct table index is a coded index with one target and no tag bits.   *)
RefersTo(col, what) == \/ col.kind = "heap" /\ col.of = what
                       \/ col.kind = "index" /\ what \in Range(col.of)

(* initialize_table_details: the widths for these row counts and flags.     *)
initialize_table_details(t, counts, flags) ==
    [c \in DOMAIN Columns[t] |->
        LET col == Columns[t][c]
        IN  CASE col.kind = "constant" -> FALSE
              [] col.kind = "heap" -> col.of \in flags
              [] col.kind = "index" ->
                     minimal \/ \E u \in Range(col.of) : counts[u] * 2^col.bits > Max16]

Counts == [t \in Tables |-> tables[t].rows]

NoTable == [rows |-> 0, wide |-> << >>, offset |-> << >>, data |-> << >>,
            capacity |-> 0, adding |-> FALSE]

NewTable(t) ==
    LET wide == initialize_table_details(t, [Counts EXCEPT ![t] = 1], large)
    IN  [rows |-> 0, wide |-> wide, offset |-> Offsets(wide), data |-> << >>,
         capacity |-> 20 * RowSize(wide), adding |-> FALSE]
----------------------------------------------------------------------------
(* Reading and writing memory.                                              *)

Low(v) == v % (Max16 + 1)
High(v) == (v \div (Max16 + 1)) % (Max16 + 1)
Cells(wide, v) == IF wide THEN <<Low(v), High(v)>> ELSE <<Low(v)>>
CellAt(data, p) == IF p \in DOMAIN data THEN data[p] ELSE 0
Number(data, p, wide) == CellAt(data, p) + IF wide THEN (Max16 + 1) * CellAt(data, p + 1) ELSE 0

(* create_access_context: where column c of row r is read and written.  The *)
(* first write makes a copy of the table (get_writable_table_data).         *)
Place(tb, r, c) == (r - 1) * RowSize(tb.wide) + tb.offset[c] + 1

read_column_data(tb, r, c) == Number(tb.data, Place(tb, r, c), tb.wide[c])

write_column_data(tb, r, c, v) ==
    LET cells == Cells(tb.wide[c], v)
        p     == Place(tb, r, c)
    IN  [tb EXCEPT !.capacity = IF @ = 0 THEN Len(tb.data) ELSE @,
                   !.data = [q \in DOMAIN @ |->
            IF q \in p .. p + Len(cells) - 1 THEN cells[q - p + 1] ELSE @[q]]]

(* Mutant: the old row is read by the new widths.                           *)
copy_row_by_new_widths(data, r, from, to) ==
    FlattenSeq([c \in DOMAIN from |->
        Cells(to[c], Number(data, (r - 1) * RowSize(from) + Offsets(from)[c] + 1, to[c]))])

(* copy_row goes through the columns in order, not through their offsets.   *)
copy_row(data, r, from, to) ==
    FlattenSeq([c \in DOMAIN from |->
        Cells(to[c], Number(data, (r - 1) * RowSize(from) + Offsets(from)[c] + 1, from[c]))])
----------------------------------------------------------------------------
(* Changing widths.                                                         *)

(* Mutant: references of a minimal delta narrow as those of others do.      *)
ResizedWidth_always(tb, t, c, what, count) ==
    LET col   == Columns[t][c]
        value == IF col.kind = "index" THEN compose_coded_index(col, what, count) ELSE count
    IN  IF RefersTo(col, what) THEN value > Max16 ELSE tb.wide[c]

(* The width of column c of t once `what', a table or a heap, has `count'   *)
(* rows or entries.                                                         *)
ResizedWidth(tb, t, c, what, count) ==
    LET col   == Columns[t][c]
        value == IF col.kind = "index" THEN compose_coded_index(col, what, count) ELSE count
    IN  IF RefersTo(col, what)
        THEN value > Max16 \/ (tb.wide[c] /\ minimal /\ col.kind = "index")
        ELSE tb.wide[c]

(* The offsets embedded in the column details stay as they were.            *)
set_column_size_for_max_row_count(tb, t, what, count) ==
    LET wide == [c \in DOMAIN tb.wide |-> ResizedWidth(tb, t, c, what, count)]
        held == IF tb.capacity > 0 THEN tb.capacity ELSE Len(tb.data)
    IN  IF RowSize(wide) = RowSize(tb.wide) THEN tb
        ELSE [tb EXCEPT !.wide = wide,
                        !.data = FlattenSeq([r \in 1 .. tb.rows |-> copy_row(tb.data, r, tb.wide, wide)]),
                        !.capacity = (held \div RowSize(tb.wide)) * RowSize(wide)]

(* The token a column holds: the null token if its tag means no table.      *)
TokenAt(tb, t, r, c) ==
    LET col == Columns[t][c]
        n   == read_column_data(tb, r, c)
        tag == n % 2^col.bits
    IN  IF tag < Len(col.of) THEN <<col.of[tag + 1], n \div 2^col.bits>> ELSE <<"none", 0>>

(* A reference to row `first' of t or beyond moves on by one row.           *)
ShiftReference(tb, u, r, c, t, first) ==
    LET to == TokenAt(tb, u, r, c)
    IN  IF to[1] = t /\ to[2] >= first
        THEN write_column_data(tb, r, c, compose_coded_index(Columns[u][c], t, to[2] + 1))
        ELSE tb

(* It ends at the first row whose tag means no table, and nobody looks at   *)
(* what it returns.                                                         *)
update_shifted_row_references(tb, u, c, t, first) ==
    LET Reached(r) == \A s \in 1 .. r : TokenAt(tb, u, s, c)[1] # "none"
        shifted[r \in 0 .. tb.rows] ==
            IF r = 0 THEN tb
            ELSE IF Reached(r) THEN ShiftReference(shifted[r - 1], u, r, c, t, first)
            ELSE shifted[r - 1]
    IN  shifted[tb.rows]

(* The count passed on is that of the table that refers, not of the one     *)
(* that grows (editor.c:351).                                               *)
update_table_references_for_shifted_rows(u, t, first) ==
    LET tb == set_column_size_for_max_row_count(tables[u], u, t, tables[u].rows + 1)
        shifted[c \in 0 .. Len(Columns[u])] ==
            IF c = 0 THEN tb
            ELSE IF RefersTo(Columns[u][c], t)
            THEN update_shifted_row_references(shifted[c - 1], u, c, t, first)
            ELSE shifted[c - 1]
    IN  IF Exists(u) THEN shifted[Len(Columns[u])] ELSE tables[u]
----------------------------------------------------------------------------
(* What the columns hold, as a caller reads it.                             *)

Entry(h, n) ==
    LET offset == IF h = GuidHeap THEN (n - 1) * GuidSize ELSE n
    IN  IF n = 0 THEN "" ELSE IF offset \in DOMAIN heaps[h].entries
                              THEN heaps[h].entries[offset] ELSE "not an entry"

Value(t, r, c) ==
    LET col == Columns[t][c]
        n   == read_column_data(tables[t], r, c)
    IN  CASE col.kind = "constant" -> n
          [] col.kind = "heap" -> Entry(col.of, n)
          [] col.kind = "index" -> TokenAt(tables[t], t, r, c)

Content == [t \in Tables |-> [r \in 1 .. tables[t].rows |->
                                [c \in DOMAIN Columns[t] |-> Value(t, r, c)]]]
----------------------------------------------------------------------------
(* Rows.                                                                    *)

(* Mutant: room for the rows there are is taken for room for one more.      *)
WithRow_when_full(tb, r) ==
    LET size == RowSize(tb.wide)
        room == IF tb.capacity >= size * tb.rows THEN tb.capacity
                ELSE Max({size * (tb.rows + 1), 2 * Len(tb.data)})
        zero == [p \in 1 .. size |-> 0]
    IN  [tb EXCEPT !.rows = @ + 1, !.adding = TRUE, !.capacity = room,
                   !.data = SubSeq(@, 1, size * (r - 1)) \o zero
                            \o SubSeq(@, size * (r - 1) + 1, Len(@))]

(* The table with a row of zeroes at r, and with room for it.               *)
WithRow(tb, r) ==
    LET size == RowSize(tb.wide)
        room == IF tb.capacity >= size * (tb.rows + 1) THEN tb.capacity
                ELSE Max({size * (tb.rows + 1), 2 * Len(tb.data)})
        zero == [p \in 1 .. size |-> 0]
    IN  [tb EXCEPT !.rows = @ + 1, !.adding = TRUE, !.capacity = room,
                   !.data = SubSeq(@, 1, size * (r - 1)) \o zero
                            \o SubSeq(@, size * (r - 1) + 1, Len(@))]

(* md_append_row, which allocates a table that does not exist, and          *)
(* md_insert_row_before and _after, which do not.                           *)
insert_row_into_table(t, r) ==
    LET tb == IF Exists(t) THEN tables[t] ELSE NewTable(t)
    IN  /\ ~tb.adding
        /\ r \in 1 .. tb.rows + 1
        /\ tb.rows < MaxRows[t]
        /\ tables' = [u \in Tables |-> IF u = t THEN WithRow(tb, r)
                                       ELSE update_table_references_for_shifted_rows(u, t, r)]
        /\ UNCHANGED <<heaps, large, minimal>>
        /\ content' = Content'

md_commit_row_add(t) ==
    /\ tables[t].adding
    /\ tables' = [tables EXCEPT ![t].adding = FALSE]
    /\ UNCHANGED <<heaps, large, minimal>>
    /\ content' = Content'

md_set_column_value_as_constant(t, r, c, v) ==
    /\ Columns[t][c].kind = "constant"
    /\ tables' = [tables EXCEPT ![t] = write_column_data(@, r, c, v)]
    /\ UNCHANGED <<heaps, large, minimal>>
    /\ content' = Content'

md_set_column_value_as_token(t, r, c, to) ==
    /\ Columns[t][c].kind = "index"
    /\ to[1] \in Range(Columns[t][c].of)
    /\ tables' = [tables EXCEPT ![t] =
                     write_column_data(@, r, c, compose_coded_index(Columns[t][c], to[1], to[2]))]
    /\ UNCHANGED <<heaps, large, minimal>>
    /\ content' = Content'
----------------------------------------------------------------------------
(* Heaps.                                                                   *)

Scale(h) == IF h = GuidHeap THEN GuidSize ELSE 1
SizeIn(h, s) == IF h = GuidHeap THEN GuidSize ELSE Strings[s]

(* The size of the heap, once it has the entry every heap but that of the   *)
(* GUIDs begins with, unless a heap is copied that has its own.             *)
StartSize(h, preserve_offsets) ==
    IF heaps[h].size = 0 /\ h # GuidHeap /\ ~preserve_offsets THEN 1 ELSE heaps[h].size

(* All tables once heap h has grown to `size', ...                          *)
TablesForHeap(h, size) ==
    [t \in Tables |-> IF Exists(t)
                      THEN set_column_size_for_max_row_count(tables[t], t, h, size \div Scale(h))
                      ELSE tables[t]]

(* ... and the flags, of which the one for GUIDs is never brought up to     *)
(* date.                                                                    *)
FlagsForHeap(h, size) == IF h = GuidHeap THEN large
                         ELSE IF size > Max16 THEN large \union {h} ELSE large \ {h}

reserve_heap_space(h, size, preserve_offsets, entry) ==
    LET start == StartSize(h, preserve_offsets)
    IN  /\ start + size <= MaxHeap[h]
        /\ heaps' = [heaps EXCEPT ![h] = [size |-> start + size,
                                          entries |-> (start :> entry) @@ @.entries]]
        /\ large' = FlagsForHeap(h, start + size)
        /\ UNCHANGED minimal

(* The reference to an entry at an offset of a heap.                        *)
Reference(h, offset) == IF h = GuidHeap THEN offset \div GuidSize + 1 ELSE offset

(* Strings, blobs and GUIDs are added without looking for an equal one.     *)
add_to_heap(h, s) == reserve_heap_space(h, SizeIn(h, s), FALSE, s)

(* md_set_column_value_as_utf8 and _as_blob find the place to write before  *)
(* the heap grows (write.c:302).  If that moves the table the reference     *)
(* goes to memory that is free.  For a GUID the place is found again.       *)
WriteReference(t, r, c, h, after) ==
    LET ref == Reference(h, StartSize(h, FALSE))
    IN  IF after.wide = tables[t].wide \/ h = GuidHeap
        THEN write_column_data(after, r, c, ref) ELSE after

md_set_column_value_as_heap_entry(t, r, c, s) ==
    LET h     == Columns[t][c].of
        after == TablesForHeap(h, StartSize(h, FALSE) + SizeIn(h, s))
    IN  /\ Columns[t][c].kind = "heap"
        /\ add_to_heap(h, s)
        /\ tables' = [after EXCEPT ![t] = WriteReference(t, r, c, h, @)]
        /\ content' = Content'

(* Nothing is added for an empty string, blob or GUID.                      *)
md_set_column_value_as_empty(t, r, c) ==
    /\ Columns[t][c].kind = "heap"
    /\ tables' = [tables EXCEPT ![t] = write_column_data(@, r, c, 0)]
    /\ UNCHANGED <<heaps, large, minimal>>
    /\ content' = Content'

(* A part of the heap of a delta is copied to the end of the heap, which is *)
(* made if need be.  A delta that goes on from the heap may have nothing    *)
(* new in it; widths are brought up to date then too.                       *)
append_heap(h, size) ==
    /\ heaps[h].size + size > 0
    /\ reserve_heap_space(h, size, TRUE, "")
    /\ tables' = TablesForHeap(h, heaps[h].size + size)
    /\ content' = Content'
----------------------------------------------------------------------------
(* Saving and loading.                                                      *)

(* The streams get_image_size makes room for, and those that are written.   *)
StreamsSized ==
    {"tables"} \union {h \in Heaps : heaps[h].size > 0} \union (IF minimal THEN {"JTD"} ELSE {})
StreamsWritten == StreamsSized \union (IF HasPdb THEN {"Pdb"} ELSE {})

(* The tables that are written; a saved image has no empty tables.          *)
TablesWritten == {t \in Tables : tables[t].rows > 0}

(* Into a buffer of the size asked for.                                     *)
md_write_to_buffer ==
    /\ \A t \in TablesWritten : ~tables[t].adding
    /\ StreamsWritten = StreamsSized

(* Widths and offsets are computed, the rest is as it was written.          *)
initialize_tables ==
    [t \in Tables |->
        LET wide == initialize_table_details(t, Counts, large)
        IN  IF t \in TablesWritten
            THEN [tables[t] EXCEPT !.wide = wide, !.offset = Offsets(wide), !.capacity = 0]
            ELSE NoTable]

(* The zeroes the heap of strings was padded with are trimmed again, so     *)
(* that heaps keep their sizes.                                             *)
md_create_handle ==
    /\ tables' = initialize_tables
    /\ UNCHANGED <<heaps, large, minimal>>
    /\ content' = Content'

SaveAndLoad == md_write_to_buffer /\ md_create_handle
----------------------------------------------------------------------------
(* The heaps of a loaded image, each with one entry.                        *)
FirstOffset(h) == IF h = GuidHeap THEN 0 ELSE 1
LoadedHeap(h) == [size    |-> FirstOffset(h) + SizeIn(h, LoadedEntries[h]),
                  entries |-> FirstOffset(h) :> LoadedEntries[h]]

ASSUME LoadedAssumption ==
    \A h \in DOMAIN LoadedEntries : /\ h \in Heaps /\ LoadedEntries[h] \in DOMAIN Strings
                                    /\ LoadedHeap(h).size <= MaxHeap[h]

(* A row whose heap columns refer to the entries that are there.            *)
InitialRow(t, wide) ==
    LET HasEntry(col) == col.kind = "heap" /\ heaps[col.of].size > 0
        FirstEntry(col) == IF HasEntry(col) THEN Reference(col.of, FirstOffset(col.of)) ELSE 0
    IN  FlattenSeq([c \in DOMAIN wide |-> Cells(wide[c], FirstEntry(Columns[t][c]))])

(* A new image, or a loaded one: it may have heaps, which may be flagged as *)
(* large while they are small, but for the GUIDs, whose columns would       *)
(* narrow under a flag that stays; and it may be a minimal delta, whose     *)
(* references are always wide.                                              *)
Init ==
    /\ minimal \in BOOLEAN
    /\ large \in SUBSET (Heaps \ {GuidHeap})
    /\ \E loaded \in SUBSET DOMAIN LoadedEntries :
          heaps = [h \in Heaps |-> IF h \in loaded THEN LoadedHeap(h)
                                   ELSE [size |-> 0, entries |-> << >>]]
    /\ \A h \in Heaps \ {GuidHeap} : heaps[h].size > Max16 => h \in large
    /\ tables = [t \in Tables |->
          LET wide == initialize_table_details(t, [u \in Tables |-> 1], large)
          IN  IF t \in InitialTables
              THEN [rows |-> 1, wide |-> wide, offset |-> Offsets(wide), capacity |-> 0,
                    data |-> InitialRow(t, wide), adding |-> FALSE]
              ELSE NoTable]
    /\ content = Content

(* A row, the null reference, or one past the end as list columns have it.  *)
Targets(col) == UNION {{u} \X (0 .. tables[u].rows + 1) : u \in Range(col.of)}

AddRow == \E t \in Tables : \E r \in 1 .. tables[t].rows + 1 : insert_row_into_table(t, r)
CommitRow == \E t \in Tables : md_commit_row_add(t)
SetValue(t, r, c) ==
    \/ \E v \in {Max16} : md_set_column_value_as_constant(t, r, c, v)
    \/ /\ Columns[t][c].kind = "index"
       /\ \E to \in Targets(Columns[t][c]) : md_set_column_value_as_token(t, r, c, to)
    \/ md_set_column_value_as_empty(t, r, c)
SetHeapEntry(t, r, c) ==
    \E s \in DOMAIN Strings : md_set_column_value_as_heap_entry(t, r, c, s)
AppendHeap == \E h \in Heaps : \E size \in DeltaSizes[h] : append_heap(h, size)

Next ==
    \/ AddRow \/ CommitRow \/ AppendHeap \/ SaveAndLoad
    \/ \E t \in Tables : \E r \in 1 .. tables[t].rows, c \in DOMAIN tables[t].wide :
           SetValue(t, r, c) \/ SetHeapEntry(t, r, c)

Spec == Init /\ [][Next]_vars
----------------------------------------------------------------------------
(* A caller whose references stay in their widths: rows are added only      *)
(* while both tables, the one that refers and the one referred to, are      *)
(* within two bytes, and entries only while the heap is.  Only a delta may  *)
(* widen columns, and narrow those of a small heap flagged as large; but    *)
(* not those of the GUIDs, whose flag would not follow (FlagsForHeap), and  *)
(* only the last of a table, as those behind would be read where they were. *)
Within(t) ==
    \A u \in Tables : \A c \in DOMAIN Columns[u] :
        LET col == Columns[u][c]
        IN  col.kind = "index" /\ RefersTo(col, t) =>
                \A x \in {t, u} : (tables[x].rows + 2) * 2^col.bits <= Max16

KeepsWidths(h, s) ==
    LET after == TablesForHeap(h, StartSize(h, FALSE) + SizeIn(h, s))
    IN  \A t \in Tables : after[t].wide = tables[t].wide

(* Any other heap may grow past two bytes.                                  *)
GuidsWithin(h, size) == h = GuidHeap => (heaps[h].size + size) \div GuidSize <= Max16

OnlyLastColumnsChange(h, size) ==
    LET after == TablesForHeap(h, heaps[h].size + size)
    IN  \A t \in Tables : \A c \in DOMAIN tables[t].wide :
            c < Len(tables[t].wide) /\ RefersTo(Columns[t][c], h) =>
                after[t].wide[c] = tables[t].wide[c]

DisciplinedNext ==
    \/ \E t \in Tables : \E r \in 1 .. tables[t].rows + 1 : Within(t) /\ insert_row_into_table(t, r)
    \/ CommitRow \/ SaveAndLoad
    \/ \E h \in Heaps : \E size \in DeltaSizes[h] :
           GuidsWithin(h, size) /\ OnlyLastColumnsChange(h, size) /\ append_heap(h, size)
    \/ \E t \in Tables : \E r \in 1 .. tables[t].rows, c \in DOMAIN tables[t].wide :
           \/ SetValue(t, r, c)
           \/ \E s \in DOMAIN Strings : /\ Columns[t][c].kind = "heap"
                                        /\ KeepsWidths(Columns[t][c].of, s)
                                        /\ md_set_column_value_as_heap_entry(t, r, c, s)

DisciplinedSpec == Init /\ [][DisciplinedNext]_vars

Store == INSTANCE RowStore WITH Entries <- DOMAIN Strings,
                                MaxConstant <- Max16
----------------------------------------------------------------------------
(* Properties of the disciplined specification.                             *)

(* A table uses no more memory than it has, and exactly that of its rows.   *)
TypeOK ==
    /\ \A t \in Tables :
          /\ tables[t].rows \in 0 .. MaxRows[t]
          /\ Exists(t) => DOMAIN tables[t].wide = DOMAIN Columns[t]
          /\ tables[t].data \in Seq(0 .. Max16)
          /\ Len(tables[t].data) = tables[t].rows * RowSize(tables[t].wide)
          /\ tables[t].capacity > 0 => Len(tables[t].data) <= tables[t].capacity
    /\ \A h \in Heaps : heaps[h].size \in 0 .. MaxHeap[h]
    /\ large \subseteq Heaps /\ minimal \in BOOLEAN

(* The memory of a table can be written out as it is: its columns have the  *)
(* widths a reader computes from the row counts and flags of the image      *)
(* ("we can directly write out table memory without any required            *)
(* post-processing", tables.c:764).                                         *)
WidthsMatchImage ==
    \A t \in Tables : tables[t].rows > 0 =>
        tables[t].wide = initialize_table_details(t, Counts, large)

(* Values and references survive insertions, wider and narrower columns,    *)
(* new tables, deltas, and saving and loading.                              *)
ImplementsRowStore == Store!Spec
----------------------------------------------------------------------------
(* "Update all columns in the table that can refer to the updated table to  *)
(* be the correct width for the updated table's new size" (editor.c:349),   *)
(* for any caller: a narrow column can hold the last row it may refer to.   *)
(* False: the row count of the referring table is taken (editor.c:351).     *)
ReferencesFitTheirTables ==
    \A t \in Tables : Exists(t) => \A c \in DOMAIN Columns[t] :
        Columns[t][c].kind = "index" /\ ~tables[t].wide[c] =>
            \A u \in Range(Columns[t][c].of) :
                compose_coded_index(Columns[t][c], u, tables[u].rows) <= Max16

(* "assert(offset_to_table_data + len <= table->data.size)" (access.c:27),  *)
(* for any caller: every column of every row is read inside its table.      *)
(* False: when a column narrows, those behind it keep the offsets they had  *)
(* (editor.c:270), and the last row is read past the end.                   *)
AccessInsideTable ==
    \A t \in Tables : \A r \in 1 .. tables[t].rows, c \in DOMAIN tables[t].wide :
        Place(tables[t], r, c) + (IF tables[t].wide[c] THEN 1 ELSE 0) <= Len(tables[t].data)
=============================================================================
