# A TLA+ model of DNMD

DNMD reads, edits and writes ECMA-335 metadata: the tables, heaps and lists that
describe the types of a .NET image. It is a C library (`src/src/dnmd`, interface
`src/src/inc/dnmd.h`) with a C++ layer that offers it as the COM interfaces
`IMetaDataImport2`, `IMetaDataEmit2` and others (`src/src/interfaces`), and two
command line tools. This directory holds a model of its core in TLA+, checked by
TLC, with proofs checked by TLAPS. Paths in this file and in the comments of the
modules are relative to `src/src` (`write.c` is `src/src/dnmd/write.c`).

## The system

| Component | State | Operations | Model |
| --- | --- | --- | --- |
| column search (`search.template.h`, `query.c`) | none; the window of a running search | `md_bsearch`, `md_lsearch`, `mdtable_bsearch_closest`, the comparisons | `TableSearch`, `BinarySearch` |
| member lists (`write.c`, `editor.c`, `query.c`) | list columns, target table, indirection table, `is_adding_new_row` | add to a list, add to a sorted list, insert or append an owner, commit, read a list, find the owner of a member | `ListStore`, `MemberLists` |
| sorted tables (`write.c`, `query.c`, `streams.c`) | key columns, `is_sorted`, `is_adding_new_row` | insert, write a key, shift references, commit, find a row, find a range, validate | `SortedTable` |
| layout and column widths (`tables.c`, `editor.c`, `access.c`) | width and offset of every column, row counts, memory of the tables | widen or narrow columns as tables and heaps grow, copy and shift rows, create tables | `RowStore`, `ImageLayout` |
| heaps (`streams.c`, `editor.c`) | string, blob, GUID and user string heaps | add an entry, append a heap, read at an offset | `ImageLayout` |
| deltas (`deltas.c`) | the edit log and token map of a delta image | `md_apply_delta` | `DeltaMerge` |
| handles and saving (`entry.c`) | one context per handle | create, load, save, destroy | `ImageLayout` |
| memory of a handle (`entry.c`) | a list of allocations | allocate, free | not modelled |
| integers of the format (`bytes.c`) | none | read and write, compress and decompress | not modelled |
| Portable PDB blobs (`pdb_blobs.c`) | none | decode | not modelled |
| COM emit and import (`metadataemit.cpp`, `metadataimport.cpp`, `dnmd.hpp`) | rows being added, guarded by `md_added_row_t` | define, set, delete, find | `EmitRows`; reading in `HCorEnum`, `SortedTable` |
| importing between modules (`importhelpers.cpp`, `signatures.cpp`) | none of its own | find or create references to types and assemblies, translate signatures | `Importing` |
| enumerations (`hcorenum.cpp`) | ranges of rows, a position in each | read a chunk, count, reset | `TokenStream`, `HCorEnum` |
| thread safety (`threadsafe.hpp`, `pal.cpp`) | a reader/writer lock | every interface call | `ThreadSafe` |
| object lifetime (`controllingiunknown.hpp`, `tearoffbase.hpp`) | reference counts | query, add a reference, release | `ThreadSafe` |
| tools (`mddump`, `mdmerge`) | none | read a file, print | not modelled |

How the parts interact. Every editing call goes through two primitives: inserting
a zeroed row into a table (`insert_row_into_table`), which shifts every reference
to the rows after it in every table of the image and may widen columns, and writing
a column (`md_set_column_value_as_*`), which may clear the sorted flag of the table
and, for heap columns, grows a heap. Lists are built from both: a list column is an
ordinary reference, so inserting a member shifts the starts of the lists behind it.
Searches read the flag that the writers maintain. A delta is applied by the same
calls, driven by the delta's log. The COM layer is a client of the C interface:
it looks rows up, adds them and commits them in destructors; its thread-safe
variant wraps each call in a lock.

What is hard. The library is sequential; nothing of it runs concurrently but what
`threadsafe.hpp` and the reference counts of the COM objects serialise. The
difficulty is in long sequences of calls on shared tables: what an insertion does
to lists that share a start, what a flag still says after three writes, what an
indirection table created halfway through a call leaves behind, what a refused call
has already changed, and arithmetic at the edges (unsigned differences, rows one
past the end, two-byte columns).

What makes each component correct:

* **Search**: finds a value exactly when it is there, ends, and a failed search
  ends next to where the value would be, because the owner of a member is found
  from a miss.
* **Lists**: the lists of the owners partition the members; a member keeps its row
  number for ever; an add reaches the list it was meant for and no other; reading
  from owner to member and from member to owner agree.
* **Sorted tables**: the flag is set only on tables that are in order, because
  searches and the saved image trust it; searches find what is there.
* **Widths and heaps**: columns have the widths a reader of the image works out, no
  value changes when they widen or narrow, and offsets that were handed out stay valid.
* **Deltas**: an applied delta has made of the image what its producer meant; one that
  is refused or fails has touched no row it does not name.
* **Saving**: the size computed is the size written, and loading gives back the image.
* **Emitting**: a parent has one row in tables that allow one, and the flags that
  announce rows agree with them.
* **Importing**: the scope of an imported type is the assembly it comes from, whatever
  references earlier failures left behind.
* **Enumerations**: chunks of any size, put together, are the whole sequence.
* **Locks and counts**: no writer beside a reader; an object lives while it is
  referenced and is destroyed once.

## The modules

| Module | What it is |
| --- | --- |
| `TableSearch` | the three searches as functions of a column, for the other modules |
| `BinarySearch` | the loop of the binary search, step by step |
| `MemberLists` | owners, list column, target table, indirection table |
| `ListStore` | what lists promise: disjoint sequences of tokens that only grow |
| `SortedTable` | key columns, flag and searches of one table |
| `HCorEnum` | enumerations: ranges of rows or pages of tokens, read in chunks |
| `TokenStream` | what enumerations promise: one sequence, read in order |
| `ImageLayout` | tables and heaps in memory: widths, offsets, growth, saving, loading |
| `RowStore` | what an image promises: values that stay, references that follow their rows |
| `DeltaMerge` | applying deltas entry by entry |
| `EmitRows` | rows that COM calls keep for a parent, and the flags that announce them |
| `Importing` | references to types and assemblies imported between images |
| `ThreadSafe` | the lock around every COM call, and reference counts |
| `MC...` | the instances TLC checks |
| `MemberListsProofs`, `HCorEnumProofs`, `ThreadSafeProofs`, `EmitRowsProofs`, `ImportingProofs`, `ImageLayoutProofs` | theorems about the module of that name |
| `SortedTableProofs` | theorems about `BinarySearch` and `SortedTable`, the search and the tables that allow it |
| `TableSearchProofs` | lemmas on sequences, least and greatest members and induction on an interval, for all proof modules; then what the searches return, for every column |

How they compose. `MemberLists`, `SortedTable` and `EmitRows` extend `TableSearch`;
`MemberLists` implements `ListStore`, `HCorEnum` implements `TokenStream` and
`ImageLayout` implements `RowStore`. `DeltaMerge` works on lists as `ListStore`
promises them; what its heaps do to widths is the action `append_heap` of
`ImageLayout`. `ThreadSafe` says which of the calls of `EmitRows`, `Importing`, `HCorEnum`
and the others may overlap; the modules of those calls take each call as one step
because the lock makes it one.

Operators carry the names of the C functions they model. An operator whose comment
begins with "Mutant" is not part of the model: it is a plausible slip in the
function after it, kept to show that the properties notice.

### TableSearch and BinarySearch

A column is a sequence of unsigned values; `col_compare` is the sign of the
difference of two values as the code computes it, an unsigned subtraction read
as a signed number: values `Half` or more apart compare the wrong way round.
`Half` stands for 2^31. Values in the columns that are searched are row numbers
(24 bits), coded indexes (at most five bits more) and heap offsets of images below
2 GB, which is why `Numbers \subseteq 0 .. Half - 1` is an assumption.

`md_bsearch` and `mdtable_bsearch_closest` are the same loop and differ in what
they report of a miss; in `TableSearch` both are read off one recursive function
`Probe` on the windows inside the column, which other modules use in proofs. `BinarySearch` is the loop with
`base`, `count`, `row` and `res` as variables, one step per iteration. Its names for
Init, Next and Spec begin with `Loop`, as one proof module extends both it and `SortedTable`.

### MemberLists and ListStore

`list` is the list column of one owner table, `member` the target table (only
the column that sorted lists are sorted by), `ptr` the indirection table,
`indirect` whether the column was redirected to it, `present` whether the target
table exists, `addingOwner` and `addingMember` the `is_adding_new_row` flags. One
action per exported call: `md_add_new_row_to_list`, `md_add_new_row_to_sorted_list`,
the call refused while another member is uncommitted, the two insertions and the
append of owners, the two commits. The shift of references, the creation of the
indirection table and the fix of the empty owners before are part of the add, as in
the code. `ListOf(o)` is what a caller reads, `find_range_element(m)` the search in
the other direction.

Images start as `md_create_new_handle` makes them, with absent tables, or as any
well-formed image of the given size, with or without an indirection table.

`Spec` allows any call at any time. The lists do not survive that (see the findings),
so `DisciplinedSpec` says which calls they survive: on an image whose target
table is there from the start, a member becomes the first of its list in
the indirection table only when no earlier owner starts at the same row. For those
callers `DisciplinedSpec` implements `ListStore`: an add puts the new token in
one list, once, and changes no other list.

### SortedTable

`rows` holds the key columns of one table, `isSorted` the flag, `newRow` the row
being added. Keys other than the first may descend (`Descending`), as the length of
a `LocalScope` does. Writing a key, shifting the references after an insertion
into the table the key refers to, and committing make exactly the comparisons the
code makes. Some it leaves out: `DisciplinedSpec` is the caller that never
relies on them, and under it the flag is sound. `InOrder` (how `validate_tables`
compares rows) and `is_row_sorted_with_next_row` (how the editor does) are
different relations: the editor's is stricter, so that it may drop the flag of a
table that is in order. This costs time, not correctness.

### HCorEnum and TokenStream

An enumeration is a chain of segments, `total` and `readIn` their `Total` and
`ReadIn`, `curr` the segment read next. For ranges of rows `current` is how far
the cursor has moved from the start of the range, kept apart from `readIn` because
the code moves the two apart. A read call is a loop: `ReadTokens` begins it,
`NextSegment` and `ReadUnit` are its iterations, `Done` its return. `ReadOneToken`,
`ReadTableTokens`, `ReadDynamicTokens` and `ReadTokenPairs` are the same loop for one
token, rows, tokens and pairs. `Reset` is written by what its walk leaves in every
segment: `Before(s)` is what the walk has taken off the position at `s` (a running sum,
as in `Count`), and `StopsAt(p)` the null range at which it fails. `Count` changes nothing and has no
action.

`EvenSpec` sets an enumeration of pairs to even positions only. It implements
`TokenStream`: whatever the sizes of the chunks, the entries come in order, none
twice, and a short chunk means the end.

### ImageLayout and RowStore

`tables` holds what `mdtable_t` and its editor hold: the row count, the width and
offset of every column, the memory as a sequence of two-byte cells, the capacity, and
whether a row is being added. `heaps`, `large` and `minimal` are the heaps, the
large-heap flags and the flag of a minimal delta in the header. One action per call
that changes the image: inserting a row at any place (which shifts references, widens
columns, copies rows and creates the table if need be), committing, writing a constant,
a reference, a heap entry or an empty entry, appending the heap of a delta, and saving
followed by loading. `Max16` is 7 instead of 65535, so that tables of a few rows and
heaps of a few entries outgrow two bytes.

`content` is a history column: what a reader of the memory sees, by `read_column_data`
and the heaps. `ImplementsRowStore` says that it evolves as `RowStore` has it, which
knows neither widths nor memory: a value stays what it was written, a reference follows
its row. So the widening, copying and renumbering, and the round trip through a file,
are invisible.

`Init` is a new image or a loaded one, which may have the heaps of `LoadedEntries`, and
whose heaps may be flagged as large while they are small; the first delta appended to
such a heap narrows the columns that refer to it. `append_heap` also makes a heap
that is absent, without the empty first entry that `add_to_heap` gives it.

`DisciplinedSpec` is a caller under which only deltas change widths, the columns of
GUIDs keep theirs (GUID columns would widen without the flag a reader goes by,
`editor.c:212`), and only the last column of a table changes (those behind it would
keep their offsets, `editor.c:270`). Beyond it the code goes wrong (see "What the code does otherwise").

### DeltaMerge

One delta is merged at a time: `merge_in_delta` checks that it fits and appends its
heaps, `process_entry` handles one entry of the log (an edit of a row, a new row, or a
member to create), `finish_merge` records the generation. `refuse_entry` is any of the
checks that fail, `out_of_memory` a failure anywhere between two entries (one inside an
entry is the same to a caller, who gives the image up). `Editions` is what the producers
of the deltas meant; the log and the map of a delta are written from it, in any order
and form the format allows. `AppliedAsEdited` compares the image with it.
`CarefulSpec` is a caller that gives up an image after a failure; `Spec` one that tries
again. `status = "undefined"` is where the insertion sort of `sort_list_by_column`
leaves its array.

### EmitRows

Rows of fourteen tables that belong to a parent: `table` has their parent column, as
a number (`Key` composes it, `TokenOf` takes it apart), one more column, and the sorted
flag; `flags` the flags of parents that announce such rows. One action per COM call.
A row that is given up gets a nil parent and stays, as its token was handed out. The
searches are those of `TableSearch`, the checks on writing and committing those of
`SortedTable`.

`CommitGarbage` stands for the guard `md_added_row_t` of `FindOrCreateParentedRow`:
when the row is found, the guard is never given one, and its destructor commits what
is on the stack. Null or an old cursor are in the model; any other value crashes.

`DisciplinedSpec` is a caller that gives a row up only where the table stays in order
or loses its flag, with images small enough for references of two bytes. This is
needed because the setter does not compare the row it wrote with the one before, so
that a nil parent in the middle leaves the flag on a table out of order.

### Importing

`tables` are the four tables of each image that imports touch. `DefineImportType` and
`TranslateSigWithScope` are one step each (they run under the lock of the target), made
of functions from tables to tables that carry success along as the code's `HRESULT`
does (`Then` is `RETURN_IF_FAILED`): what was added before a failure stays.
An import writes the target module and the AssemblyRef table of the target's assembly,
which may be the image the types come from (`ImportsWriteTargets`). Tokens of assembly keys are compared by the code also where they have not been set;
`lucky` is the set of comparisons that come out equal, `garbage` whether the `hr` of
`ImportSignatureIntoModule` that is never assigned reads as a failure. TypeRefs carry
`of`, a history column: the scope the source has, which the properties compare with
the scope the target got.

### ThreadSafe

A call is a sequence of sections; a section has the locks it takes, what it uses of the
scope it is called on (`uses`: the tables and an enumeration), and the images it reaches
through `IDNMDOwner`, which takes no lock (`reaches`). A query takes the read lock of its
scope, also when it advances an enumeration, which is then written under a read lock; an
editing call takes the write lock. An import (`Imports`) names the module and assembly
it imports from and those it imports into. `DefineImportType` locks the module it writes
and reaches the other three: both sources are read and the target's assembly gets
references. `TranslateSigWithScope` locks the scope it is called on and leaves that alone,
as the emit scope is a parameter; it writes that scope and its assembly without their
locks, unless the scope is the one it was called on. `DefineImportMember` takes no
lock itself but makes calls that do. `NoConflict` therefore holds of every caller and says where
conflicts can be: on an enumeration both threads were given, or on a scope that one of
the two has come to by an import, past its lock. The sets of names are the calls of `ThreadSafeImportEmit`,
sorted by what they lock. `Release` and `Delete` are the reference counts of
`controllingiunknown.hpp`: the thread that brings the count to zero deletes.

## The runs

| Run | Distinct states | Shows |
| --- | --- | --- |
| `binary_search` | 14 thousand | the loop on every ascending column of up to 7 rows over 5 values and every key: no row skipped, hits right, misses adjacent, same result as the function, ends |
| `member_lists` | 62 thousand | every caller: types, columns never past the end, indirection a permutation, tokens never move, refused calls leave lists alone |
| `disciplined_lists` | 28 thousand | disciplined callers: lists ascend, partition the members, agree in both directions, adds reach their owner, implement `ListStore` |
| `sorted_table` | 44 thousand | disciplined callers: the flag is sound, rows and ranges are found |
| `enumerations` | 2.5 thousand | chunks read one sequence, across segments and resets; every read call returns |
| `image_layout` | 164 thousand | columns that widen and narrow when the heap of a delta is appended, inserts before and after what is referred to, saving and loading: widths are those a reader works out, no value changes (`RowStore`) |
| `delta_merge` | 769 | two generations merged in every order of the log: the image is as edited, no other row changes, the merge ends |
| `thread_safe` | 74 thousand | every call of two threads beside every other, imports in both directions included: conflicts only on a shared enumeration or on tables an import reaches past their lock; deleted once, calls return |
| `importing` | 105 thousand | imports between four images, with failures: references name the assembly a type comes from, the manifest knows what the netmodule refers to, only the targets are written |
| `emit_rows` | 260 thousand | disciplined callers of COM calls: flags agree with rows, one row per parent, one method per semantic |
| `other_lists_kept` | | counterexample for callers of lists on a present table |
| `permissions_flagged` | | counterexample for callers of `DeleteToken` |

Bounds. Seven rows give the search windows of every parity down to one row, keys
before, between and after. Three owners give an owner before, at and after the one
that is added to, so runs of two and three empty owners, and four members
give lists that begin, end and grow at every place; a fourth owner adds no case
to `add_new_row_to_list`, which distinguishes the owner, those before it with
the same start, and those after it. Four rows of two keys give a row
a predecessor and a successor that have neighbours themselves. The proofs drop
these bounds. Enumerations have one or two ranges in the code (`EnumMembers` makes two);
pages of two entries instead of sixteen give three pages from six tokens, and chunks of
three units end inside, at and after the end of a page.

`image_layout` has a table that refers to another by a coded index, and two heaps, one
of which (GUIDs) counts entries instead of bytes and holds one. The heap of strings has
room for two entries or an entry and a delta. It may be loaded with one entry, at the limit of two
bytes and flagged as large: a delta with nothing new for it clears the flag and narrows
the last columns of both tables, with references in their rows; the next one passes the
limit and widens them again. Rows are inserted before and after those referred to. `delta_merge` has two generations, of three and four
edits, so that a log creates members of old and new parents and edits rows before and
after, in every order, with three forms of the map and with a delta of another
module. `thread_safe` has two threads: a conflict is between two, and every call of
one meets every section of the other. An assembly and its netmodule import from each
other, with a library opened for reading as the assembly of the source; one enumeration is given
to both threads. Two references of a thread to one scope and one to the others let a
release that is not the last one race with one that is.
`importing` has an assembly, its netmodule and two libraries, one imported by name
alone, and up to two new rows in each table, enough for a second import to meet
what a failed first one left. Assembly and netmodule both hold a reference to one of the
libraries and to a third one, so that imports into the netmodule get as far as a scope of their own. In `emit_rows` two types and two fields stand before and
after each other, and four rows in at most two tables are enough for a row to have
neighbours on both sides; no call touches more than two tables (`SetPropertyProps` and
`SetClassLayout` do).

Fairness. `BinarySearch` assumes weak fairness of its step: it is a loop that
nothing interrupts. `HCorEnum` assumes it of the steps of a read call, also a loop
(`CallEnds`), and `DeltaMerge` of the steps of a merge, which is a loop over the log, but
not of failures of memory (`MergeEnds`). In `ThreadSafe` a thread inside a call goes on
(weak fairness of `Proceed`), and a reader that waits gets its turn (strong fairness
of `lock_shared`): `pal.cpp` uses `pthread_rwlock`, which by default lets readers in
beside readers, and SRW locks. Writers get no such promise; a call that edits may
wait as long as threads keep reading, which is why `CallsReturn` speaks of threads that
stop making calls, and `QueriesReturn` of queries only. The other specifications
state no fairness, as nothing obliges a caller to make another call, and no
liveness property is claimed for them. A caller may stop, so deadlock is not checked;
that threads do not wait for each other is `CallsReturn`.

## What the code does otherwise

Two runs end in a counterexample to what a comment or the header says.

* `other_lists_kept`: with an indirection table, the first member of an owner
  that shares its start with earlier empty owners is given to one of those, because
  only the one owner is reset after all references were shifted (`write.c:675`; the
  branch without indirection handles this, `write.c:694`).
* `permissions_flagged`: `DeleteToken` of a permission in the middle of the table
  leaves the table flagged as sorted, the search for others bisects and misses them, and
  the type or method loses `HasSecurity` though it has permissions left
  (`metadataemit.cpp:1116`).

Further ones are stated as properties of the modules, but no run checks them. Naming
one in the module's .cfg, as its only property and under the specification given
here, shows the counterexample.

* `MemberLists!AddedAtTheEnd` (`PresentSpec`): the add that creates the indirection table puts
  the member first in the list, not last (`write.c:746`).
* `MemberLists!EveryListCanGrow` (`Spec`): an owner made before the target table exists
  cannot get members once it does (`write.c:777`).
* `SortedTable!CommitComparesBothNeighbours` (`Spec`): committing never compares the row
  with the next one (`write.c:900`).
* `SortedTable!SetComparesPreviousRow` (`Spec`): writing a key never compares the row
  with the one before it (`write.c:124`).
* `SortedTable!FoundRowHasValue` (`Spec`): a search that begins after row 1 reports a row
  counted from where it began (`query.c:586`).
* `HCorEnum!WholePairsLeft` (`Spec`): positions count single tokens where pairs are
  enumerated (`hcorenum.cpp:384`).
* `ImageLayout!ReferencesFitTheirTables` (`Spec`, `MaxRows <- MCManyRows`): a table grows
  past what two bytes hold and the columns that refer to it stay narrow, because the
  row count of the referring table is taken (`editor.c:351`).
* `ImageLayout!AccessInsideTable` (`Spec`, `Columns <- MCNameFirst`): a column that changes its
  width leaves those behind it at their old offsets (`editor.c:270`), until the image is
  saved and loaded. In a loaded image whose small heap of strings is flagged as large, the first
  string that is added narrows the columns, and the last row is read past the end of its
  table, against the assertion at `access.c:27`. Where columns widen, as those of a heap
  that grows past 64 KiB do, the columns behind are read from the middle of others.
* `DeltaMerge!ParamListsSorted` (`Spec`, `Editions <- MCUnsortedEditions`, `Deltas <- MCUnsortedDeltas`): the
  insertion sort counts an unsigned index down to `>= 0` (`write.c:987`).
* `ThreadSafe!ImportsDoNotConflict` (`Spec`): an import reads the source and appends to the
  assembly of its target with the target module's lock alone (`threadsafe.hpp:1107`), though
  the wrapper says of such calls that the implementation locks when necessary (`threadsafe.hpp:1132`).
  Two threads that import into netmodules of one assembly append to its tables at once.
* `Importing!ReferencesNameAssemblies` (`Spec`): the test of the fourth version column lacks
  its negation (`importhelpers.cpp:541`), so every import that needs a new AssemblyRef
  fails and leaves one without a name.

Others show up as the shape of actions, or as conditions of properties that hold.

* Lists and searches. `SortedInsertKeepsOrder` excludes two adds: one whose
  scan ends at row 1 with a value not above the new one, as row 1 is also the mark for "not
  found" (`write.c:846`), and one that creates the indirection table for a place inside
  the list, which is then forgotten (`write.c:746`); `FindsPrimaryKey` speaks of the primary
  key only, because `find_row_from_cursor` bisects any column of a sorted table
  (`query.c:573`); `ResetReachesPosition` excludes resets that meet a null range, which
  fail even for position 0 (`hcorenum.cpp:355`); the list of `RangeCount` may end
  before it starts, which the code reads as a huge unsigned count.
* Layout. A coded column narrows after a look at one of its target tables only
  (`editor.c:270`); a list column may hold one more than its table has rows and so
  overflow; the flag of a large GUID heap is lost when columns are resized
  (`editor.c:221`, left out of `Init`); a table that refers to itself is copied without
  the row being inserted (`editor.c:319`, excluded by `LayoutAssumption`); the setter keeps
  a pointer to a row that growing the heap may move (`write.c:302`); an image
  with a Portable PDB stream cannot be saved, as its size is computed without that
  stream (`entry.c:866`, `entry.c:1040`); the counts of the type system that a PDB refers
  to are kept up under an inverted condition (`editor.c:524`).
* Deltas. A failed delta that is applied again appends its heaps twice, and what it
  then adds refers to the wrong place in them.
* Threads. An enumeration that two threads share is advanced by both under the read
  lock (`threadsafe.hpp:115`), which `NoConflict` allows along with what imports reach.
  Pointers that queries return may be freed
  by a later edit. `DefineImportMember` writes through a null pointer for methods and
  is refused for fields (`metadataimport.cpp:1323`).
* Importing. The type of a TypeDef is compared with the visibility enumeration
  (`importhelpers.cpp:820`), and the top of a stack of scopes is taken for the outermost
  scope, so that across assemblies no import of a type succeeds; signed sources
  get further than unsigned ones, whose missing key is refused. The translated signature
  is resized to its own size, zero, and what follows the sentinel is dropped.
* Emitting. `DeletePinvokeMap` and `DeleteClassLayout` always fail, because the nil
  parent is written to the first column, a constant in those tables
  (`metadataemit.cpp:556`); `SetTypeDefProps` gives up only the first of the old
  interfaces (the cursor never moves) and adds a half-filled row for an empty list;
  `DefineProperty` always fails after it has made its map row
  (`metadataemit.cpp:1776`); `DefineGenericParam` and `SetGenericParamProps` stop after
  the first constraint (`metadataemit.cpp:2435`, `2513`), and the latter fails when there
  are no constraints yet; `SetPropertyProps` with a getter fails when there are no method
  semantics, and leaves `HasDefault` without a constant; columns that are plain references
  of four bytes are searched for a whole token and never match, so that parents get
  second rows (`query.c:574`).

## What is proved

For every value of the constants, from the assumptions the modules name:

| Theorem | States | By |
| --- | --- | --- |
| `BinarySearchFinds`, `ClosestFinds`, `LinearSearchFinds` | what the three searches return, for every column | the recursion equation of `Probe`, and a least window in which it would be wrong |
| `LoopInvariant`, `SearchFindsKey`, `SearchMissIsAdjacent` | the rows outside the window differ from the key; hits and misses are right | the window's two bounds: rows before it are below the key, rows after it above |
| `LoopAgreesWithFunction` | the loop returns what the function says | the function has the same value for the whole column and for the window that is left |
| `TypeCorrect`, `ColumnsStayInTable`, `IndirectionIsPermutation` | lists, any caller | one invariant: types, every column at most one past the end, the indirection table as long as the target and injective |
| `MembersKeepTheirRows`, `RefusedCallsKeepLists` | no step moves a member; a refused call changes no list, any caller | every action leaves `member` or appends to it; lists are made of what a refused call leaves alone |
| `DisciplinedListsAscend` | the starts ascend from 1 | the invariant above, with the target table present |
| `DisciplinedOwnedOnce`, `DisciplinedOwnerFound` | lists partition the members; the search from a member finds its owner | ascending starts cut the table into intervals; what `ClosestFinds` says of the starts |
| `DisciplinedAddReachesOwner`, `DisciplinedSortedInsert` | an add puts the member into its owner's list, at the end of it unless the add creates the indirection table, and changes no other list; a sorted insert keeps the order, but for the two adds that misplace a member | how an add moves the intervals: by one behind the place, not at all before it |
| `DisciplinedListsAreAStore` | lists implement `ListStore` | tokens stand for rows one to one, so that an interval of rows is a list of tokens |
| `DisciplinedTypeCorrect`, `DisciplinedFlagIsSound` | the flag is sound | a stronger order: see below |
| `DisciplinedFindsPrimaryKey`, `DisciplinedRangeIsComplete` | rows and ranges are found by primary key | the sound flag, with `BinarySearchFinds` and `LinearSearchFinds` |
| `CursorsStayTogether`, `EvenCursorsStayTogether` | enumerations: cursor and count agree | that ranges hold single rows and are complete; a failed reset leaves both alone from the same segment on |
| `ChainsAreReadInOrder`, `EvenChainsAreReadInOrder` | chains are read in order | the shape of a chain, and that nothing is read before it is handed out |
| `PositionsAreReached`, `EvenPositionsAreReached` | a reset leaves the entries behind its position | where a position is among the running sums |
| `ChainsAreStreams`, `EvenChainsAreStreams` | enumerations implement `TokenStream` | order makes the number of entries read the place of the next one |
| `FlagsAlwaysMeanRows` | the flags that announce rows agree with the rows, and columns flagged as sorted are | a disciplined caller's tables are in order where flagged, so a search misses no row |
| `AlwaysOneRowPerParent`, `AlwaysOneMethodPerSemantic` | a parent has one row where one is allowed, a semantic one method | the same invariant: the row of a parent is found if there is one, and replaced |
| `AlwaysSound` | scopes in the tables name what the source has, and the flags of AssemblyRefs agree with their keys, whatever failed before | every function of an import keeps `Sound` and only makes tables grow |
| `ScopeAlwaysNamesSameAssembly`, `ManifestAlwaysKnowsReferences` | imported scopes, in the netmodule and in its manifest | what `Sound` says of one row |
| `ImportsAlwaysWriteTargets` | an import writes the target module and the AssemblyRef table of its assembly, and nothing else | every function of an import leaves the tables of other images alone |
| `MemoryAlwaysFitsRows`, `WidthsAlwaysMatchImage` | the memory of tables: as long as their rows, within its capacity, and laid out as a reader lays it out | the width of every column is a function of its kind, the flags and `minimal`; see below |
| `CallsDoNotConflict` | two threads conflict only on an enumeration both were given or on a scope an import reaches past its lock, for any number of threads, scopes, enumerations and imports | the lock: what the current section has taken is held, a thread inside its section holds all it needs, a scope has one writer or any readers; from `EnumerationsAreGiven`, `ImportsAreGiven` and `ScopesAreDistinct`, which only say what the constants are |
| `ScopesAreDeletedOnce` | objects are deleted once, and not while they are used | the count is the number of references that threads hold; see below |

With these, every invariant, action property and refinement that the runs check of
`BinarySearch`, `MemberLists`, `SortedTable`, `HCorEnum`, `ThreadSafe`, `EmitRows` and
`Importing` is a theorem, and liveness alone is left to TLC there. Of `ImageLayout` both
invariants are theorems and the refinement of `RowStore` is left to TLC.

**Flags.** `FlagIsSound` is not inductive: it says nothing of the order between
neighbours key by key, which is what the next write compares. The invariant is that the
rows of a flagged table, without the one being added, are pairwise in order. A write
compares two neighbours only; `InOrder` is transitive (`InOrderTransitive`), so
neighbours suffice (`NeighboursSuffice`).

**Lists.** Of a disciplined caller the starts ascend, the first is 1 and none is more
than one past the end (`DInv`): list `o` is the interval from its start to the next
one's, and every row is in exactly one. A lookup in the column of starts lands on
the last owner that starts at or before the row, which is the one whose interval has it,
as owners with the same start and empty intervals come before it. With indirection,
the interval is one of the indirection table, which stands for tokens one to one
(`IndirectionIsPermutation`), so the refinement maps it to the set of tokens it stands
for. An add shifts the starts behind the place and the steps of `ListStore` follow.

**Enumerations.** The entries read are a prefix of the chain because all of the
segments before `curr` are read and none behind it is begun (or all are read to the
end): then the sum of the counts is the place in the chain (`PositionFits`). This is not
so for every chain. A reset that meets a null range stops there with the segments
behind it as they were, and one of them could be `curr`: with four ranges, a segment
between `curr` and the null one is then read while others behind are not. So the
theorems assume at most three ranges; the code makes chains of one range, or of two
(`metadataimport.cpp:731`). TLC shows the counterexample with `MaxLists = 4`.

**Emitting.** `FlagsMeanRows` and `OneRowPerParent` are about what a call finds before it
writes, so the invariant (`IInv`) puts together the shape of the tables (`Image`), the
sortedness of flagged ones (`FlagsAreSound`) and, for each table, what its rows and
flags have to do with each other (`TableSound`). That the number of a parent tells the
parent (`KeyTellsToken`) keeps parents apart. Each call is proved to change the rows of
one parent in one table, or two, and to leave `TableSound` of the others alone.

**Importing.** What a call leaves behind when it fails is what the next one finds, so the
invariant speaks of all rows: `Sound` says that the flag of every AssemblyRef agrees with its key,
that every imported TypeRef has the scope its source has, in the target and in its
manifest, and that no imported row is nested. Every function an import is made of is
proved to keep `Sound` and to make tables grow whether it succeeds or not, and, when it
succeeds, to return a token of a row that serves; as tables only grow, it goes on
serving while the rest of the call runs. The climb from a nested type to its
outermost one ends because images are loaded without circular nesting.

**Layout.** That rows take up exactly their memory is not inductive without the widths: a
copy into another layout is as long as the new layout says only if the old one was read
right. The invariant says of each table that its columns are as wide as their kind, the
flags and `minimal` give (`LaidOut`), and of the row counts that references to tables are
within two bytes (`InTwoBytes`). Columns that refer to a heap then change width together
with its flag (`ResizedForHeap`). `set_column_size_for_max_row_count` copies a table only
if the size of its rows changes, which is right because a resize widens columns or narrows
them but never both (`SameSizeSameWidths`). A copied row is the concatenation of its
columns, whose length is what `FlattenSeqLength` says of folds of concatenations.

**References.** A count that is a number says nothing of who holds it. The invariant
counts: `refCount` of a scope is the cardinality of the set of references that threads
hold, a scope without references is deleted or in the hands of one thread that is about
to, no two threads are about to delete the same scope, and a thread in a call holds a
reference to its scope.

Assumptions. Beyond those of the modules, theorems that search assume that values and
rows stay below `Half`: `MaxValue < Half` for keys and `MaxMembers + 1 < Half` for lists.
`Half` is 2^31; rows have 24 bits and keys at most five more, or are offsets in
images below 2 GB (see `TableSearch`). Those of `EmitRows` bound the numbers of parents
in the same way. `Importing` assumes that loaded images are well formed
(`LoadedAssumption`, `ImagesAssumption`): rows and tokens refer to rows that exist,
types are not nested in a circle, and the flag of an AssemblyRef says whether its key
is a whole one. `LayoutAssumption` says that a coded column has tags for its tables and room
for a row in two bytes, and that no table refers to itself; `LoadedAssumption` that a
loaded heap has an entry the instance knows and stays within its bound. The disciplines of the callers are those of the specifications the
runs check.

Recursion. The recursive definitions of modules with theorems are functions, not
RECURSIVE operators. The induction theorems of the library take operators as parameters
and cannot be used with the installed provers; instead, a set of numbers for which a claim
fails has a least member (`MinIsMember`, `IntervalInduction`). That a recursive function
satisfies its equation is proved first, from approximations that satisfy it up to a bound
(`ProbeTurns`, `SumsAddUp`, `ElementHasWalk`, `ClimbIsOuter`).

Only model-checked: liveness (`Terminates`, `CallEnds`, `MergeEnds`, `QueriesReturn`,
`CallsReturn`), which is beyond the prover; `ImplementsRowStore` of
`ImageLayout`, which needs the contents of every cell through copies and shifts and not
just their number; and `DeltaMerge`, whose `AppliedAsEdited` and `OnlyEditedRowsChange`
are about every order of the logs that an instance gives as constants.

## What is left out

* **Integers of the format and PDB blobs**: functions of their input without state. An
  exhaustive comparison belongs in a unit test.
* **Memory of a handle**: a linked list that two short functions keep.
* **Tools**: input and output.
* **Reading an image**: parsing headers is a sequence of bounds checks; `ImageLayout`
  loads what it saved. `md_validate` is called by the tools only.
* **Contents** of columns that are neither keys, references, list starts nor heap entries; names
  and signatures stand for themselves; how a heap encodes an entry.
* **Lists and tables**: an allocation failure inside an add, which leaves an appended
  member in no list; lists of Portable PDB local scopes, which have no indirection
  tables; in `SortedTable`, coded keys whose references shift by tag (`ImageLayout`
  has those, without the flag).
* **Enumerations**: rows inserted while an enumeration is open, and a page that cannot
  be allocated.
* **Emitting**: calls that write columns of one row, or append a row and hand out its
  token, have no control beyond what `SortedTable` has. Flags that `Set...Props` overwrites
  are a TODO in the code and left out of `EmitRows`. Definitions of fields, methods and
  parameters are adds to lists (`MemberLists`).
* **Importing**: the search for a type in the target assembly is never reached, because
  the name it needs is asked of the wrong row; TypeSpecs inside a TypeSpec; images with equal
  MVIDs that differ; targets without a heap of blobs; the debug assertion on AssemblyRefs.
* **Threads**: what a call does under its lock; tear-offs, which live as long as the
  object they belong to.

What is worth doing next: that a copy keeps the number in every column, towards
`ImplementsRowStore`, and proofs about `DeltaMerge`; then the composition of a shared enumeration with rows that are
inserted while it is open.
