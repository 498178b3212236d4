----------------------------- MODULE MemberLists -----------------------------
(***************************************************************************)
(* Member lists, the way metadata tables store "the fields of a type" or   *)
(* "the parameters of a method" (src/dnmd/write.c, editor.c, query.c).     *)
(*                                                                         *)
(* Each row of an owner table (TypeDef, MethodDef, PropertyMap, EventMap)  *)
(* has a list column: the first row of its members in a target table       *)
(* (Field, Method, Param, Property, Event).  The list ends where the list  *)
(* of the next owner starts.  Row numbers are tokens that callers keep, so *)
(* a member never moves: when a list has to grow in the middle, the editor *)
(* puts an indirection ("Ptr") table between the two, whose rows can move. *)
(*                                                                         *)
(* One owner table, one of its list columns, its target table and that     *)
(* table's indirection table are modelled.  An add leaves the target table *)
(* in the "adding a row" state until the row is committed.                 *)
(***************************************************************************)
EXTENDS TableSearch, SequencesExt

CONSTANTS
    MaxOwners,      \* bound on the rows of the owner table
    MaxMembers,     \* bound on the rows of the target table
    SortValues      \* values of the target table's sort column (Param.Sequence)

ASSUME SizeAssumption == MaxOwners \in Nat \ {0} /\ MaxMembers \in Nat
ASSUME SortAssumption == SortValues \subseteq Nat /\ 0 \in SortValues

VARIABLES
    list,           \* the list column, one value per owner row; 0 is null
    member,         \* the target table: the sort column of each row
    ptr,            \* the indirection table: the member each row stands for
    present,        \* the target table exists in the image (its cxt is set)
    indirect,       \* the list column points into the indirection table
    addingOwner,    \* is_adding_new_row of the owner table
    addingMember    \* is_adding_new_row of the target table

vars == <<list, member, ptr, present, indirect, addingOwner, addingMember>>
tables == <<list, member, ptr, present, indirect>>
----------------------------------------------------------------------------
(* Reading lists.                                                           *)

(* The table the list column points into, and the row after its last one.   *)
TargetRows == IF indirect THEN Len(ptr) ELSE Len(member)
EndRow == TargetRows + 1

(* The next owner whose list column is not null says where a list ends.     *)
NextStart(o) ==
    LET later == {p \in o + 1 .. Len(list) : list[p] # 0}
    IN  IF later = {} THEN EndRow
        ELSE list[Min(later)]

(* The count of md_get_column_value_as_range.  The code computes it as a    *)
(* uint32_t; a list that ends before it starts is left negative here.  (An  *)
(* assert of write.c:656 stops a debug build on an add to such a list; the  *)
(* model is the release build.)                                             *)
RangeCount(o) ==
    IF list[o] \in {0, EndRow} THEN 0 ELSE NextStart(o) - list[o]

md_resolve_indirect_cursor(r) ==
    IF ~indirect THEN r
    ELSE IF r = EndRow THEN Len(member) + 1 ELSE ptr[r]

(* What a caller sees that walks the list of o: the members in order.  A    *)
(* count below zero is more than four billion unsigned, and the walk goes   *)
(* on until the cursor cannot move past the last row.                       *)
ListOf(o) ==
    LET count == IF RangeCount(o) < 0 THEN EndRow - list[o] ELSE RangeCount(o)
    IN  [k \in 1 .. count |-> md_resolve_indirect_cursor(list[o] + k - 1)]

(* Mutant: after a hit, the run of equal list columns is not skipped.       *)
find_range_element_first(m) ==
    LET r   == IF indirect THEN md_lsearch(m, ptr, 1) ELSE m
        hit == mdtable_bsearch_closest(r, list)
    IN  IF hit.res < 0 THEN hit.row - 1 ELSE hit.row

(* The owner md_find_token_of_range_element reports for member m: binary    *)
(* search in the list column, and the last of a run of equal values.        *)
find_range_element(m) ==
    LET r   == IF indirect THEN md_lsearch(m, ptr, 1) ELSE m
        hit == mdtable_bsearch_closest(r, list)
    IN  IF hit.res < 0 THEN hit.row - 1
        ELSE IF hit.res > 0 THEN hit.row
        ELSE CHOOSE o \in hit.row .. Len(list) :
                /\ \A p \in hit.row .. o : list[p] = r
                /\ o < Len(list) => list[o + 1] # r
----------------------------------------------------------------------------
(* Adding members.                                                          *)

(* Mutant: a reference to the insertion point itself stays behind.          *)
update_shifted_past(r) ==
    [o \in 1 .. Len(list) |-> IF list[o] > r THEN list[o] + 1 ELSE list[o]]

(* Inserting a row at r moves every reference to r and beyond by one: also  *)
(* those to the end of the table.                                           *)
update_shifted_row_references(r) ==
    [o \in 1 .. Len(list) |-> IF list[o] >= r THEN list[o] + 1 ELSE list[o]]

(* Mutants: the sort column is left unset; the row goes in front of all.    *)
append_member_unset(v) ==
    /\ Len(member) < MaxMembers
    /\ member' = Append(member, MaxMembers + Max(SortValues))
    /\ addingMember' = TRUE

append_member_in_front(v) ==
    /\ Len(member) < MaxMembers
    /\ member' = <<v>> \o member
    /\ addingMember' = TRUE

(* append_row on the target table; member rows that are owners themselves   *)
(* (methods) get their own lists, which are not this column's.              *)
append_member(v) ==
    /\ Len(member) < MaxMembers
    /\ member' = Append(member, v)
    /\ addingMember' = TRUE

(* Mutant: the empty owners before o keep their start.                      *)
SameStart_alone(col, o) == {o}

(* The owners up to o whose columns, read backwards, all equal that of o.   *)
SameStart(col, o) == {p \in 1 .. o : \A q \in p .. o : col[q] = col[o]}

(* No indirection, and the new row goes at the end of the target table: it  *)
(* is simply appended.  An owner that was empty starts at the new row, and  *)
(* so do the empty owners before it.                                        *)
append_to_list(o, v) ==
    LET new     == Len(member) + 1
        shifted == update_shifted_row_references(new)
    IN  /\ append_member(v)
        /\ list' = IF RangeCount(o) # 0 THEN shifted
                   ELSE [p \in 1 .. Len(list) |->
                            IF p \in SameStart(shifted, o) THEN new ELSE shifted[p]]
        /\ UNCHANGED <<ptr, indirect>>

(* With the indirection table `rows', the new row is appended to the target *)
(* table and its stand-in is inserted before row r of the indirection.      *)
insert_indirect(o, r, rows, v) ==
    LET shifted == update_shifted_row_references(r)
    IN  /\ append_member(v)
        /\ ptr' = InsertAt(rows, r, Len(member) + 1)
        /\ list' = IF RangeCount(o) = 0 \/ list[o] = r
                   THEN [shifted EXCEPT ![o] = r] ELSE shifted
        /\ indirect' = TRUE

(* Mutant: the loop that fills it stops one row early.                      *)
create_and_fill_short == [i \in 1 .. Len(member) - 1 |-> i]

(* The indirection table as it is created: row i stands for member i.       *)
create_and_fill_indirect_table == [i \in 1 .. Len(member) |-> i]

(* After creating the indirection table the code resumes at the first row   *)
(* of the list, whatever row it was asked to insert before (write.c:746).   *)
add_new_row_to_list(o, r, v) ==
    IF indirect THEN insert_indirect(o, r, ptr, v)
    ELSE IF r = EndRow THEN append_to_list(o, v)
    ELSE insert_indirect(o, list[o], create_and_fill_indirect_table, v)

(* Both exported operations first allocate a missing target table, and give *)
(* up on a null list column when the table is there already: the null       *)
(* cursor cannot be moved.                                                  *)
RangeStart(o) == IF present THEN list[o] ELSE 1
RangeEnd(o) == RangeStart(o) + RangeCount(o)
CanReadList(o) == present => list[o] # 0

(* Mutant: the new row goes before the last one that is not above it.       *)
SortedPosition_before(o, v) ==
    LET notAbove == {r \in RangeStart(o) .. RangeEnd(o) - 1 :
                        member[md_resolve_indirect_cursor(r)] <= v}
    IN  IF notAbove = {} THEN RangeStart(o) ELSE Max(notAbove)

(* The first row to insert before so that the sort column stays ascending,  *)
(* as the backward scan of md_add_new_row_to_sorted_list finds it.          *)
SortedPosition(o, v) ==
    LET notAbove == {r \in RangeStart(o) .. RangeEnd(o) - 1 :
                        member[md_resolve_indirect_cursor(r)] <= v}
    IN  IF notAbove = {} THEN RangeStart(o)
        ELSE IF Max(notAbove) = 1 THEN RangeStart(o)
        ELSE Max(notAbove) + 1

md_add_new_row_to_list(o) ==
    /\ ~addingMember /\ CanReadList(o)
    /\ add_new_row_to_list(o, RangeEnd(o), 0)
    /\ present' = TRUE
    /\ UNCHANGED addingOwner

md_add_new_row_to_sorted_list(o, v) ==
    /\ ~addingMember /\ CanReadList(o)
    /\ add_new_row_to_list(o, SortedPosition(o, v), v)
    /\ present' = TRUE
    /\ UNCHANGED addingOwner

(* Mutant: references are shifted before the append is refused.             *)
refused_after_shifting(o) ==
    /\ addingMember /\ CanReadList(o)
    /\ ~indirect /\ RangeEnd(o) # EndRow
    /\ ptr' = create_and_fill_indirect_table
    /\ list' = update_shifted_row_references(RangeEnd(o))
    /\ indirect' = TRUE
    /\ UNCHANGED <<member, present, addingOwner, addingMember>>

(* While another member is being added no row can be appended and the call  *)
(* reports failure; an indirection table it has created by then stays.      *)
refused_add_to_list(o) ==
    /\ addingMember /\ CanReadList(o)
    /\ ~indirect
    /\ \E r \in {RangeEnd(o)} \cup {SortedPosition(o, v) : v \in SortValues} : r # EndRow
    /\ ptr' = create_and_fill_indirect_table
    /\ indirect' = TRUE
    /\ UNCHANGED <<list, member, present, addingOwner, addingMember>>

md_commit_member ==
    /\ addingMember
    /\ addingMember' = FALSE
    /\ UNCHANGED <<tables, addingOwner>>
----------------------------------------------------------------------------
(* Adding owners.                                                           *)

(* Mutants: the row after the end; the last row.                            *)
set_column_past_end_of_table == IF present THEN EndRow + 1 ELSE 0
set_column_as_last_row == IF present THEN TargetRows ELSE 0

(* An empty list: one past the last row of the target, or null when there   *)
(* is no target table yet.                                                  *)
set_column_as_end_of_table_cursor == IF present THEN EndRow ELSE 0

(* md_append_row, and md_insert_row_before/after with the last row.         *)
md_append_row ==
    /\ ~addingOwner /\ Len(list) < MaxOwners
    /\ list' = Append(list, set_column_as_end_of_table_cursor)
    /\ addingOwner' = TRUE
    /\ UNCHANGED <<member, ptr, present, indirect, addingMember>>

(* md_insert_row_before/after elsewhere: the new owner starts where the     *)
(* owner it is put before starts.                                           *)
md_insert_row_before(o) ==
    /\ ~addingOwner /\ Len(list) < MaxOwners
    /\ list' = InsertAt(list, o, list[o])
    /\ addingOwner' = TRUE
    /\ UNCHANGED <<member, ptr, present, indirect, addingMember>>

md_commit_owner ==
    /\ addingOwner
    /\ addingOwner' = FALSE
    /\ UNCHANGED <<tables, addingMember>>
----------------------------------------------------------------------------
(* A new handle: no owner, or the <Module> type, whose lists are null.      *)
NewImage ==
    /\ list \in {<< >>, <<0>>}
    /\ member = << >> /\ ptr = << >>
    /\ present = FALSE /\ indirect = FALSE

(* A well-formed image read from memory.  A table without rows is absent,   *)
(* and the list columns of its owners are 1, one past its end.              *)
LoadedImage ==
    /\ member \in BoundedSeq(SortValues, MaxMembers)
    /\ present = (member # << >>)
    /\ indirect \in {FALSE, present}
    /\ ptr \in IF indirect
               THEN {p \in [1 .. Len(member) -> 1 .. Len(member)] :
                        \A i, j \in 1 .. Len(member) : p[i] = p[j] => i = j}
               ELSE {<< >>}
    /\ list \in {l \in BoundedSeq(1 .. Len(member) + 1, MaxOwners) :
                    /\ l # << >> => l[1] = 1
                    /\ Ascending(l)
                    /\ l = << >> => member = << >>}

Init ==
    /\ NewImage \/ LoadedImage
    /\ addingOwner = FALSE /\ addingMember = FALSE

AddMember(o) ==
    \/ md_add_new_row_to_list(o)
    \/ \E v \in SortValues : md_add_new_row_to_sorted_list(o, v)

Next ==
    \/ \E o \in 1 .. Len(list) : AddMember(o)
    \/ \E o \in 1 .. Len(list) : refused_add_to_list(o)
    \/ \E o \in 1 .. Len(list) : md_insert_row_before(o)
    \/ md_append_row
    \/ md_commit_member
    \/ md_commit_owner

Spec == Init /\ [][Next]_vars
(***************************************************************************)
(* The full specification lets a caller add to any owner at any time.  The *)
(* lists survive only some of those calls, and the discipline below says   *)
(* which: the image has its target table from the start, and a member that *)
(* becomes the first of its list in the indirection table is added only    *)
(* when no earlier owner starts at the same row.                           *)
(***************************************************************************)
BecomesFirst(o, r) ==
    IF indirect THEN RangeCount(o) = 0 \/ r = list[o] ELSE r # EndRow

Disciplined(o, r) ==
    BecomesFirst(o, r) => \A p \in 1 .. o - 1 : list[p] # list[o]

DisciplinedAdd(o) ==
    \/ /\ Disciplined(o, RangeEnd(o))
       /\ md_add_new_row_to_list(o)
    \/ \E v \in SortValues : /\ Disciplined(o, SortedPosition(o, v))
                             /\ md_add_new_row_to_sorted_list(o, v)

DisciplinedNext ==
    \/ \E o \in 1 .. Len(list) : DisciplinedAdd(o)
    \/ \E o \in 1 .. Len(list) : refused_add_to_list(o)
    \/ \E o \in 1 .. Len(list) : md_insert_row_before(o)
    \/ md_append_row
    \/ md_commit_member
    \/ md_commit_owner

PresentInit == Init /\ LoadedImage /\ present

(* Any caller, on an image that has the target table.                       *)
PresentSpec == PresentInit /\ [][Next]_vars

(* A disciplined caller on such an image.                                   *)
DisciplinedSpec == PresentInit /\ [][DisciplinedNext]_vars
----------------------------------------------------------------------------
(* Properties of the full specification.                                    *)

TypeOK ==
    /\ list \in Seq(Nat) /\ Len(list) <= MaxOwners
    /\ member \in Seq(SortValues) /\ Len(member) <= MaxMembers
    /\ ptr \in Seq(1 .. Len(member))
    /\ present \in BOOLEAN /\ indirect \in BOOLEAN
    /\ addingOwner \in BOOLEAN /\ addingMember \in BOOLEAN

(* No list column ever points more than one row past the table it refers    *)
(* to, whatever is inserted where: create_cursor asserts it (query.c:5) and *)
(* reading such a column fails (query.c:167).                               *)
ListColumnsInTable == \A o \in 1 .. Len(list) : list[o] <= EndRow

(* The indirection table stands for every member exactly once, also while a *)
(* row is being added and after refused calls (editor.c:75, write.c:659).   *)
PtrIsPermutation ==
    /\ Len(ptr) = IF indirect THEN Len(member) ELSE 0
    /\ \A i, j \in 1 .. Len(ptr) : ptr[i] = ptr[j] => i = j

(* Lists grow "without moving tokens" (dnmd.h:531): no step changes or      *)
(* removes a row of the target table.                                       *)
MembersNeverMove == [][IsPrefix(member, member')]_vars

(* A call that adds no row changes what no list contains, although it may   *)
(* leave an indirection table behind (write.c:735-742).                     *)
NoRowNoChange ==
    [][Len(member') = Len(member) /\ Len(list') = Len(list)
          => \A o \in 1 .. Len(list) : ListOf(o)' = ListOf(o)]_vars
----------------------------------------------------------------------------
(* Properties of the disciplined specification.                             *)

(* The list column ascends from 1, so that every list ends where the next   *)
(* begins and no count is negative.                                         *)
ListsAscend ==
    /\ \A o \in 1 .. Len(list) : list[o] >= 1
    /\ list # << >> => list[1] = 1
    /\ Ascending(list)

(* Every member is in exactly one list, at one place.                       *)
OwnedOnce ==
    \A m \in 1 .. Len(member) :
        Cardinality({w \in (1 .. Len(list)) \X (1 .. Len(member)) :
                        /\ w[2] <= Len(ListOf(w[1]))
                        /\ ListOf(w[1])[w[2]] = m}) = 1

(* md_find_token_of_range_element finds the owner whose list has the member *)
(* ("See md_find_token_of_range_element() for mapping elements in the other *)
(* direction", dnmd.h:450).                                                 *)
OwnerFoundFromMember ==
    \A o \in 1 .. Len(list) : \A k \in 1 .. Len(ListOf(o)) :
        find_range_element(ListOf(o)[k]) = o

(* md_add_new_row_to_list puts the new row into the list it was added to    *)
(* and leaves the lists of all other owners alone (dnmd.h:531); where it    *)
(* does not create an indirection table, the row comes last (write.c:776).  *)
AddReachesItsOwner ==
    [][\A o \in 1 .. Len(list) :
          md_add_new_row_to_list(o) =>
             /\ \A p \in 1 .. Len(list) : p # o => ListOf(p)' = ListOf(p)
             /\ \E k \in 1 .. Len(ListOf(o)') : ListOf(o)'[k] = Len(member')
             /\ indirect \/ RangeEnd(o) = EndRow =>
                   ListOf(o)' = Append(ListOf(o), Len(member'))]_vars

SortedList(o) == LET l == ListOf(o) IN Ascending([k \in 1 .. Len(l) |-> member[l[k]]])

(* The two adds that misplace a member: the scan takes row 1, the last one  *)
(* that is not above v, for the sign that it found none (write.c:846); and  *)
(* the add that creates the indirection table goes to the start of the list *)
(* from wherever it was to go (write.c:746).                                *)
ScanStopsAtRow1(o, v) ==
    SortedPosition(o, v) = list[o] /\ \E k \in 1 .. Len(ListOf(o)) : member[ListOf(o)[k]] <= v
ResumesAtStart(o, v) == ~indirect /\ SortedPosition(o, v) \notin {list[o], EndRow}

(* Any other sorted insert keeps an ascending list ascending, also one that *)
(* creates the indirection table or changes a list from row 1 on            *)
(* (write.c:783-863).                                                       *)
SortedInsertKeepsOrder ==
    [][\A o \in 1 .. Len(list), v \in SortValues :
          /\ md_add_new_row_to_sorted_list(o, v)
          /\ SortedList(o)
          /\ ~ScanStopsAtRow1(o, v) /\ ~ResumesAtStart(o, v)
          => SortedList(o)']_vars

(* A disciplined caller gets what ListStore promises.                       *)
Store == INSTANCE ListStore
         WITH lists <- [o \in 1 .. Len(list) |-> ListOf(o)], rows <- Len(member)

ImplementsListStore == Store!Spec
----------------------------------------------------------------------------
(* What comments and documentation say of all callers.                      *)

(* "to ensure that the structure of the list is maintained" (dnmd.h:531):   *)
(* adding a member to one owner leaves the lists of all others alone.       *)
OtherListsKept ==
    [][\A o \in 1 .. Len(list) :
          md_add_new_row_to_list(o) =>
             \A p \in 1 .. Len(list) : p # o => ListOf(p)' = ListOf(p)]_vars

(* "We'll insert a row at the end of the range." (write.c:776)  False of    *)
(* the add that creates the indirection table.                              *)
AddedAtTheEnd ==
    [][\A o \in 1 .. Len(list) :
          md_add_new_row_to_list(o) =>
             ListOf(o)' = Append(ListOf(o), Len(member'))]_vars

(* "we need to initialize the list columns to the correct values that       *)
(* represent a zero-length list" (write.c:566): a list can be added to.     *)
(* False where the owner is older than the target table.                    *)
EveryListCanGrow == \A o \in 1 .. Len(list) : CanReadList(o)
============================================================================
