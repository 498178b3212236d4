------------------------------ MODULE DeltaMerge ------------------------------
(***************************************************************************)
(* Applying edit-and-continue deltas to an image (md_apply_delta).  A      *)
(* delta brings heaps, rows, a log of tokens to edit or members to create, *)
(* and a map from those tokens to its rows.  It is applied entry by entry  *)
(* to the image itself: an entry that is refused, or memory that runs out, *)
(* leaves the image between two generations.                               *)
(*                                                                         *)
(* Member lists are used as ListStore has them.  A row keeps where its     *)
(* name lies in the heap of strings, and a sequence number.                *)
(***************************************************************************)
EXTENDS Naturals, FiniteSets, SequencesExt, FiniteSetsExt

CONSTANTS
    Tables,
    CreateOps,      \* operations that create members: [parent, child]
    Base,           \* the image the first delta is made for
    Deltas,         \* the deltas a caller may apply, in any order
    Editions        \* what the producer of generation 1, 2, ... edited:
                    \* sets of [table, rid, op, parent, seq]

Heaps == <<"string", "guid", "blob", "us">>
NoDelta == [id |-> 0]

VARIABLES
    rows,           \* the rows of each table: [at, seq]
    lists,          \* the members of each parent, for each of CreateOps
    heaps,          \* the generations whose parts each heap consists of
    encId,          \* EncId of the Module row, a generation
    delta,          \* the delta being applied
    pos,            \* the log entry to process next
    lastOp,         \* last_op of process_log
    status          \* "ready", "merging", "partial" after a failure,
                    \* "undefined" after undefined behaviour

image == <<rows, lists, heaps>>
vars == <<rows, lists, heaps, encId, delta, pos, lastOp, status>>

Has(t, rid) == rid \in 1 .. Len(rows[t])
----------------------------------------------------------------------------
(* The map: the entries for each table have to be adjacent.                 *)

Group(map, t) == {i \in DOMAIN map : map[i][1] = t}

initialize_token_map(map) ==
    \A t \in Tables : LET g == Group(map, t)
                      IN  g = {} \/ Max(g) - Min(g) + 1 = Cardinality(g)

(* The row of the delta that holds what the token is to become; 0 if there  *)
(* is none.                                                                 *)
resolve_token(d, t, rid) ==
    LET g == Group(d.map, t)
        found == {i \in g : d.map[i][2] = rid}
    IN  CASE g = {} -> rid
          [] g # {} /\ found # {} -> Min(found) - Min(g) + 1
          [] OTHER -> 0
----------------------------------------------------------------------------
(* Beginning to merge.                                                      *)

(* Mutant: a delta is applied to whichever generation there is.             *)
Fits_any_generation(d) == d.version = Base.version /\ d.mvid = Base.mvid

(* The versions and module ids agree, and the delta is for this generation. *)
Fits(d) ==
    /\ d.version = Base.version
    /\ d.mvid = Base.mvid
    /\ d.base = encId

(* The first n heaps, with the part of the delta at their end.              *)
AppendHeaps(d, n) ==
    [h \in DOMAIN heaps |->
        IF \E i \in 1 .. n : Heaps[i] = h THEN Append(heaps[h], d.id) ELSE heaps[h]]

(* Memory may run out before a heap is copied.  A map that is not grouped   *)
(* is found out after that.                                                 *)
merge_in_delta(d) ==
    /\ status # "merging" /\ status # "undefined"
    /\ Fits(d)
    /\ \E n \in 0 .. Len(Heaps) :
          /\ heaps' = AppendHeaps(d, n)
          /\ IF n = Len(Heaps) /\ initialize_token_map(d.map)
             THEN status' = "merging" /\ delta' = d
             ELSE status' = "partial" /\ delta' = d
    /\ pos' = 1 /\ lastOp' = "Default"
    /\ UNCHANGED <<rows, lists, encId>>

refused_delta(d) ==
    /\ status # "merging" /\ status # "undefined"
    /\ ~Fits(d)
    /\ UNCHANGED vars
----------------------------------------------------------------------------
(* Processing the log.                                                      *)

Entry == delta.log[pos]
Done == pos > Len(delta.log)
Ready == status = "merging" /\ ~Done

NextEntry == /\ pos' = pos + 1
             /\ lastOp' = Entry.op
             /\ UNCHANGED <<heaps, encId, delta, status>>

(* Mutant: a new row has no lists.                                          *)
ListsWithParent_none(t) == lists

(* The members that rows of table t have, none yet.                         *)
ListsWithParent(t) ==
    [op \in DOMAIN CreateOps |->
        IF CreateOps[op].parent = t THEN Append(lists[op], << >>) ELSE lists[op]]

(* A cleared row at the end of table t.                                     *)
NewRow == [at |-> 1, seq |-> 0]

(* The parent is there: the new member is the last of its list, and its     *)
(* columns follow with the next entry.                                      *)
add_list_target_row ==
    LET op    == CreateOps[Entry.op]
        owner == Entry.tk[2]
        child == op.child
    IN  /\ Entry.op \in DOMAIN CreateOps
        /\ Entry.tk[1] = op.parent
        /\ Has(op.parent, owner)
        /\ rows' = [rows EXCEPT ![child] = Append(@, NewRow)]
        /\ lists' = [ListsWithParent(child) EXCEPT
                        ![Entry.op][owner] = Append(@, Len(rows[child]) + 1)]
        /\ NextEntry

IsChild(t) == \E op \in DOMAIN CreateOps : CreateOps[op].child = t

(* The row that is written: one that exists, or the next one of a table     *)
(* whose rows are not members of lists.                                     *)
Editable(t, rid) == Has(t, rid) \/ (Len(rows[t]) = rid - 1 /\ ~IsChild(t))

Source(t, rid) == resolve_token(delta, t, rid)
HasSource(t, rid) == Source(t, rid) \in 1 .. Len(delta.rows[t])

(* Mutant: the name is looked for where the strings of the delta begin.     *)
Copied_from_delta(t, rid) == [at |-> 1, seq |-> delta.rows[t][Source(t, rid)].seq]

(* copy_cursor copies the reference into the heap as it is in the delta.    *)
Copied(t, rid) == [at |-> delta.at, seq |-> delta.rows[t][Source(t, rid)].seq]

InSequence(list, params) ==
    \A i, j \in DOMAIN list : i < j => params[list[i]].seq <= params[list[j]].seq

(* Does sort_list_by_column leave the list of the new parameter as it is?   *)
(* If not, its insertion sort runs off the end of its buffer (write.c:987). *)
NothingToSort(t, rid, after) ==
    lastOp = "ParamCreate" =>
        /\ t = CreateOps["ParamCreate"].child
        /\ \A p \in DOMAIN lists["ParamCreate"] :
              rid \in Range(lists["ParamCreate"][p]) => InSequence(lists["ParamCreate"][p], after[t])

EditRow ==
    LET t   == Entry.tk[1]
        rid == Entry.tk[2]
        new == ~Has(t, rid)
    IN  /\ Entry.op = "Default"
        /\ rid # 0
        /\ HasSource(t, rid) /\ Editable(t, rid)
        /\ rows' = [rows EXCEPT ![t] = IF new THEN Append(@, Copied(t, rid))
                                       ELSE [@ EXCEPT ![rid] = Copied(t, rid)]]
        /\ lists' = IF new THEN ListsWithParent(t) ELSE lists
        /\ IF NothingToSort(t, rid, rows') THEN NextEntry
           ELSE /\ status' = "undefined"
                /\ UNCHANGED <<heaps, encId, delta, pos, lastOp>>

process_entry == Ready /\ (add_list_target_row \/ EditRow)

(* Mutant: an entry that is refused is waited for.                          *)
Refused_unknown_rows ==
    Entry.op \notin DOMAIN CreateOps /\ ~HasSource(Entry.tk[1], Entry.tk[2])

Refused ==
    LET t == Entry.tk[1]
        rid == Entry.tk[2]
    IN  IF Entry.op \in DOMAIN CreateOps
        THEN t # CreateOps[Entry.op].parent \/ ~Has(t, rid)
        ELSE rid = 0 \/ ~HasSource(t, rid) \/ ~Editable(t, rid)

(* An entry that is refused, or memory that runs out: nothing is undone.    *)
Fail == /\ status' = "partial"
        /\ UNCHANGED <<rows, lists, heaps, encId, delta, pos, lastOp>>

refuse_entry == Ready /\ Refused /\ Fail
out_of_memory == Ready /\ Fail

(* The generation is recorded last.                                         *)
finish_merge ==
    /\ status = "merging" /\ Done
    /\ encId' = delta.id
    /\ status' = "ready" /\ delta' = NoDelta
    /\ UNCHANGED <<rows, lists, heaps, pos, lastOp>>
----------------------------------------------------------------------------
Init ==
    /\ rows = Base.rows /\ lists = Base.lists
    /\ heaps = [h \in Range(Heaps) |-> <<0>>]
    /\ encId = 0 /\ delta = NoDelta /\ pos = 1 /\ lastOp = "Default"
    /\ status = "ready"

MergeStep == process_entry \/ refuse_entry \/ finish_merge
LogStep == MergeStep \/ out_of_memory

(* Any caller: a delta that failed may be applied again.                    *)
Next == LogStep \/ \E d \in Deltas : merge_in_delta(d) \/ refused_delta(d)
Spec == Init /\ [][Next]_vars

(* A caller that gives an image up once a delta has failed.                 *)
CarefulNext ==
    \/ LogStep
    \/ status = "ready" /\ \E d \in Deltas : merge_in_delta(d) \/ refused_delta(d)

CarefulSpec == Init /\ [][CarefulNext]_vars /\ WF_vars(MergeStep)
----------------------------------------------------------------------------
(* Properties.                                                              *)

(* The image as a reader sees it: names instead of places in a heap.        *)
NameAt(at) == IF at \in DOMAIN heaps["string"] THEN heaps["string"][at] ELSE 0
Seen(row) == [name |-> NameAt(row.at), seq |-> row.seq]
View == [rows |-> [t \in Tables |-> [r \in DOMAIN rows[t] |-> Seen(rows[t][r])]],
         lists |-> lists]

Edited(g, t) == {e \in Editions[g] : e.table = t}
NewMembers(g, op, p) == {e.rid : e \in {x \in Editions[g] : x.op = op /\ x.parent = p}}

(* What the producer of generation g meant: the edited rows are those of g, *)
(* the others those of the generation before, and the new members are at    *)
(* the end of their lists.                                                  *)
Expected[g \in 0 .. Len(Editions)] ==
    IF g = 0 THEN [rows |-> [t \in Tables |->
                       [r \in DOMAIN Base.rows[t] |-> [name |-> 0, seq |-> Base.rows[t][r].seq]]],
                   lists |-> Base.lists]
    ELSE LET old == Expected[g - 1]
             last(t) == Max({Len(old.rows[t])} \union {e.rid : e \in Edited(g, t)})
         IN  [rows |-> [t \in Tables |-> [r \in 1 .. last(t) |->
                 IF \E e \in Edited(g, t) : e.rid = r
                 THEN [name |-> g, seq |-> (CHOOSE e \in Edited(g, t) : e.rid = r).seq]
                 ELSE old.rows[t][r]]],
              lists |-> [op \in DOMAIN CreateOps |-> [p \in 1 .. last(CreateOps[op].parent) |->
                 (IF p \in DOMAIN old.lists[op] THEN old.lists[op][p] ELSE << >>)
                 \o SetToSortSeq(NewMembers(g, op, p), <)]]]

TypeOK ==
    /\ \A t \in Tables : \A r \in DOMAIN rows[t] : rows[t][r].at \in Nat /\ rows[t][r].seq \in Nat
    /\ \A op \in DOMAIN CreateOps : Len(lists[op]) = Len(rows[CreateOps[op].parent])
    /\ status \in {"ready", "merging", "partial", "undefined"}
    /\ status # "ready" => delta \in Deltas /\ pos \in 1 .. Len(delta.log) + 1

(* Whatever the order of the entries, a log that is accepted makes of the   *)
(* image what its producer meant, and generations follow one another        *)
(* (deltas.c:353, "This ensures that we are applying deltas in order").     *)
AppliedAsEdited == status = "ready" => View = Expected[encId]

(* A delta that fails, and one that is being applied, has changed no row    *)
(* but those it edits, and lists have only grown.                           *)
OnlyEditedRowsChange ==
    status # "undefined" =>
        LET old == Expected[encId]
        IN  /\ \A t \in Tables : \A r \in DOMAIN old.rows[t] :
                  \/ View.rows[t][r] = old.rows[t][r]
                  \/ status # "ready" /\ [table |-> t, rid |-> r]
                        \in {[table |-> e.table, rid |-> e.rid] : e \in Editions[delta.id]}
            /\ \A op \in DOMAIN CreateOps : \A p \in DOMAIN old.lists[op] :
                  IsPrefix(old.lists[op][p], lists[op][p])

(* Even if memory never runs out, a delta is applied or fails: it is never  *)
(* left half applied and unanswered.                                        *)
MergeEnds == status = "merging" ~> status # "merging"
----------------------------------------------------------------------------
(* "we need to ensure that the ParamList is sorted by Sequence"             *)
(* (deltas.c:297), of any delta.  False: the sort runs out of its buffer    *)
(* when a parameter comes before one with a smaller sequence.               *)
ParamListsSorted ==
    status = "undefined" \/ status = "ready" =>
        \A p \in DOMAIN lists["ParamCreate"] :
            InSequence(lists["ParamCreate"][p], rows[CreateOps["ParamCreate"].child])
=============================================================================
