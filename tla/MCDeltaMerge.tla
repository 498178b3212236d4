----------------------------- MODULE MCDeltaMerge -----------------------------
(* Two generations of edits.  The log of a delta has them in any order,     *)
(* with the entry for a new member right after the one that creates it; its *)
(* map lists every token, the last of a table first, or is scattered, or is *)
(* missing, and then the rows of the delta are numbered as in the image.    *)
(* One delta is for another module.                                         *)
EXTENDS DeltaMerge

MCTables == {"TypeDef", "MethodDef", "Param", "TypeRef"}
MCCreateOps == [MethodCreate |-> [parent |-> "TypeDef", child |-> "MethodDef"],
                ParamCreate |-> [parent |-> "MethodDef", child |-> "Param"]]

Old(seq) == [at |-> 1, seq |-> seq]
MCBase == [version |-> 1, mvid |-> 1,
           rows |-> [TypeDef |-> <<Old(0), Old(0)>>, MethodDef |-> <<Old(0)>>,
                     Param |-> <<Old(1)>>, TypeRef |-> <<Old(0)>>],
           lists |-> [MethodCreate |-> <<<<1>>, << >>>>, ParamCreate |-> <<<<1>>>>]]

Edit(t, r, o, p, s) == [table |-> t, rid |-> r, op |-> o, parent |-> p, seq |-> s]
MCEditions == <<
    {Edit("MethodDef", 2, "MethodCreate", 1, 0),
     Edit("TypeRef", 1, "Default", 0, 7), Edit("TypeRef", 2, "Default", 0, 8)},
    {Edit("TypeDef", 1, "Default", 0, 0), Edit("TypeDef", 3, "Default", 0, 0),
     Edit("MethodDef", 3, "MethodCreate", 3, 0), Edit("Param", 2, "ParamCreate", 1, 2)}>>

(* The second parameter of a method comes before the first.                 *)
MCUnsortedEditions == <<
    {Edit("Param", 2, "ParamCreate", 1, 0), Edit("TypeRef", 1, "Default", 0, 0)}>>

Entries(e) ==
    LET write == [tk |-> <<e.table, e.rid>>, op |-> "Default"]
    IN  IF e.op = "Default" THEN <<write>>
        ELSE <<[tk |-> <<MCCreateOps[e.op].parent, e.parent>>, op |-> e.op], write>>

FullLogs(edits) ==
    {FlattenSeq([i \in DOMAIN s |-> Entries(s[i])]) : s \in SetToSeqs(edits)}

TableNumber == [TypeDef |-> 2, TypeRef |-> 1, MethodDef |-> 6, Param |-> 8]
TokenMap(edits) ==
    LET order == SetToSortSeq(edits, LAMBDA a, b :
                    \/ TableNumber[a.table] < TableNumber[b.table]
                    \/ a.table = b.table /\ a.rid > b.rid)
    IN  [i \in DOMAIN order |-> <<order[i].table, order[i].rid>>]
Scattered(map) == Append(Tail(map), Head(map))

MappedRows(edits) ==
    [t \in MCTables |->
        LET order == SetToSortSeq({e \in edits : e.table = t}, LAMBDA a, b : a.rid > b.rid)
        IN  [i \in DOMAIN order |-> [seq |-> order[i].seq]]]
DirectRows(edits) ==
    [t \in MCTables |->
        [r \in 1 .. Max({0} \union {e.rid : e \in {x \in edits : x.table = t}}) |->
            [seq |-> IF \E e \in edits : e.table = t /\ e.rid = r
                     THEN (CHOOSE e \in edits : e.table = t /\ e.rid = r).seq ELSE 9]]]

Delta(editions, g, m, log, map, rs) ==
    [version |-> 1, mvid |-> m, base |-> g - 1, id |-> g, at |-> g + 1,
     log |-> log, map |-> map, rows |-> rs]

DeltasOf(editions) ==
    UNION {LET edits == editions[g]
               map   == TokenMap(edits)
           IN  {Delta(editions, g, 1, log, map, MappedRows(edits)) : log \in FullLogs(edits)}
               \union {Delta(editions, g, 1, log, << >>, DirectRows(edits)) : log \in FullLogs(edits)}
               \union {Delta(editions, g, 1, Entries(CHOOSE e \in edits : TRUE), Scattered(map),
                             MappedRows(edits)),
                       Delta(editions, g, 2, Entries(CHOOSE e \in edits : TRUE), map,
                             MappedRows(edits))}
           : g \in DOMAIN editions}

MCDeltas == DeltasOf(MCEditions)
MCUnsortedDeltas == DeltasOf(MCUnsortedEditions)
=============================================================================
