------------------------------ MODULE EmitRows ------------------------------
(***************************************************************************)
(* The calls of IMetaDataEmit that keep rows for a parent: the marshalling *)
(* of a field, the layout of a type, the permissions of a method, the      *)
(* methods of an event (src/interfaces/metadataemit.cpp).  Rows are        *)
(* appended and never deleted, since tokens have been handed out; a row    *)
(* that is given up gets a nil parent.  A call searches the table for the  *)
(* row of its parent by bisection while the table is flagged as sorted,    *)
(* and most calls keep a flag of the parent that says it has a row.        *)
(*                                                                         *)
(* Calls do not overlap, so each is one step; no table is adding a row     *)
(* between two of them.  Parents are rows that exist; a call that is to    *)
(* leave attributes alone passes UINT32_MAX, as other values overwrite the *)
(* flags kept here (SetFieldProps, SetMethodProps and others: a TODO).     *)
(***************************************************************************)
EXTENDS TableSearch, SequencesExt

CONSTANTS
    Count,          \* the number of rows of each kind of parent
    Data,           \* for each table what rows hold besides their parent
    MaxEvents,      \* bound on the events
    MaxRows,        \* bound on the rows added, over all tables
    MaxTables       \* bound on the tables in use: they meet in pairs only

(* Rows have 24 bits, and their numbers with the tags of a few kinds stay   *)
(* below Half.                                                              *)
ASSUME CountAssumption ==
    /\ DOMAIN Count = {"TypeDef", "Field", "MethodDef", "Param", "Property", "Assembly",
                       "GenericParam"}
    /\ \A kind \in DOMAIN Count : Count[kind] \in Nat /\ 3 * Count[kind] + 2 < Half
    /\ MaxEvents \in Nat /\ 3 * MaxEvents + 2 < Half
    /\ MaxRows \in Nat /\ MaxTables \in Nat

VARIABLES
    table,          \* for each table its rows and is_sorted
    flags,          \* the flags of each parent that has some
    events,         \* the number of events
    generics,       \* the number of generic parameters
    wide            \* plain references to types and fields take four bytes

vars == <<table, flags, events, generics, wide>>

(* The kinds of parents a table has, in the order of their tags (of custom  *)
(* attributes the first three of many).                                     *)
Kinds ==
    [FieldMarshal |-> <<"Field", "Param">>,
     Constant |-> <<"Field", "Param", "Property">>,
     DeclSecurity |-> <<"TypeDef", "MethodDef", "Assembly">>,
     ImplMap |-> <<"Field", "MethodDef">>,
     MethodSemantics |-> <<"Event", "Property">>,
     CustomAttribute |-> <<"MethodDef", "Field", "TypeDef">>,
     GenericParam |-> <<"TypeDef", "MethodDef">>,
     GenericParamConstraint |-> <<"GenericParam">>,
     FieldRva |-> <<"Field">>, FieldLayout |-> <<"Field">>,
     ClassLayout |-> <<"TypeDef">>, InterfaceImpl |-> <<"TypeDef">>,
     EventMap |-> <<"TypeDef">>, PropertyMap |-> <<"TypeDef">>]

Tables == DOMAIN Kinds
HasKeys(t) == t \notin {"EventMap", "PropertyMap"}

Tokens(kind) == {<<kind, r>> : r \in 1 .. Count[kind]}
ParentsOf(t) == UNION {Tokens(Kinds[t][i]) : i \in DOMAIN Kinds[t]}

(* The number a parent has in the column of its table.  A plain reference   *)
(* is the row; a coded one has the tag in its low bits (here as many        *)
(* numbers as there are kinds).                                             *)
Key(t, tk) ==
    tk[2] * Len(Kinds[t]) + (CHOOSE i \in DOMAIN Kinds[t] : Kinds[t][i] = tk[1]) - 1

(* The parent a number stands for: the opposite direction.                  *)
TokenOf(t, key) == <<Kinds[t][(key % Len(Kinds[t])) + 1], key \div Len(Kinds[t])>>
NilOf(t, key) == Key(t, <<TokenOf(t, key)[1], 0>>)
----------------------------------------------------------------------------
(* Tables.  An image is the function `table'; calls that use more than one  *)
(* table pass images on.                                                    *)

Parents(tb) == [r \in DOMAIN tb.row |-> tb.row[r].parent]

(* Only the number of a generic parameter is a second key.                  *)
RowsSorted(t, row, r, s) ==
    /\ row[r].parent <= row[s].parent
    /\ t = "GenericParam" => row[r].data <= row[s].data

(* The checks after the parent of row r was written: see SortedTable.       *)
StillSorted(t, row, r) ==
    /\ r < Len(row)
    /\ RowsSorted(t, row, r, r + 1)
    /\ r + 1 < Len(row) => RowsSorted(t, row, r + 1, r + 2)

(* What a token is searched as.  Where the column is a plain reference the  *)
(* key is the token itself: its low half is the row, but a column of four   *)
(* bytes is compared with all of it, which is larger than any row.          *)
Searched(t, tk) == IF wide /\ Len(Kinds[t]) = 1 THEN Half - 1 ELSE Key(t, tk)

(* Mutant: a table is bisected whether it is flagged or not.                *)
md_find_row_bisecting(image, t, key) ==
    IF image[t].row = << >> THEN 0 ELSE md_bsearch(key, Parents(image[t]), 1)

(* md_create_cursor and md_find_row_from_cursor.                            *)
md_find_row_from_cursor(image, t, key) ==
    LET tb == image[t]
    IN  IF tb.row = << >> THEN 0
        ELSE IF tb.sorted THEN md_bsearch(key, Parents(tb), 1)
        ELSE md_lsearch(key, Parents(tb), 1)

(* The rows md_find_range_from_cursor leaves the caller to look at: those   *)
(* next to a hit, or all if the table is not flagged.                       *)
md_find_range_from_cursor(image, t, key) ==
    LET col == Parents(image[t])
        hit == md_find_row_from_cursor(image, t, key)
    IN  IF ~image[t].sorted THEN DOMAIN col
        ELSE {r \in DOMAIN col : /\ hit # 0
                                 /\ \A i \in DOMAIN col : i \in r .. hit \/ i \in hit .. r
                                                          => col[i] = col[hit]}

(* md_set_column_value_as_token on the parent of row r, between calls that  *)
(* add rows.                                                                *)
SetParent(image, t, r, key) ==
    LET row == [image[t].row EXCEPT ![r].parent = key]
    IN  [image EXCEPT ![t] = [row |-> row, sorted |-> @.sorted /\ StillSorted(t, row, r)]]

SetData(image, t, r, data) == [image EXCEPT ![t].row[r].data = data]

(* md_commit_row_add: only the row before is compared.                      *)
md_commit_row_add(image, t, r) ==
    [image EXCEPT ![t].sorted =
        @ /\ (r > 1 => RowsSorted(t, image[t].row, r - 1, r))]

(* A row added with md_append_row and committed by ~md_added_row_t, with    *)
(* the columns that were set in between.                                    *)
AppendRow(image, t, tk, data) ==
    LET added == [image EXCEPT ![t].row = Append(@, [parent |-> Key(t, tk), data |-> data])]
    IN  md_commit_row_add(added, t, Len(added[t].row))

(* ~md_added_row_t of a guard that was never given a row: a cursor that     *)
(* happens to be on the stack is committed, or null is.  (Other values      *)
(* crash.)                                                                  *)
CommitGarbage(image) ==
    {image} \cup UNION {{md_commit_row_add(image, t, r) : r \in DOMAIN image[t].row} :
                           t \in {u \in Tables : HasKeys(u)}}

(* The images FindOrCreateParentedRow may leave.  Where the row is found,   *)
(* its guard is destroyed without a row.                                    *)
FindOrCreateParentedRow(image, t, tk, data) ==
    LET r == md_find_row_from_cursor(image, t, Searched(t, tk))
    IN  IF r = 0 THEN {AppendRow(image, t, tk, data)}
        ELSE CommitGarbage(SetData(image, t, r, data))

(* Rows lose their parent one after the other.                              *)
RemoveParent(image, t, r) == SetParent(image, t, r, NilOf(t, image[t].row[r].parent))

RemoveParents(image, t, rows) ==
    LET after[r \in 0 .. Len(image[t].row)] ==
            IF r = 0 THEN image
            ELSE IF r \in rows THEN RemoveParent(after[r - 1], t, r) ELSE after[r - 1]
    IN  after[Len(image[t].row)]
----------------------------------------------------------------------------
(* Marshalling, layout, RVAs, constants and P/Invoke.                       *)

SetFieldMarshal(tk, v) ==
    /\ table' \in FindOrCreateParentedRow(table, "FieldMarshal", tk, v)
    /\ flags' = [flags EXCEPT ![tk] = @ \cup {"HasFieldMarshal"}]
    /\ UNCHANGED <<events, generics, wide>>

(* Where the parent is among the columns of its table.                      *)
ParentColumn == [FieldMarshal |-> 0, ImplMap |-> 1, ClassLayout |-> 2]

(* Mutant: the flag is forgotten.                                           *)
DeleteParentedToken_keeping_flag(t, tk, flag) ==
    LET r == md_find_row_from_cursor(table, t, Searched(t, tk))
    IN  /\ r # 0
        /\ IF ParentColumn[t] = 0
           THEN table' = SetParent(table, t, r, Key(t, <<"Field", 0>>))
           ELSE UNCHANGED table
        /\ UNCHANGED <<flags, events, generics, wide>>

(* DeleteFieldMarshal, DeletePinvokeMap and DeleteClassLayout.  The nil     *)
(* parent is always written to the first column of the table; where that    *)
(* is a constant the call fails (and DeleteClassLayout never gets to the    *)
(* fields of the type).                                                     *)
DeleteParentedToken(t, tk, flag) ==
    LET r == md_find_row_from_cursor(table, t, Searched(t, tk))
    IN  /\ r # 0
        /\ IF ParentColumn[t] = 0
           THEN /\ table' = SetParent(table, t, r, Key(t, <<"Field", 0>>))
                /\ flags' = [flags EXCEPT ![tk] = @ \ flag]
           ELSE UNCHANGED <<table, flags>>
        /\ UNCHANGED <<events, generics, wide>>

DeleteFieldMarshal(tk) == DeleteParentedToken("FieldMarshal", tk, {"HasFieldMarshal"})
DeletePinvokeMap(tk) == DeleteParentedToken("ImplMap", tk, {"PinvokeImpl"})
DeleteClassLayout(td) == DeleteParentedToken("ClassLayout", td, {})

SetFieldRVA(fd, v) ==
    /\ table' \in FindOrCreateParentedRow(table, "FieldRva", fd, v)
    /\ flags' = [flags EXCEPT ![fd] = @ \cup {"HasFieldRVA"}]
    /\ UNCHANGED <<events, generics, wide>>

(* The same for any of some images.                                         *)
FindOrCreateAfter(images, t, tk, data) ==
    UNION {FindOrCreateParentedRow(i, t, tk, data) : i \in images}

(* Every one of some fields gets its offset.                                *)
LayFields(image, fields, v) ==
    LET laid[n \in 0 .. Len(fields)] ==
            IF n = 0 THEN {image}
            ELSE FindOrCreateAfter(laid[n - 1], "FieldLayout", fields[n], v)
    IN  laid[Len(fields)]

(* The offsets of some fields, then the layout of their type.               *)
SetClassLayout(td, fields, v) ==
    /\ table' \in FindOrCreateAfter(LayFields(table, fields, v), "ClassLayout", td, v)
    /\ UNCHANGED <<flags, events, generics, wide>>

(* SetFieldProps and SetParamProps with a constant.                         *)
SetConstant(tk, v) ==
    /\ table' \in FindOrCreateParentedRow(table, "Constant", tk, v)
    /\ UNCHANGED <<flags, events, generics, wide>>

DefinePinvokeMap(tk, v) ==
    /\ table' = AppendRow(table, "ImplMap", tk, v)
    /\ flags' = [flags EXCEPT ![tk] = @ \cup {"PinvokeImpl"}]
    /\ UNCHANGED <<events, generics, wide>>

(* SetPinvokeMap and SetPermissionSetProps: the first row that is found.    *)
SetFoundRow(t, tk, v) ==
    LET r == md_find_row_from_cursor(table, t, Searched(t, tk))
    IN  /\ r # 0
        /\ table' = SetData(table, t, r, v)
        /\ UNCHANGED <<flags, events, generics, wide>>
----------------------------------------------------------------------------
(* Permissions, and rows whose token is deleted.                            *)

DefinePermissionSet(tk, v) ==
    /\ table' = AppendRow(table, "DeclSecurity", tk, v)
    /\ flags' = IF tk[1] = "Assembly" THEN flags
                ELSE [flags EXCEPT ![tk] = @ \cup {"HasSecurity"}]
    /\ UNCHANGED <<events, generics, wide>>

NoPermissionLeft(image, tk) ==
    md_find_row_from_cursor(image, "DeclSecurity", Searched("DeclSecurity", tk)) = 0

(* DeleteToken of a permission: the flag goes with the last one of its      *)
(* parent.                                                                  *)
DeletePermission(r) ==
    LET key   == table["DeclSecurity"].row[r].parent
        tk    == TokenOf("DeclSecurity", key)
        image == SetParent(table, "DeclSecurity", r, NilOf("DeclSecurity", key))
    IN  /\ table' = image
        /\ flags' = IF tk[1] # "Assembly" /\ tk[2] # 0 /\ NoPermissionLeft(image, tk)
                    THEN [flags EXCEPT ![tk] = @ \ {"HasSecurity"}]
                    ELSE flags
        /\ UNCHANGED <<events, generics, wide>>

(* DeleteToken of a custom attribute, a generic parameter or a constraint.  *)
DeleteToken(t, r) ==
    /\ table' = SetParent(table, t, r, NilOf(t, table[t].row[r].parent))
    /\ UNCHANGED <<flags, events, generics, wide>>

DefineCustomAttribute(tk, v) ==
    /\ table' = AppendRow(table, "CustomAttribute", tk, v)
    /\ UNCHANGED <<flags, events, generics, wide>>
----------------------------------------------------------------------------
(* Events, properties and their methods.                                    *)

AddMethodSemantic(image, tk, semantic, m) ==
    AppendRow(image, "MethodSemantics", tk, <<semantic, m>>)

(* Mutant: only the first row of the range is looked at.                    *)
RemoveSemantics_first(image, tk, semantic) ==
    LET t    == "MethodSemantics"
        rows == md_find_range_from_cursor(image, t, Searched(t, tk))
        hits == {r \in rows : /\ r = Min(rows)
                              /\ image[t].row[r].parent = Key(t, tk)
                              /\ image[t].row[r].data[1] = semantic}
    IN  RemoveParents(image, t, hits)

(* The methods an event or property has for one semantic are given up.      *)
RemoveSemantics(image, tk, semantic) ==
    LET t    == "MethodSemantics"
        rows == md_find_range_from_cursor(image, t, Searched(t, tk))
        hits == {r \in rows : /\ image[t].row[r].parent = Key(t, tk)
                              /\ image[t].row[r].data[1] = semantic}
    IN  RemoveParents(image, t, hits)

(* The new event is a list member of the map's row: see MemberLists.        *)
DefineEvent(td, m) ==
    LET ev == <<"Event", events + 1>>
        Semantics(image) ==
            AddMethodSemantic(AddMethodSemantic(image, ev, "AddOn", m), ev, "RemoveOn", m)
    IN  /\ events < MaxEvents
        /\ events' = events + 1
        /\ table' \in {Semantics(i) : i \in FindOrCreateParentedRow(table, "EventMap", td, "None")}
        /\ UNCHANGED <<flags, generics, wide>>

SetEventProps(ev, semantic, m) ==
    /\ table' = AddMethodSemantic(RemoveSemantics(table, ev, semantic), ev, semantic, m)
    /\ UNCHANGED <<flags, events, generics, wide>>

(* The property is added through the column of its type, which is no list:  *)
(* the call fails when the map has got its row.                             *)
DefineProperty(td) ==
    /\ table' \in UNION {CommitGarbage(i) :
                            i \in FindOrCreateParentedRow(table, "PropertyMap", td, "None")}
    /\ UNCHANGED <<flags, events, generics, wide>>

(* With a constant or without one, with a getter or without one.  Removing  *)
(* the old getter fails when there are no rows to search.                   *)
SetPropertyProps(pr, constant, getter) ==
    LET image == IF getter = << >> THEN table
                 ELSE AddMethodSemantic(RemoveSemantics(table, pr, "Getter"),
                                        pr, "Getter", Head(getter))
    IN  /\ flags' = IF constant = << >> THEN flags
                    ELSE [flags EXCEPT ![pr] = {"HasDefault"}]
        /\ IF getter # << >> /\ table["MethodSemantics"].row = << >> THEN UNCHANGED table
           ELSE IF constant = << >> THEN table' = image
           ELSE table' \in FindOrCreateParentedRow(image, "Constant", pr, Head(constant))
        /\ UNCHANGED <<events, generics, wide>>
----------------------------------------------------------------------------
(* Implementations and generic parameters.                                  *)

(* A type gets a row for each of some interfaces.                           *)
Implement(image, td, interfaces) ==
    LET implements[n \in 0 .. Len(interfaces)] ==
            IF n = 0 THEN image
            ELSE AppendRow(implements[n - 1], "InterfaceImpl", td, interfaces[n])
    IN  implements[Len(interfaces)]

(* SetTypeDefProps with a list of interfaces.  The cursor stays on the      *)
(* first row of the old ones.  An empty list adds a row whose interface     *)
(* cannot be written.                                                       *)
SetTypeDefProps(td, interfaces) ==
    LET t    == "InterfaceImpl"
        key  == Key(t, td)
        rows == md_find_range_from_cursor(table, t, key)
        old  == {r \in rows : r = Min(rows) /\ table[t].row[r].parent = key}
        new  == IF interfaces = << >> THEN <<"None">> ELSE interfaces
    IN  /\ table' = Implement(RemoveParents(table, t, old), td, new)
        /\ UNCHANGED <<flags, events, generics, wide>>

(* Constraints: writing the first one is taken for a failure.               *)
FirstConstraint(image, gp, constraints) ==
    IF constraints = << >> THEN image
    ELSE AppendRow(image, "GenericParamConstraint", gp, Head(constraints))

DefineGenericParam(tk, number, constraints) ==
    LET gp == <<"GenericParam", generics + 1>>
    IN  /\ generics < Count["GenericParam"]
        /\ generics' = generics + 1
        /\ table' = AppendRow(FirstConstraint(table, gp, constraints), "GenericParam", tk, number)
        /\ UNCHANGED <<flags, events, wide>>

SetGenericParamProps(gp, constraints) ==
    LET t    == "GenericParamConstraint"
        rows == md_find_range_from_cursor(table, t, Searched(t, gp))
        old  == {r \in rows : table[t].row[r].parent = Key(t, gp)}
    IN  /\ table[t].row # << >>
        /\ table' = FirstConstraint(RemoveParents(table, t, old), gp, constraints)
        /\ UNCHANGED <<flags, events, generics, wide>>
----------------------------------------------------------------------------
Init ==
    /\ table = [t \in Tables |-> [row |-> << >>, sorted |-> HasKeys(t)]]
    /\ flags = [tk \in UNION {Tokens(kind) : kind \in {"Field", "Param", "TypeDef", "MethodDef",
                                                       "Property"}} |-> {}]
    /\ events = 0
    /\ generics = 0
    /\ wide \in BOOLEAN

Events == {<<"Event", e>> : e \in 1 .. events}
Generics == {<<"GenericParam", g>> : g \in 1 .. generics}
Methods == Tokens("MethodDef")
AtMostOne(S) == {<< >>} \cup {<<x>> : x \in S}

MarshalLayout ==
    \/ \E tk \in ParentsOf("FieldMarshal") :
          (\E v \in Data["FieldMarshal"] : SetFieldMarshal(tk, v)) \/ DeleteFieldMarshal(tk)
    \/ \E fd \in Tokens("Field"), v \in Data["FieldRva"] : SetFieldRVA(fd, v)
    \/ \E tk \in Tokens("Field") \cup Tokens("Param"), v \in Data["Constant"] : SetConstant(tk, v)
    \/ \E td \in Tokens("TypeDef") :
          \/ \E v \in Data["ClassLayout"], fields \in AtMostOne(Tokens("Field")) :
                SetClassLayout(td, fields, v)
          \/ DeleteClassLayout(td)
    \/ \E tk \in ParentsOf("ImplMap") :
          \/ \E v \in Data["ImplMap"] : DefinePinvokeMap(tk, v) \/ SetFoundRow("ImplMap", tk, v)
          \/ DeletePinvokeMap(tk)

PermissionsAttributes ==
    \/ \E tk \in ParentsOf("DeclSecurity"), v \in Data["DeclSecurity"] :
          DefinePermissionSet(tk, v) \/ SetFoundRow("DeclSecurity", tk, v)
    \/ \E r \in DOMAIN table["DeclSecurity"].row : DeletePermission(r)
    \/ \E tk \in ParentsOf("CustomAttribute"), v \in Data["CustomAttribute"] : DefineCustomAttribute(tk, v)
    \/ \E t \in {"CustomAttribute", "GenericParam", "GenericParamConstraint"} :
          \E r \in DOMAIN table[t].row : DeleteToken(t, r)

EventsTypes ==
    \/ \E td \in Tokens("TypeDef"), m \in Methods : DefineEvent(td, m)
    \/ \E ev \in Events, semantic \in {"AddOn", "RemoveOn"}, m \in Methods :
          SetEventProps(ev, semantic, m)
    \/ \E td \in Tokens("TypeDef") : DefineProperty(td)
    \/ \E pr \in Tokens("Property"), vs \in AtMostOne(Data["Constant"]), ms \in AtMostOne(Methods) :
          SetPropertyProps(pr, vs, ms)
    \/ \E td \in Tokens("TypeDef"), vs \in AtMostOne(Data["InterfaceImpl"]) :
          SetTypeDefProps(td, vs)
    \/ \E tk \in ParentsOf("GenericParam"), n \in Data["GenericParam"],
          vs \in AtMostOne(Data["GenericParamConstraint"]) :
          DefineGenericParam(tk, n, vs)
    \/ \E gp \in Generics, vs \in AtMostOne(Data["GenericParamConstraint"]) :
          SetGenericParamProps(gp, vs)

(* MaxRows and MaxTables bound what is explored.                            *)
Bounded ==
    LET used == {t \in Tables : table[t].row # << >>}
    IN  /\ Cardinality(used) <= MaxTables
        /\ FoldSet(LAMBDA t, n : n + Len(table[t].row), 0, used) <= MaxRows

Next == (MarshalLayout \/ PermissionsAttributes \/ EventsTypes) /\ Bounded'

Spec == Init /\ [][Next]_vars

(* A flagged table is in order.                                             *)
FlagsAreSound ==
    \A t \in Tables : table[t].sorted =>
        \A r \in 2 .. Len(table[t].row) : RowsSorted(t, table[t].row, r - 1, r)

(* A caller who gives a row up only where the table stays in order or loses *)
(* its flag, that is not in the middle of a flagged table, with tables      *)
(* small enough for references of two bytes.                                *)
DisciplinedInit == Init /\ ~wide
DisciplinedNext == Next /\ FlagsAreSound'
DisciplinedSpec == DisciplinedInit /\ [][DisciplinedNext]_vars
----------------------------------------------------------------------------
(* Properties.                                                              *)

HasRow(t, tk) == \E r \in DOMAIN table[t].row : table[t].row[r].parent = Key(t, tk)

FlagOf ==
    [FieldMarshal |-> "HasFieldMarshal", FieldRva |-> "HasFieldRVA",
     DeclSecurity |-> "HasSecurity", ImplMap |-> "PinvokeImpl"]

(* A field, method, type or parameter carries the flag of a table exactly   *)
(* when it has a row there, whatever was set, deleted and set again, and a  *)
(* property with a constant says so.  Readers skip the search when the flag *)
(* is not set.                                                              *)
FlagsMeanRows ==
    /\ \A t \in DOMAIN FlagOf : \A tk \in ParentsOf(t) \cap DOMAIN flags :
          FlagOf[t] \in flags[tk] <=> HasRow(t, tk)
    /\ \A pr \in Tokens("Property") :
          HasRow("Constant", pr) => "HasDefault" \in flags[pr]

(* Tables whose rows are looked up before they are created have at most one *)
(* row for a parent, though parents come in any order and lose their rows   *)
(* in between.                                                              *)
OneRowPerParent ==
    \A t \in {"FieldMarshal", "FieldRva", "FieldLayout", "ClassLayout", "Constant",
              "EventMap", "PropertyMap"} :
        \A r, s \in DOMAIN table[t].row :
            r < s /\ table[t].row[r].parent = table[t].row[s].parent
            => TokenOf(t, table[t].row[r].parent)[2] = 0

(* An event or property has one method of each kind: the one it was given   *)
(* last replaces those before.                                              *)
OneMethodPerSemantic ==
    LET row == table["MethodSemantics"].row
    IN  \A r, s \in DOMAIN row :
            r < s /\ row[r].parent = row[s].parent /\ row[r].data[1] = row[s].data[1]
            => TokenOf("MethodSemantics", row[r].parent)[2] = 0

(* A type or method with a permission is flagged: the flag is removed only  *)
(* when "we have no more permissions for this parent" (metadataemit.cpp,    *)
(* DeleteToken).  False: a permission given up in the middle of the table   *)
(* leaves it flagged as sorted, and the search for others misses them.      *)
PermissionsAreFlagged ==
    \A tk \in ParentsOf("DeclSecurity") \cap DOMAIN flags :
        HasRow("DeclSecurity", tk) => "HasSecurity" \in flags[tk]
============================================================================
