------------------------------ MODULE Importing ------------------------------
(***************************************************************************)
(* Importing references between images: a type, or the types of a          *)
(* signature, of a source module becomes rows of a target module, and of   *)
(* the target assembly when the target is one of its further modules.      *)
(* Each call runs under the lock of the target.  A row is committed when   *)
(* its handle goes out of scope, so a call that fails half way leaves the  *)
(* rows it has added, with the columns it has set, and the next call meets *)
(* them.                                                                   *)
(*                                                                         *)
(* A name stands for a name with its namespace or culture.  A key is none, *)
(* the whole key or its token; a token that the code reads without having  *)
(* set it is Unset, and whether it equals another is up to `lucky`, the    *)
(* rows for which it does.  Every image has a heap of blobs.               *)
(***************************************************************************)
EXTENDS Naturals, FiniteSets, SequencesExt, FiniteSetsExt

CONSTANTS
    Images,
    Mvid, ModuleName, TypeDefs,     \* of each image; TypeDefs: how many
    Assembly,       \* of each image: its Assembly row, NoAssembly in a netmodule
    Loaded,         \* of each image: its tables as loaded
    TypeSpecs,      \* of each image: the tokens of each of its TypeSpecs
    Signatures,     \* of each image: signatures read from it
    Sources,        \* [assembly, module] to import from
    Targets,        \* [assembly, module] to import into
    LooseNames,     \* mscorlib and microsoft.visualc, whatever their case
    BadKeys,        \* keys StrongNameTokenFromPublicKey refuses
    EcmaKey,
    MaxAdded        \* bound: rows added to a table

NoAssembly == [name |-> "no assembly"]
NoName == ""
NoKey == << >>
Unset == <<"unset">>
NoToken == <<"Module", 0>>

(* A scope of a type of image i.                                            *)
ScopeIn(t, i, scope) ==
    \/ scope \in {NoToken, <<"Module", 1>>}
    \/ \E table \in {"AssemblyRef", "ModuleRef", "TypeRef"} :
          \E r \in DOMAIN t[i][table] : scope = <<table, r>>

(* afPublicKey says whether the key, if there is one, is a whole one.       *)
WellKeyed(ref) ==
    /\ ref.full \in BOOLEAN
    /\ ref.key # NoKey => (ref.full <=> ref.key[1] = "key")

(* Types are nested in types with a smaller depth, not in a circle.         *)
Nested(refs) ==
    \E depth \in [DOMAIN refs -> 0 .. Len(refs)] :
        \A r \in DOMAIN refs : refs[r].scope[1] = "TypeRef" => depth[refs[r].scope[2]] < depth[r]

(* The images are well-formed: tables refer to rows that exist, and so do   *)
(* signatures, to which TypeSpecs of TypeSpecs do not belong.               *)
ASSUME LoadedAssumption ==
    \A i \in Images :
        /\ Loaded[i] = [table \in {"AssemblyRef", "ModuleRef", "TypeRef", "TypeSpec"} |-> Loaded[i][table]]
        /\ \A table \in DOMAIN Loaded[i] : Loaded[i][table] \in Seq(Range(Loaded[i][table]))
        /\ \A r \in DOMAIN Loaded[i].AssemblyRef : WellKeyed(Loaded[i].AssemblyRef[r])
        /\ \A r \in DOMAIN Loaded[i].TypeRef : /\ "of" \notin DOMAIN Loaded[i].TypeRef[r]
                                              /\ ScopeIn(Loaded, i, Loaded[i].TypeRef[r].scope)
        /\ Nested(Loaded[i].TypeRef)
ASSUME ImagesAssumption ==
    /\ Loaded = [i \in Images |-> Loaded[i]]
    /\ Sources \cup Targets \subseteq [assembly : Images, module : Images]
    /\ \A i \in Images :
          LET types == {"TypeDef"} \X (1 .. TypeDefs[i])
                       \cup {"TypeRef"} \X DOMAIN Loaded[i].TypeRef
              specs == {"TypeSpec"} \X DOMAIN TypeSpecs[i]
          IN  /\ \A r \in DOMAIN TypeSpecs[i] : TypeSpecs[i][r] \in Seq(types)
              /\ Signatures[i] \subseteq Seq(Seq(types \cup specs)) \ {<< >>}

VARIABLE tables     \* of each image: AssemblyRef, ModuleRef, TypeRef, TypeSpec

vars == <<tables>>
----------------------------------------------------------------------------
(* What the functions return: whether they succeed, the tables as they      *)
(* leave them, and a token.                                                 *)

Ok(t, token) == [ok |-> TRUE, t |-> t, token |-> token]
Fail(t) == [ok |-> FALSE, t |-> t, token |-> NoToken]
Then(r, Op(_, _)) == IF r.ok THEN Op(r.t, r.token) ELSE r

Add(t, i, table, row) == [t EXCEPT ![i][table] = Append(@, row)]
LastOf(t, i, table) == <<table, Len(t[i][table])>>
----------------------------------------------------------------------------
(* Does an AssemblyRef name the assembly wanted?                            *)

(* The token of the ECMA key is not filled in.                             *)
StrongNameTokenFromPublicKey(key) == IF key[2] = EcmaKey THEN Unset ELSE <<"token", key[2]>>

Equal(a, b, lucky) == IF Unset \in {a, b} THEN lucky ELSE a = b

VersionMatches(ref, id) ==
    ref.version = id.version /\ (id.name \in LooseNames \/ ref.build = id.build)

(* Is refPublicKeyToken, set only if the reference alone has a whole key,   *)
(* the token of the assembly?                                               *)
KeyMatches(ref, id, lucky) ==
    CASE id.full = ref.full -> IF Equal(ref.key, id.key, lucky) /\ lucky THEN "match" ELSE "skip"
      [] ref.full /\ ~id.full ->
            CASE ref.key[2] \in BadKeys -> "error"
              [] Equal(StrongNameTokenFromPublicKey(ref.key), id.key, lucky) -> "match"
              [] OTHER -> "skip"
      [] ~ref.full /\ id.full ->
            CASE id.key[2] \in BadKeys -> "error"
              [] id.key[2] \notin BadKeys /\ lucky -> "match"
              [] OTHER -> "skip"

(* Mutant: the name is left to the version and the key.                     *)
Compare_without_name(ref, id, lucky) ==
    CASE ~VersionMatches(ref, id) \/ (ref.key = NoKey) # (id.key = NoKey) -> "skip"
      [] OTHER -> IF ref.key = NoKey THEN "match" ELSE KeyMatches(ref, id, lucky)

Compare(ref, id, lucky) ==
    CASE \/ ~VersionMatches(ref, id) \/ ref.name # id.name
         \/ (ref.key = NoKey) # (id.key = NoKey) -> "skip"
      [] OTHER -> IF ref.key = NoKey THEN "match" ELSE KeyMatches(ref, id, lucky)

(* The row of the first match, 0 without one; the search also ends at a key *)
(* that has no token.  In a table without rows it fails: there is no cursor *)
(* to begin with.                                                           *)
FindAssemblyRef(refs, id, luckyRows) ==
    LET verdict(r) == Compare(refs[r], id, r \in luckyRows)
        stop == {r \in DOMAIN refs : verdict(r) # "skip"}
    IN  IF stop = {} THEN [found |-> 0, error |-> refs = << >>]
        ELSE [found |-> Min(stop), error |-> verdict(Min(stop)) = "error"]
----------------------------------------------------------------------------
(* References to assemblies.                                                *)

(* When there is no such row yet, one is appended and its four version      *)
(* columns are set; that the last of them could be set is taken for a       *)
(* failure, so name, culture, flags and key are never reached.              *)
HalfAssemblyRef(id) ==
    [version |-> id.version, build |-> id.build, name |-> NoName, key |-> NoKey, full |-> FALSE]

ReferenceToAssembly(t, i, id, lucky) ==
    LET search == FindAssemblyRef(t[i].AssemblyRef, id, {x[2] : x \in {y \in lucky : y[1] = i}})
    IN  CASE search.error -> Fail(t)
          [] ~search.error /\ search.found # 0 -> Ok(t, <<"AssemblyRef", search.found>>)
          [] OTHER -> Fail(Add(t, i, "AssemblyRef", HalfAssemblyRef(id)))

(* Mutants: the assembly of a netmodule is left out; the reference is added *)
(* to the assembly imported from.                                           *)
InModuleAndAssembly_module_only(t, c, id, lucky) == ReferenceToAssembly(t, c.tm, id, lucky)
InModuleAndAssembly_of_source(t, c, id, lucky) ==
    Then(ReferenceToAssembly(t, c.tm, id, lucky), LAMBDA t1, ref :
        IF c.tm = c.ta THEN Ok(t1, ref)
        ELSE Then(ReferenceToAssembly(t1, c.sa, id, lucky), LAMBDA t2, ignored : Ok(t2, ref)))

(* The token returned is the target module's.                               *)
InModuleAndAssembly(t, c, id, lucky) ==
    Then(ReferenceToAssembly(t, c.tm, id, lucky), LAMBDA t1, ref :
        IF c.tm = c.ta THEN Ok(t1, ref)
        ELSE Then(ReferenceToAssembly(t1, c.ta, id, lucky), LAMBDA t2, ignored : Ok(t2, ref)))

ImportReferenceToAssemblyRef(t, c, ref, lucky) ==
    InModuleAndAssembly(t, c, t[c.sm].AssemblyRef[ref], lucky)

(* An assembly is referred to by the token of its key.  One without a key   *)
(* has an empty blob, whose address is not null, and an empty key has no    *)
(* token.                                                                   *)
AssemblyIdentity(a) ==
    [version |-> a.version, build |-> a.build, name |-> a.name,
     key |-> StrongNameTokenFromPublicKey(a.key), full |-> FALSE]

ImportReferenceToAssembly(t, c, lucky) ==
    LET a == Assembly[c.sa]
    IN  IF a = NoAssembly \/ a.key = NoKey \/ a.key[2] \in BadKeys THEN Fail(t)
        ELSE InModuleAndAssembly(t, c, AssemblyIdentity(a), lucky)
----------------------------------------------------------------------------
(* References to modules.                                                   *)

FindModuleRef(t, i, name) ==
    SelectInSeq(t[i].ModuleRef, LAMBDA moduleRef : moduleRef = name)

AddModuleRef(t, i, name) ==
    LET added == Add(t, i, "ModuleRef", name) IN Ok(added, LastOf(added, i, "ModuleRef"))

FindOrAddModuleRef(t, i, name) ==
    LET found == FindModuleRef(t, i, name)
    IN  IF found # 0 THEN Ok(t, <<"ModuleRef", found>>) ELSE AddModuleRef(t, i, name)
----------------------------------------------------------------------------
(* Importing a TypeDef.                                                     *)

SameModule(c) == Mvid[c.tm] = Mvid[c.sm]
SameAssembly(c) == Mvid[c.ta] = Mvid[c.sa]

(* Images of the same module are taken to have the same rows.               *)
SameRow(t, c, token) ==
    LET count == IF token[1] = "TypeDef" THEN TypeDefs[c.tm] ELSE Len(t[c.tm][token[1]])
    IN  IF token[2] \in 1 .. count THEN Ok(t, token) ELSE Fail(t)

(* Once it has a scope, the function looks for the type tdImport in the     *)
(* source module: not a variable but a flag of corhdr.h, 0x1000, which as a *)
(* token is a row that the Module table has not.  Nothing comes after that. *)
ImportReferenceToTypeDef(t, c, token, alwaysImport, lucky) ==
    LET scope ==
            CASE SameAssembly(c) /\ SameModule(c) -> Ok(t, <<"Module", 1>>)
              [] SameAssembly(c) /\ ~SameModule(c) -> AddModuleRef(t, c.tm, ModuleName[c.sm])
              [] ~SameAssembly(c) /\ SameModule(c) -> Fail(t)
              [] OTHER -> ImportReferenceToAssembly(t, c, lucky)
    IN  IF SameAssembly(c) /\ SameModule(c) /\ ~alwaysImport
        THEN SameRow(t, c, token)
        ELSE Then(scope, LAMBDA t1, ignored : Fail(t1))
----------------------------------------------------------------------------
(* Importing a TypeRef.  The types that enclose it are on a stack, and so   *)
(* is the scope of the outermost: the scope is on top, and what the code    *)
(* takes for the outermost type is the scope.                               *)

OutermostScope(refs, row) ==
    LET scope[r \in DOMAIN refs] ==
            IF refs[r].scope[1] = "TypeRef" THEN scope[refs[r].scope[2]] ELSE refs[r].scope
    IN  scope[row]

(* The scope in another module of the same assembly.                        *)
ScopeInSameAssembly(t, c, scope, lucky) ==
    LET name == t[c.sm].ModuleRef[scope[2]]
    IN  CASE scope = NoToken -> Ok(t, NoToken)
          [] scope = <<"Module", 1>> -> FindOrAddModuleRef(t, c.tm, ModuleName[c.sm])
          [] scope[1] = "ModuleRef" ->
                IF name = ModuleName[c.tm] THEN Ok(t, <<"Module", 1>>)
                ELSE FindOrAddModuleRef(t, c.tm, name)
          [] scope[1] = "AssemblyRef" -> ImportReferenceToAssemblyRef(t, c, scope[2], lucky)

AssemblyRefPointsToAssembly(ref, a, lucky) ==
    CASE \/ ref.version # a.version \/ ref.build # a.build
         \/ ref.name # a.name \/ (ref.key = NoKey) # (a.key = NoKey) -> "no"
      [] ref.key = NoKey /\ a.key = NoKey -> "yes"
      [] ref.key # NoKey /\ ref.full -> IF ref.key = a.key THEN "yes" ELSE "no"
      [] OTHER -> CASE a.key[2] \in BadKeys -> "error"
                    [] Equal(StrongNameTokenFromPublicKey(a.key), ref.key, lucky) -> "yes"
                    [] OTHER -> "no"

(* The scope in another assembly.  Where a name is needed to find the type, *)
(* without a scope or in the target itself, the name is asked of the scope, *)
(* which has none.  The scope of a type of the source module itself is      *)
(* referred to and then given up: no case after the reference takes it.     *)
ScopeInOtherAssembly(t, c, scope, lucky) ==
    CASE scope = NoToken -> Fail(t)
      [] scope = <<"Module", 1>> ->
            Then(ImportReferenceToAssembly(t, c, lucky), LAMBDA t1, ignored : Fail(t1))
      [] scope[1] = "ModuleRef" -> ImportReferenceToAssembly(t, c, lucky)
      [] scope[1] = "AssemblyRef" ->
            LET ref == t[c.sm].AssemblyRef[scope[2]]
                own == Assembly[c.tm]
            IN  IF \/ own = NoAssembly
                   \/ AssemblyRefPointsToAssembly(ref, own, <<c.tm, 0>> \in lucky) # "no"
                THEN Fail(t)
                ELSE ImportReferenceToAssemblyRef(t, c, scope[2], lucky)

(* A row is added for each entry of the stack: for the scope first, whose   *)
(* second column has to be a name, and whose third has to be one as well.   *)
(* `of` is a history column: the scope the source gives the type.           *)
AddTypeRefs(t, c, top, scope) ==
    Fail(Add(t, c.tm, "TypeRef",
             [scope |-> scope,
              name |-> IF top = <<"Module", 1>> THEN ModuleName[c.sm] ELSE NoName,
              of |-> [from |-> c, scope |-> top]]))

(* A scope that is the target module itself is searched for the type by the *)
(* names on the stack: the first is that of the scope.                      *)
ImportReferenceToTypeRef(t, c, token, lucky) ==
    LET top == OutermostScope(t[c.sm].TypeRef, token[2])
        scope == IF SameAssembly(c) THEN ScopeInSameAssembly(t, c, top, lucky)
                 ELSE ScopeInOtherAssembly(t, c, top, lucky)
    IN  IF SameAssembly(c) /\ SameModule(c) THEN SameRow(t, c, token)
        ELSE Then(scope, LAMBDA t1, s :
                IF s = <<"Module", 1>> THEN Fail(t1) ELSE AddTypeRefs(t1, c, top, s))
----------------------------------------------------------------------------
(* Importing signatures.  A signature is the types of its elements: of what *)
(* it returns and of its parameters, up to the sentinel that the variable   *)
(* arguments follow.  An element is the tokens in it.                       *)

ImportTypeDefOrRef(t, c, token, lucky) ==
    CASE token[1] = "TypeDef" -> ImportReferenceToTypeDef(t, c, token, TRUE, lucky)
      [] token[1] = "TypeRef" -> ImportReferenceToTypeRef(t, c, token, lucky)

(* An element is walked to its end although a token could not be imported.  *)
AfterToken(r, one) ==
    [ok |-> r.ok /\ one.ok, t |-> one.t,
     token |-> IF one.ok THEN Append(r.token, one.token) ELSE r.token]

WalkSignatureElement(t, element, Import(_, _)) ==
    LET walk[n \in 0 .. Len(element)] ==
            IF n = 0 THEN Ok(t, << >>)
            ELSE AfterToken(walk[n - 1], Import(walk[n - 1].t, element[n]))
    IN  walk[Len(element)]

(* TypeSpecs in the signature of a TypeSpec are left out.                   *)
ImportTypeSpec(t, c, token, lucky) ==
    Then(WalkSignatureElement(t, TypeSpecs[c.sm][token[2]],
                              LAMBDA u, tok : ImportTypeDefOrRef(u, c, tok, lucky)),
         LAMBDA t1, blob : LET added == Add(t1, c.tm, "TypeSpec", blob)
                           IN  Ok(added, LastOf(added, c.tm, "TypeSpec")))

ImportReferenceToTypeDefOrRefOrSpec(t, c, token, lucky) ==
    IF token[1] = "TypeSpec" THEN ImportTypeSpec(t, c, token, lucky)
    ELSE ImportTypeDefOrRef(t, c, token, lucky)

(* hr has no value until a token fails: garbage says whether it reads as a  *)
(* failure.  An element that fails is the last one walked.                  *)
ImportSignatureIntoModule(t, c, signature, garbage, lucky) ==
    LET Element(u, element) ==
            WalkSignatureElement(u, element,
                LAMBDA v, tok : ImportReferenceToTypeDefOrRefOrSpec(v, c, tok, lucky))
        walk[n \in 0 .. Len(signature)] ==
            IF n = 0 THEN Ok(t, << >>)
            ELSE Then(walk[n - 1], LAMBDA u, ignored : Element(u, signature[n]))
    IN  IF garbage THEN Fail(walk[1].t) ELSE walk[Len(signature)]
----------------------------------------------------------------------------
(* The calls.                                                               *)

Room == \A i \in Images : \A table \in DOMAIN Loaded[i] :
            Len(tables[i][table]) < Len(Loaded[i][table]) + MaxAdded

Calls == {[sa |-> s.assembly, sm |-> s.module, ta |-> g.assembly, tm |-> g.module] :
            s \in Sources, g \in Targets}

(* The comparisons with an Unset token that come out equal: of rows with a  *)
(* key, and of the target assembly itself (row 0).                          *)
KeyedRows(c) ==
    UNION {{i} \X {r \in DOMAIN Loaded[i].AssemblyRef : Loaded[i].AssemblyRef[r].key # NoKey} :
              i \in {c.ta, c.tm}}
    \cup {x \in {<<c.tm, 0>>} : Assembly[c.tm] # NoAssembly /\ Assembly[c.tm].key # NoKey}

Lucky(c) == SUBSET KeyedRows(c)

DefineImportType(c) ==
    /\ Room
    /\ \E row \in 1 .. TypeDefs[c.sm], lucky \in Lucky(c) :
          tables' = ImportReferenceToTypeDef(tables, c, <<"TypeDef", row>>, FALSE, lucky).t

TranslateSigWithScope(c) ==
    /\ Room
    /\ \E signature \in Signatures[c.sm], garbage \in BOOLEAN, lucky \in Lucky(c) :
          tables' = ImportSignatureIntoModule(tables, c, signature, garbage, lucky).t

(* A program adds a TypeRef itself, to any scope it has a token of.         *)
DefineTypeRefByName(i) ==
    /\ Room
    /\ \E scope \in {NoToken, <<"Module", 1>>} \cup {<<"AssemblyRef", r>> : r \in DOMAIN tables[i].AssemblyRef} :
          tables' = Add(tables, i, "TypeRef", [scope |-> scope, name |-> "defined"])

Init == tables = Loaded

Next ==
    \/ \E c \in Calls : DefineImportType(c)
    \/ \E c \in Calls : TranslateSigWithScope(c)
    \/ \E g \in Targets : DefineTypeRefByName(g.module)

Spec == Init /\ [][Next]_vars
----------------------------------------------------------------------------
(* Properties.                                                              *)

Imported(i) == {r \in DOMAIN tables[i].TypeRef : "of" \in DOMAIN tables[i].TypeRef[r]}

(* The assembly that the scope of an imported TypeRef was to name.          *)
Wanted(of) ==
    IF of.scope[1] = "AssemblyRef" THEN tables[of.from.sm].AssemblyRef[of.scope[2]]
    ELSE AssemblyIdentity(Assembly[of.from.sa])

TokenOf(key) == IF key[1] = "key" THEN StrongNameTokenFromPublicKey(key) ELSE key

(* The reference may name another key only where the code compares a token  *)
(* it has not set: that of the ECMA key, or of a reference by token when    *)
(* the whole key is wanted.                                                 *)
SameKey(ref, id) ==
    \/ ref.key = NoKey /\ id.key = NoKey
    \/ ref.key # NoKey /\ id.key # NoKey
       /\ \/ TokenOf(ref.key) = TokenOf(id.key)
          \/ Unset \in {TokenOf(ref.key), TokenOf(id.key)}
          \/ id.full /\ ~ref.full

Names(ref, id) == ref.name = id.name /\ VersionMatches(ref, id) /\ SameKey(ref, id)

(* The scope an imported TypeRef is given names the assembly it has in the  *)
(* source, in name, version and key, however many half-filled references    *)
(* earlier failures have left in the table.  (FindAssemblyRef takes the     *)
(* first row that matches; importhelpers.cpp:382.)                          *)
ScopeNamesSameAssembly ==
    \A i \in Images : \A r \in Imported(i) :
        LET row == tables[i].TypeRef[r]
        IN  row.scope[1] = "AssemblyRef" => Names(tables[i].AssemblyRef[row.scope[2]], Wanted(row.of))

(* Whatever assembly an imported TypeRef of a netmodule refers to, the      *)
(* assembly the netmodule belongs to refers to as well: the loader resolves *)
(* references through the manifest (importhelpers.cpp:575).                 *)
ManifestKnowsReferences ==
    \A i \in Images : \A r \in Imported(i) :
        LET row == tables[i].TypeRef[r]
        IN  row.scope[1] = "AssemblyRef" =>
                \E k \in DOMAIN tables[row.of.from.ta].AssemblyRef :
                    Names(tables[row.of.from.ta].AssemblyRef[k], Wanted(row.of))

(* The lock of a call is that of the target module alone; beyond it only    *)
(* the assembly references of the target's assembly are written, whatever   *)
(* the references and signatures imported and wherever the import fails     *)
(* (importhelpers.cpp:580, 725).  When an assembly's types are imported     *)
(* into its own netmodule, that assembly is also the source.                *)
ImportsWriteTargets ==
    [][\E g \in Targets : \A i \in Images \ {g.module} : \A table \in DOMAIN Loaded[i] :
          \/ tables'[i][table] = tables[i][table]
          \/ i = g.assembly /\ table = "AssemblyRef"]_vars

(* What importhelpers.cpp:559 says: "Add a reference to sourceAssembly in   *)
(* the AssemblyRef tables in targetModule and targetAssembly."  Every       *)
(* reference there is names an assembly.  False: see HalfAssemblyRef.       *)
ReferencesNameAssemblies ==
    \A i \in Images : \A r \in DOMAIN tables[i].AssemblyRef : tables[i].AssemblyRef[r].name # NoName
=============================================================================
