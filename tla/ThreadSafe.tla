------------------------------ MODULE ThreadSafe ------------------------------
(***************************************************************************)
(* Scopes (open images) behind ThreadSafeImportEmit: a reader/writer lock  *)
(* around every call, and reference counts that keep a scope alive.  A     *)
(* call consists of sections; a section takes the locks it names one after *)
(* the other, uses some resources, and releases the locks.  An image that  *)
(* is opened for reading only has no lock (dispenser.cpp).                 *)
(*                                                                         *)
(* What a call does with the tables is in the other modules; here it is    *)
(* one step in which each resource is read or written.                     *)
(***************************************************************************)
EXTENDS Naturals, Sequences

CONSTANTS
    Threads,
    Writable,       \* scopes with a lock
    ReadOnly,       \* scopes without one
    Enumerations,   \* HCORENUM handles
    EnumerationsOf, \* the handles each thread passes to calls
    Imports,        \* the arguments of the calls that import
    MaxRefs         \* bound on the references a thread holds to each scope

Scopes == Writable \union ReadOnly

ASSUME ScopesAreDistinct == Writable \intersect ReadOnly = {}

(* Threads may pass on the handle of an enumeration as they do references.  *)
ASSUME EnumerationsAreGiven ==
    /\ EnumerationsOf \in [Threads -> SUBSET Enumerations]
    /\ Enumerations \intersect Scopes = {}

(* What an import names: the module it imports from and its assembly, the   *)
(* module it imports into and the assembly of that one.  Only a scope with  *)
(* a lock can be written.                                                   *)
ASSUME ImportsAreGiven ==
    Imports \subseteq [sm : Scopes, sa : Scopes, tm : Writable, ta : Writable]

VARIABLES
    readers,        \* the threads that hold the read lock of each scope
    writer,         \* the threads (at most one) that hold its write lock
    call,           \* the sections each thread still has to go through
    taken,          \* how many locks of the current section it has taken
    inside,         \* is it using the resources of the section?
    refCount,       \* _refCount of each scope's controlling unknown
    refs,           \* the references each thread holds to each scope
    deleting,       \* scopes a thread has to delete: Release saw zero
    deletions       \* how often each scope was deleted

lockVars == <<readers, writer>>
callVars == <<call, taken, inside>>
refVars == <<refCount, refs, deleting, deletions>>
vars == <<lockVars, callVars, refVars>>
----------------------------------------------------------------------------
(* The calls, by what they take the lock for.                               *)

EnumerationCalls == {"CloseEnum", "CountEnum", "ResetEnum"}

TypeQueries ==
    {"EnumTypeDefs", "EnumInterfaceImpls", "EnumTypeRefs", "FindTypeDefByName", "GetScopeProps",
     "GetModuleFromScope", "GetTypeDefProps", "GetInterfaceImplProps", "GetTypeRefProps",
     "ResolveTypeRef"}

MemberEnumerations ==
    {"EnumMembers", "EnumMembersWithName", "EnumMethods", "EnumMethodsWithName", "EnumFields",
     "EnumFieldsWithName", "EnumParams", "EnumMemberRefs", "EnumMethodImpls", "EnumPermissionSets"}

MemberQueries ==
    {"FindMember", "FindMethod", "FindField", "FindMemberRef", "GetMethodProps",
     "GetMemberRefProps", "EnumProperties", "EnumEvents", "GetEventProps", "EnumMethodSemantics",
     "GetMethodSemantics", "GetClassLayout"}

ModuleQueries ==
    {"GetFieldMarshal", "GetRVA", "GetPermissionSetProps", "GetSigFromToken", "GetModuleRefProps",
     "EnumModuleRefs", "GetTypeSpecFromToken", "GetNameFromToken", "EnumUnresolvedMethods",
     "GetUserString", "GetPinvokeMap", "EnumSignatures", "EnumTypeSpecs", "EnumUserStrings",
     "GetParamForMethodIndex"}

PropertyQueries ==
    {"EnumCustomAttributes", "GetCustomAttributeProps", "FindTypeRef", "GetMemberProps",
     "GetFieldProps", "GetPropertyProps", "GetParamProps", "GetCustomAttributeByName",
     "IsValidToken", "GetNestedClassProps", "GetNativeCallConvFromSig", "IsGlobal"}

GenericQueries ==
    {"EnumGenericParams", "GetGenericParamProps", "GetMethodSpecProps",
     "EnumGenericParamConstraints", "GetGenericParamConstraintProps", "GetPEKind",
     "GetVersionString", "EnumMethodSpecs"}

AssemblyQueries ==
    {"GetAssemblyProps", "GetAssemblyRefProps", "GetFileProps", "GetExportedTypeProps",
     "GetManifestResourceProps", "EnumAssemblyRefs", "EnumFiles", "EnumExportedTypes",
     "EnumManifestResources", "GetAssemblyFromScope", "FindExportedTypeByName",
     "FindManifestResourceByName", "FindAssembliesByName"}

(* Calls that take the handle of an enumeration and move its position.      *)
EnumCalls ==
    EnumerationCalls \union MemberEnumerations \union
    {"EnumTypeDefs", "EnumInterfaceImpls", "EnumTypeRefs", "EnumProperties", "EnumEvents",
     "EnumMethodSemantics", "EnumModuleRefs", "EnumUnresolvedMethods", "EnumSignatures",
     "EnumTypeSpecs", "EnumUserStrings", "EnumCustomAttributes", "EnumGenericParams",
     "EnumGenericParamConstraints", "EnumMethodSpecs", "EnumAssemblyRefs", "EnumFiles",
     "EnumExportedTypes", "EnumManifestResources"}

Queries == EnumerationCalls \union TypeQueries \union MemberEnumerations \union MemberQueries
           \union ModuleQueries \union PropertyQueries \union GenericQueries \union AssemblyQueries

TypeEmits ==
    {"SetModuleProps", "Save", "SaveToStream", "GetSaveSize", "DefineTypeDef", "DefineNestedType",
     "SetHandler", "DefineMethod", "DefineMethodImpl", "DefineTypeRefByName", "DefineMemberRef"}

MemberEmits ==
    {"DefineEvent", "SetClassLayout", "DeleteClassLayout", "SetFieldMarshal", "DeleteFieldMarshal",
     "DefinePermissionSet", "SetRVA", "GetTokenFromSig", "DefineModuleRef", "SetParent",
     "GetTokenFromTypeSpec", "SaveToMemory", "DefineUserString", "DeleteToken", "SetMethodProps",
     "SetTypeDefProps"}

PropertyEmits ==
    {"SetEventProps", "SetPermissionSetProps", "DefinePinvokeMap", "SetPinvokeMap",
     "DeletePinvokeMap", "DefineCustomAttribute", "SetCustomAttributeValue", "DefineField",
     "DefineProperty", "DefineParam", "SetFieldProps", "SetPropertyProps"}

SaveEmits ==
    {"SetParamProps", "DefineSecurityAttributeSet", "ApplyEditAndContinue", "SetMethodImplFlags",
     "SetFieldRVA", "Merge", "MergeEnd", "DefineMethodSpec", "GetDeltaSaveSize", "SaveDelta",
     "SaveDeltaToStream", "SaveDeltaToMemory", "DefineGenericParam", "SetGenericParamProps",
     "ResetENCLog"}

AssemblyEmits ==
    {"DefineAssembly", "DefineAssemblyRef", "DefineFile", "DefineExportedType",
     "DefineManifestResource", "SetAssemblyProps", "SetAssemblyRefProps", "SetFileProps",
     "SetExportedTypeProps", "SetManifestResourceProps"}

Emits == TypeEmits \union MemberEmits \union PropertyEmits \union SaveEmits \union AssemblyEmits

ASSUME EmitsAreNoQueries == Emits \intersect Queries = {}
----------------------------------------------------------------------------
(* The sections of a call.                                                  *)

Lock(s, mode) == IF s \in ReadOnly THEN << >> ELSE <<<<s, mode>>>>

(* A section uses the scope it is called on and an enumeration, if it is    *)
(* given one, and reaches other images through IDNMDOwner, which has no     *)
(* lock.                                                                    *)
Section(s, mode, others) ==
    [locks |-> Lock(s, mode), uses |-> {<<s, mode>>} \union others, reaches |-> {}]

Query(s) == <<Section(s, "read", {})>>
EnumQuery(s, e) == <<Section(s, "read", {<<e, "write">>})>>
Emit(s) == <<Section(s, "write", {})>>

(* References are appended to both emit scopes, and both import scopes are  *)
(* read; the lock is that of the scope the call is made on.                 *)
ReachedByImport(i) == {<<i.sm, "read">>, <<i.sa, "read">>, <<i.ta, "write">>}

(* The emit scope is a parameter, and the scope itself is left alone.       *)
TranslateSigWithScope(s, i) ==
    [locks |-> Lock(s, "write"), uses |-> {},
     reaches |-> ReachedByImport(i) \union {<<i.tm, "write">>}]

DefineImportType(i) ==
    <<[Section(i.tm, "write", {}) EXCEPT !.reaches = ReachedByImport(i)]>>

(* Mutant: the locks are kept until the call returns.                       *)
DefineImportMember_under_lock(i) ==
    [n \in 1 .. 2 |-> [Section(i.tm, "write", {<<i.sm, "read">>}) EXCEPT
                           !.locks = Lock(i.tm, "write") \o Lock(i.sm, "read")]]

(* This call takes no lock of its own: the calls it makes do.  The first is *)
(* GetMethodProps, which fails for a field and, for a method, writes to the *)
(* class it was given no place for (metadataimport.cpp:1323); the calls     *)
(* that follow in the code are here as though it returned.                  *)
DefineImportMember(i) ==
    <<Section(i.sm, "read", {}), TranslateSigWithScope(i.tm, i), Section(i.tm, "read", {}),
      Section(i.sm, "read", {}), Section(i.tm, "write", {}), Section(i.tm, "write", {})>>

Begin(t, s, sections) ==
    /\ call[t] = << >> /\ deleting[t] = {}
    /\ refs[t][s] > 0
    /\ call' = [call EXCEPT ![t] = sections]
    /\ taken' = [taken EXCEPT ![t] = 0]
    /\ inside' = [inside EXCEPT ![t] = FALSE]
    /\ UNCHANGED <<lockVars, refVars>>

BeginQuery(t, s, op) == op \in Queries \ EnumCalls /\ Begin(t, s, Query(s))
BeginEnum(t, s, op, e) == op \in EnumCalls /\ Begin(t, s, EnumQuery(s, e))
BeginEmit(t, s, op) == op \in Emits /\ s \in Writable /\ Begin(t, s, Emit(s))
Refers(t, i) == \A s \in {i.sm, i.sa, i.tm, i.ta} : refs[t][s] > 0
BeginTranslate(t, s, i) ==
    s \in Writable /\ Refers(t, i) /\ Begin(t, s, <<TranslateSigWithScope(s, i)>>)
BeginImportType(t, i) == Refers(t, i) /\ Begin(t, i.tm, DefineImportType(i))
BeginImportMember(t, i) == Refers(t, i) /\ Begin(t, i.tm, DefineImportMember(i))
----------------------------------------------------------------------------
(* Locks.                                                                   *)

Current(t) == Head(call[t])
NextLock(t) == Current(t).locks[taken[t] + 1]
WaitsFor(t, s, mode) ==
    /\ call[t] # << >> /\ ~inside[t]
    /\ taken[t] < Len(Current(t).locks)
    /\ NextLock(t) = <<s, mode>>

Took(t) == taken' = [taken EXCEPT ![t] = @ + 1] /\ UNCHANGED <<call, inside, refVars>>

lock_shared(t, s) ==
    /\ WaitsFor(t, s, "read")
    /\ writer[s] = {}
    /\ readers' = [readers EXCEPT ![s] = @ \union {t}]
    /\ UNCHANGED writer
    /\ Took(t)

(* Mutant: a writer does not wait for readers.                              *)
lock_past_readers(t, s) ==
    /\ WaitsFor(t, s, "write")
    /\ writer[s] = {}
    /\ writer' = [writer EXCEPT ![s] = {t}]
    /\ UNCHANGED readers
    /\ Took(t)

lock(t, s) ==
    /\ WaitsFor(t, s, "write")
    /\ writer[s] = {} /\ readers[s] = {}
    /\ writer' = [writer EXCEPT ![s] = {t}]
    /\ UNCHANGED readers
    /\ Took(t)

Enter(t) ==
    /\ call[t] # << >> /\ ~inside[t]
    /\ taken[t] = Len(Current(t).locks)
    /\ inside' = [inside EXCEPT ![t] = TRUE]
    /\ UNCHANGED <<lockVars, call, taken, refVars>>

(* Mutant: a call that fails keeps its write lock.                          *)
unlock_readers_only(t) ==
    /\ inside[t]
    /\ readers' = [s \in Scopes |-> readers[s] \ {t}]
    /\ call' = [call EXCEPT ![t] = Tail(@)]
    /\ taken' = [taken EXCEPT ![t] = 0]
    /\ inside' = [inside EXCEPT ![t] = FALSE]
    /\ UNCHANGED <<writer, refVars>>

(* The guards release the locks, and the thread goes on or returns.         *)
unlock(t) ==
    /\ inside[t]
    /\ readers' = [s \in Scopes |-> readers[s] \ {t}]
    /\ writer' = [s \in Scopes |-> writer[s] \ {t}]
    /\ call' = [call EXCEPT ![t] = Tail(@)]
    /\ taken' = [taken EXCEPT ![t] = 0]
    /\ inside' = [inside EXCEPT ![t] = FALSE]
    /\ UNCHANGED refVars
----------------------------------------------------------------------------
(* Reference counts.                                                        *)

Free(t) == call[t] = << >> /\ deleting[t] = {}

(* A thread that holds a reference asks for another interface, for itself   *)
(* or for another thread.                                                   *)
QueryInterface(t, u, s) ==
    /\ Free(t)
    /\ refs[t][s] > 0 /\ refs[u][s] < MaxRefs[s]
    /\ refCount' = [refCount EXCEPT ![s] = @ + 1]
    /\ refs' = [refs EXCEPT ![u][s] = @ + 1]
    /\ UNCHANGED <<lockVars, callVars, deleting, deletions>>

(* Mutant: the last reference is recognised before it is given back.        *)
Release_seen_before(t, s) ==
    /\ Free(t)
    /\ refs[t][s] > 0
    /\ refCount' = [refCount EXCEPT ![s] = @ - 1]
    /\ refs' = [refs EXCEPT ![t][s] = @ - 1]
    /\ deleting' = [deleting EXCEPT ![t] = IF refCount[s] = 1 \/ refs[t][s] = 1 THEN {s} ELSE {}]
    /\ UNCHANGED <<lockVars, callVars, deletions>>

(* The count goes down and is read in one atomic step.                      *)
Release(t, s) ==
    /\ Free(t)
    /\ refs[t][s] > 0
    /\ refCount' = [refCount EXCEPT ![s] = @ - 1]
    /\ refs' = [refs EXCEPT ![t][s] = @ - 1]
    /\ deleting' = [deleting EXCEPT ![t] = IF refCount'[s] = 0 THEN {s} ELSE {}]
    /\ UNCHANGED <<lockVars, callVars, deletions>>

Delete(t, s) ==
    /\ s \in deleting[t]
    /\ deletions' = [deletions EXCEPT ![s] = @ + 1]
    /\ deleting' = [deleting EXCEPT ![t] = {}]
    /\ UNCHANGED <<lockVars, callVars, refCount, refs>>
----------------------------------------------------------------------------
(* One thread has opened the scopes.                                        *)
Init ==
    /\ readers = [s \in Scopes |-> {}] /\ writer = [s \in Scopes |-> {}]
    /\ call = [t \in Threads |-> << >>]
    /\ taken = [t \in Threads |-> 0] /\ inside = [t \in Threads |-> FALSE]
    /\ \E opener \in Threads :
          refs = [t \in Threads |-> [s \in Scopes |-> IF t = opener THEN 1 ELSE 0]]
    /\ refCount = [s \in Scopes |-> 1]
    /\ deleting = [t \in Threads |-> {}] /\ deletions = [s \in Scopes |-> 0]

BeginCall(t) ==
    \/ \E s \in Scopes :
          \/ \E op \in Queries \ EnumCalls : BeginQuery(t, s, op)
          \/ \E op \in EnumCalls, e \in EnumerationsOf[t] : BeginEnum(t, s, op, e)
          \/ \E op \in Emits : BeginEmit(t, s, op)
          \/ \E i \in Imports : BeginTranslate(t, s, i)
    \/ \E i \in Imports : BeginImportType(t, i) \/ BeginImportMember(t, i)

Proceed(t) ==
    \/ \E s \in Scopes : lock_shared(t, s) \/ lock(t, s) \/ Delete(t, s)
    \/ Enter(t) \/ unlock(t)

Next ==
    \E t \in Threads :
       \/ BeginCall(t) \/ Proceed(t)
       \/ \E s \in Scopes : Release(t, s) \/ \E u \in Threads : QueryInterface(t, u, s)

(* A thread that can go on does.  Of the threads that wait for a lock a     *)
(* reader gets its turn, as pthread_rwlock hands over to readers; a writer  *)
(* gets the lock if it stays free.                                          *)
Fairness ==
    \A t \in Threads :
       /\ WF_vars(Proceed(t))
       /\ SF_vars(\E s \in Scopes : lock_shared(t, s))

Spec == Init /\ [][Next]_vars /\ Fairness
----------------------------------------------------------------------------
(* Properties.                                                              *)

Touches(section) == section.uses \union section.reaches

(* What two threads are using at the same time, one of them to write it.    *)
Contested(t, u) ==
    IF ~inside[t] \/ ~inside[u] THEN {}
    ELSE {a[1] : a \in {x \in Touches(Current(t)) : \E y \in Touches(Current(u)) :
                              x[1] = y[1] /\ "write" \in {x[2], y[2]}}}

Locked(section) == {section.locks[j][1] : j \in DOMAIN section.locks}

ReachesUnlocked(t, s) ==
    s \notin Locked(Current(t)) /\ \E use \in Current(t).reaches : use[1] = s

(* Whatever calls threads make, what one of them writes while another one   *)
(* uses it is a handle both were given, or tables that one of them has come *)
(* to by an import, past their lock (the lock_guard of every call).         *)
NoConflict ==
    \A t, u \in Threads : t # u =>
       \A x \in Contested(t, u) :
          \/ x \in EnumerationsOf[t] \intersect EnumerationsOf[u]
          \/ x \in Writable /\ \E v \in {t, u} : ReachesUnlocked(v, x)

(* No property of the code: that an import never writes, or reads, tables   *)
(* another thread is using (threadsafe.hpp:1132).                           *)
ImportsDoNotConflict ==
    \A t, u \in Threads : t # u => Contested(t, u) \intersect Scopes = {}

(* A scope is deleted once, and only when no thread refers to it, so that   *)
(* no call ever runs on a deleted one (controllingiunknown.hpp:60).         *)
DeletedOnceUnused ==
    \A s \in Scopes :
       /\ deletions[s] <= 1
       /\ deletions[s] = 1 \/ (\E t \in Threads : s \in deleting[t]) =>
             \A t \in Threads : refs[t][s] = 0 /\ (inside[t] => ~\E m \in {"read", "write"} :
                                                       <<s, m>> \in Touches(Current(t)))

Reads(t) == call[t] # << >> /\ \A i \in DOMAIN call[t] : \A l \in DOMAIN call[t][i].locks :
                call[t][i].locks[l][2] = "read"

(* A call that reads returns however many writers come and go.              *)
QueriesReturn == \A t \in Threads : Reads(t) ~> call[t] = << >>

(* Unless threads keep calling forever, every call returns: nobody waits    *)
(* for a lock that is never released.                                       *)
CallsReturn ==
    \/ []<><<\E t \in Threads : BeginCall(t)>>_vars
    \/ <>[](\A t \in Threads : call[t] = << >>)
=============================================================================
