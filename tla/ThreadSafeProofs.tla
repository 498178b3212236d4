-------------------------- MODULE ThreadSafeProofs --------------------------
(***************************************************************************)
(* For any number of threads, scopes and enumerations: threads conflict     *)
(* only on a handle they share or on tables one of them reaches by an       *)
(* import, and a scope is deleted once, when no thread can use it any more. *)
(***************************************************************************)
EXTENDS ThreadSafe, FiniteSetTheorems, TLAPS

Modes == {"read", "write"}
Uses == (Scopes \union Enumerations) \X Modes

(* What thread t may use in a section: a handle it was given, a scope that  *)
(* is never written, or one that the section locks, for writing if it       *)
(* writes.                                                                  *)
Permits(t, section, use) ==
    \/ use[1] \in EnumerationsOf[t]
    \/ use[1] \in ReadOnly /\ use[2] = "read"
    \/ /\ use[1] \in Writable
       /\ \E j \in 1 .. Len(section.locks) :
             /\ section.locks[j][1] = use[1]
             /\ use[2] = "write" => section.locks[j][2] = "write"

(* What an import reaches may be locked as well, or not at all.             *)
Reachable(t, section, use) ==
    Permits(t, section, use) \/ use[1] \in Writable \ Locked(section)

SectionShapes == [locks : Seq(Scopes \X Modes), uses : SUBSET Uses, reaches : SUBSET Uses]

Sections(t) ==
    {section \in SectionShapes :
        /\ \A use \in section.uses : Permits(t, section, use)
        /\ \A use \in section.reaches : Reachable(t, section, use)}

Holds(t, l) == IF l[2] = "read" THEN t \in readers[l[1]] ELSE t \in writer[l[1]]

LockTypes ==
    /\ readers \in [Scopes -> SUBSET Threads]
    /\ writer \in [Scopes -> SUBSET Threads]
    /\ DOMAIN call = Threads
    /\ \A t \in Threads : call[t] \in Seq(Sections(t))
    /\ taken \in [Threads -> Nat]
    /\ inside \in [Threads -> BOOLEAN]

Exclusion ==
    \A s \in Scopes :
       /\ \A t, u \in writer[s] : t = u
       /\ writer[s] # {} => readers[s] = {}

TakenAreHeld(t) ==
    /\ call[t] # << >> =>
          /\ taken[t] <= Len(Current(t).locks)
          /\ \A j \in 1 .. taken[t] : Holds(t, Current(t).locks[j])
    /\ inside[t] => call[t] # << >> /\ taken[t] = Len(Current(t).locks)

(* A lock taken in the current section is held, all of them are inside it,  *)
(* and a scope has one writer or any readers.                               *)
LInv ==
    /\ LockTypes
    /\ Exclusion
    /\ \A t \in Threads : TakenAreHeld(t)
----------------------------------------------------------------------------
(* Every call locks what it uses.                                           *)

LEMMA SectionPermits ==
    ASSUME NEW t \in Threads, NEW s \in Scopes, NEW mode \in Modes,
           mode = "write" => s \in Writable,
           NEW others \in SUBSET Uses,
           \A use \in others : use[1] \in EnumerationsOf[t]
    PROVE  Section(s, mode, others) \in Sections(t)
<1> DEFINE section == Section(s, mode, others)
<1>1. section \in SectionShapes /\ section.reaches = {}
  BY DEF SectionShapes, Section, Lock, Uses
<1>2. ASSUME NEW use \in section.uses PROVE Permits(t, section, use)
  <2>1. use = <<s, mode>> \/ use[1] \in EnumerationsOf[t]
    BY DEF Section
  <2>2. section.locks = Lock(s, mode)
    BY DEF Section
  <2>3. CASE s \in ReadOnly
    <3>1. mode = "read"
      BY <2>3, ScopesAreDistinct DEF Modes
    <3> QED BY <2>1, <2>3, <3>1 DEF Permits
  <2>4. CASE s \notin ReadOnly
    <3>1. s \in Writable /\ section.locks = <<<<s, mode>>>>
      BY <2>2, <2>4 DEF Lock, Scopes
    <3>2. 1 \in 1 .. Len(section.locks) /\ section.locks[1] = <<s, mode>>
      BY <3>1
    <3> QED BY <2>1, <3>1, <3>2 DEF Permits
  <2> QED BY <2>3, <2>4
<1> QED BY <1>1, <1>2 DEF Sections

(* An import reads any scopes and writes scopes that can be written.        *)
LEMMA ImportReaches ==
    ASSUME NEW i \in Imports
    PROVE  /\ i.tm \in Writable /\ i.ta \in Writable
           /\ ReachedByImport(i) \union {<<i.tm, "write">>} \in SUBSET Uses
           /\ \A use \in ReachedByImport(i) \union {<<i.tm, "write">>} :
                 use[1] \in Writable \/ (use[1] \in ReadOnly /\ use[2] = "read")
<1>1. i \in [sm : Scopes, sa : Scopes, tm : Writable, ta : Writable]
  BY ImportsAreGiven
<1> QED BY <1>1 DEF ReachedByImport, Uses, Modes, Scopes

(* A section that locks one scope for writing may reach what it likes.      *)
LEMMA ReachingIsPermitted ==
    ASSUME NEW t \in Threads, NEW s \in Writable, NEW uses \in SUBSET {<<s, "write">>},
           NEW reaches \in SUBSET Uses,
           \A use \in reaches : use[1] \in Writable \/ (use[1] \in ReadOnly /\ use[2] = "read"),
           NEW section, section = [locks |-> Lock(s, "write"), uses |-> uses, reaches |-> reaches]
    PROVE  section \in Sections(t)
<1>1. section.locks = <<<<s, "write">>>> /\ s \in Scopes
  BY ScopesAreDistinct DEF Lock, Scopes
<1>2. section \in SectionShapes
  BY <1>1 DEF SectionShapes, Uses, Modes, Lock
<1>3. 1 \in 1 .. Len(section.locks) /\ section.locks[1] = <<s, "write">> /\ Locked(section) = {s}
  BY <1>1 DEF Locked
<1>4. \A use \in section.uses : Permits(t, section, use)
  BY <1>3 DEF Permits
<1>5. ASSUME NEW use \in section.reaches PROVE Reachable(t, section, use)
  <2>1. CASE use[1] = s
    BY <1>3, <2>1 DEF Reachable, Permits
  <2>2. CASE use[1] # s
    BY <1>3, <2>2 DEF Reachable, Permits
  <2> QED BY <2>1, <2>2
<1> QED BY <1>2, <1>4, <1>5 DEF Sections

LEMMA ImportSections ==
    ASSUME NEW t \in Threads, NEW i \in Imports
    PROVE  /\ \A s \in Writable : TranslateSigWithScope(s, i) \in Sections(t)
           /\ DefineImportType(i) \in Seq(Sections(t))
           /\ DefineImportMember(i) \in Seq(Sections(t))
<1>1. i.tm \in Writable /\ i.tm \in Scopes /\ i.sm \in Scopes
  BY ImportReaches, ImportsAreGiven DEF Scopes
<1>2. ASSUME NEW s \in Writable PROVE TranslateSigWithScope(s, i) \in Sections(t)
  BY <1>2, ImportReaches, ReachingIsPermitted DEF TranslateSigWithScope
<1>3. DefineImportType(i) \in Seq(Sections(t))
  <2> DEFINE section == [locks |-> Lock(i.tm, "write"), uses |-> {<<i.tm, "write">>},
                         reaches |-> ReachedByImport(i)]
  <2>1. section \in Sections(t)
    BY <1>1, ImportReaches, ReachingIsPermitted
  <2>2. DefineImportType(i) = <<section>>
    BY DEF DefineImportType, Section
  <2> QED BY <2>1, <2>2
<1>4. Section(i.tm, "read", {}) \in Sections(t) /\ Section(i.sm, "read", {}) \in Sections(t)
  BY <1>1, SectionPermits DEF Modes
<1>5. Section(i.tm, "write", {}) \in Sections(t)
  BY <1>1, SectionPermits DEF Modes
<1>6. DefineImportMember(i) \in Seq(Sections(t))
  BY <1>1, <1>2, <1>4, <1>5 DEF DefineImportMember
<1> QED BY <1>2, <1>3, <1>6

LEMMA CallsLockWhatTheyUse ==
    ASSUME NEW t \in Threads, BeginCall(t)
    PROVE  \E s \in Scopes : \E sections \in Seq(Sections(t)) : Begin(t, s, sections)
<1>1. \/ \E s \in Scopes :
            \/ \E op \in Queries \ EnumCalls : BeginQuery(t, s, op)
            \/ \E op \in EnumCalls, e \in EnumerationsOf[t] : BeginEnum(t, s, op, e)
            \/ \E op \in Emits : BeginEmit(t, s, op)
            \/ \E i \in Imports : BeginTranslate(t, s, i)
      \/ \E i \in Imports : BeginImportType(t, i) \/ BeginImportMember(t, i)
  BY DEF BeginCall
<1>2. ASSUME NEW s \in Scopes, NEW op, BeginQuery(t, s, op)
      PROVE  \E sections \in Seq(Sections(t)) : Begin(t, s, sections)
  <2>1. Section(s, "read", {}) \in Sections(t)
    BY SectionPermits DEF Modes
  <2>2. Query(s) \in Seq(Sections(t))
    BY <2>1 DEF Query
  <2>3. Begin(t, s, Query(s))
    BY <1>2 DEF BeginQuery
  <2> QED BY <2>2, <2>3, Zenon
<1>3. ASSUME NEW s \in Scopes, NEW op, NEW e \in EnumerationsOf[t], BeginEnum(t, s, op, e)
      PROVE  \E sections \in Seq(Sections(t)) : Begin(t, s, sections)
  <2>1. {<<e, "write">>} \in SUBSET Uses
    BY <1>3, EnumerationsAreGiven DEF Uses, Modes
  <2>2. Section(s, "read", {<<e, "write">>}) \in Sections(t)
    BY <2>1, <1>3, SectionPermits DEF Modes
  <2>3. EnumQuery(s, e) \in Seq(Sections(t))
    BY <2>2 DEF EnumQuery
  <2>4. Begin(t, s, EnumQuery(s, e))
    BY <1>3 DEF BeginEnum
  <2> QED BY <2>3, <2>4, Zenon
<1>4. ASSUME NEW s \in Scopes, NEW op, BeginEmit(t, s, op)
      PROVE  \E sections \in Seq(Sections(t)) : Begin(t, s, sections)
  <2>1. s \in Writable /\ Begin(t, s, Emit(s))
    BY <1>4 DEF BeginEmit
  <2>2. Section(s, "write", {}) \in Sections(t)
    BY <2>1, SectionPermits DEF Modes
  <2>3. Emit(s) \in Seq(Sections(t))
    BY <2>2 DEF Emit
  <2> QED BY <2>1, <2>3, Zenon
<1>5. ASSUME NEW s \in Scopes, NEW i \in Imports, BeginTranslate(t, s, i)
      PROVE  \E sections \in Seq(Sections(t)) : Begin(t, s, sections)
  <2>1. s \in Writable /\ Begin(t, s, <<TranslateSigWithScope(s, i)>>)
    BY <1>5 DEF BeginTranslate
  <2>2. TranslateSigWithScope(s, i) \in Sections(t)
    BY <2>1, ImportSections
  <2>3. <<TranslateSigWithScope(s, i)>> \in Seq(Sections(t))
    BY <2>2
  <2> QED BY <2>1, <2>3, Zenon
<1>6. ASSUME NEW i \in Imports, BeginImportType(t, i) \/ BeginImportMember(t, i)
      PROVE  \E sections \in Seq(Sections(t)) : Begin(t, i.tm, sections)
  <2>1. DefineImportType(i) \in Seq(Sections(t)) /\ DefineImportMember(i) \in Seq(Sections(t))
    BY ImportSections
  <2>2. Begin(t, i.tm, DefineImportType(i)) \/ Begin(t, i.tm, DefineImportMember(i))
    BY <1>6 DEF BeginImportType, BeginImportMember
  <2> QED BY <2>1, <2>2, Zenon
<1>7. \A i \in Imports : i.tm \in Scopes
  BY ImportReaches DEF Scopes
<1> QED BY <1>1, <1>2, <1>3, <1>4, <1>5, <1>6, <1>7
----------------------------------------------------------------------------
LEMMA LockInit == Init => LInv
<1> SUFFICES ASSUME Init PROVE LInv
  OBVIOUS
<1> USE DEF Init
<1>1. LockTypes
  BY DEF LockTypes
<1>2. Exclusion
  BY DEF Exclusion
<1>3. \A t \in Threads : TakenAreHeld(t)
  BY DEF TakenAreHeld
<1> QED BY <1>1, <1>2, <1>3 DEF LInv

LEMMA CurrentIsSection ==
    ASSUME LInv, NEW t \in Threads, call[t] # << >>
    PROVE  Current(t) \in Sections(t) /\ Current(t).locks \in Seq(Scopes \X Modes)
<1>1. call[t] \in Seq(Sections(t))
  BY DEF LInv, LockTypes
<1>2. Current(t) \in Sections(t)
  BY <1>1 DEF Current
<1> QED BY <1>2 DEF Sections, SectionShapes

(* A thread that does nothing, and keeps its locks, keeps its part of the   *)
(* invariant.                                                               *)
LEMMA OthersHold ==
    ASSUME NEW u \in Threads, LInv, TakenAreHeld(u),
           call'[u] = call[u], taken'[u] = taken[u], inside'[u] = inside[u],
           \A s \in Scopes : (u \in readers[s] => u \in readers'[s]) /\ (u \in writer[s] => u \in writer'[s])
    PROVE  TakenAreHeld(u)'
<1>1. Current(u)' = Current(u)
  BY DEF Current
<1>2. ASSUME call[u] # << >>, NEW j \in 1 .. taken[u]
      PROVE  Holds(u, Current(u).locks[j])'
  <2>1. Current(u).locks \in Seq(Scopes \X Modes)
    BY <1>2, CurrentIsSection
  <2>2. taken[u] \in Nat /\ taken[u] <= Len(Current(u).locks)
    BY <1>2 DEF LInv, LockTypes, TakenAreHeld
  <2>3. Current(u).locks[j] \in Scopes \X Modes
    BY <2>1, <2>2
  <2>4. Holds(u, Current(u).locks[j])
    BY <1>2 DEF TakenAreHeld
  <2> QED BY <1>1, <2>3, <2>4 DEF Holds
<1> QED BY <1>1, <1>2 DEF TakenAreHeld

LEMMA BeginKeepsLocks ==
    ASSUME LInv, NEW t \in Threads, NEW s \in Scopes,
           NEW sections \in Seq(Sections(t)), Begin(t, s, sections)
    PROVE  LInv'
<1> USE DEF Begin
<1>1. LockTypes'
  BY DEF LInv, LockTypes, lockVars
<1>2. Exclusion'
  BY DEF LInv, Exclusion, lockVars
<1>3. ASSUME NEW u \in Threads PROVE TakenAreHeld(u)'
  <2>1. CASE u = t
    <3>1. call'[u] = sections /\ taken'[u] = 0 /\ inside'[u] = FALSE
      BY <2>1 DEF LInv, LockTypes
    <3>2. sections # << >> => Head(sections) \in Sections(t)
      OBVIOUS
    <3>3. sections # << >> => Len(Head(sections).locks) \in Nat
      BY <3>2 DEF Sections
    <3> QED BY <3>1, <3>3 DEF TakenAreHeld, Current
  <2>2. CASE u # t
    <3>1. call'[u] = call[u] /\ taken'[u] = taken[u] /\ inside'[u] = inside[u]
      BY <2>2 DEF LInv, LockTypes
    <3> QED BY <3>1, OthersHold DEF LInv, lockVars
  <2> QED BY <2>1, <2>2
<1> QED BY <1>1, <1>2, <1>3 DEF LInv

(* Taking the next lock of a section.                                       *)
LEMMA TakingKeepsLocks ==
    ASSUME LInv, NEW t \in Threads, NEW s \in Scopes, NEW mode \in Modes,
           WaitsFor(t, s, mode), Took(t), LockTypes', Exclusion',
           \A u \in Threads, z \in Scopes : (u \in readers[z] => u \in readers'[z])
                                           /\ (u \in writer[z] => u \in writer'[z]),
           IF mode = "read" THEN t \in readers'[s] ELSE t \in writer'[s]
    PROVE  LInv'
<1>1. ASSUME NEW u \in Threads PROVE TakenAreHeld(u)'
  <2>1. CASE u = t
    <3>1. call' = call /\ inside'[t] = FALSE /\ taken'[t] = taken[t] + 1
      BY DEF Took, WaitsFor, LInv, LockTypes
    <3>2. Current(t)' = Current(t)
      BY <3>1 DEF Current
    <3>3. taken[t] \in Nat /\ taken[t] < Len(Current(t).locks) /\ call[t] # << >>
      BY DEF WaitsFor, LInv, LockTypes
    <3>4. Current(t).locks \in Seq(Scopes \X Modes)
      BY <3>3, CurrentIsSection
    <3>5. ASSUME NEW j \in 1 .. taken[t] + 1 PROVE Holds(t, Current(t).locks[j])'
      <4>1. CASE j = taken[t] + 1
        <5>1. Current(t).locks[j] = <<s, mode>>
          BY <4>1 DEF WaitsFor, NextLock
        <5>2. Holds(t, <<s, mode>>)'
          BY DEF Holds
        <5> QED BY <3>2, <5>1, <5>2
      <4>2. CASE j \in 1 .. taken[t]
        <5>1. Holds(t, Current(t).locks[j])
          BY <3>3, <4>2 DEF LInv, TakenAreHeld
        <5>2. Current(t).locks[j] \in Scopes \X Modes
          BY <3>3, <3>4, <4>2
        <5> QED BY <3>2, <5>1, <5>2 DEF Holds
      <4> QED BY <3>3, <4>1, <4>2
    <3>6. taken[t] + 1 <= Len(Current(t).locks)
      BY <3>3, <3>4
    <3> QED BY <2>1, <3>1, <3>2, <3>5, <3>6 DEF TakenAreHeld
  <2>2. CASE u # t
    <3>1. call'[u] = call[u] /\ taken'[u] = taken[u] /\ inside'[u] = inside[u]
      BY <2>2 DEF Took, LInv, LockTypes
    <3> QED BY <3>1, OthersHold DEF LInv
  <2> QED BY <2>1, <2>2
<1> QED BY <1>1 DEF LInv

LEMMA SharedKeepsLocks ==
    ASSUME LInv, NEW t \in Threads, NEW s \in Scopes, lock_shared(t, s)
    PROVE  LInv'
<1> USE DEF lock_shared
<1>1. LockTypes'
  BY DEF Took, LInv, LockTypes
<1>2. Exclusion'
  BY DEF LInv, LockTypes, Exclusion
<1>3. \A u \in Threads, z \in Scopes :
         (u \in readers[z] => u \in readers'[z]) /\ (u \in writer[z] => u \in writer'[z])
  BY DEF LInv, LockTypes
<1>4. t \in readers'[s]
  BY DEF LInv, LockTypes
<1> QED BY <1>1, <1>2, <1>3, <1>4, TakingKeepsLocks DEF Modes

LEMMA ExclusiveKeepsLocks ==
    ASSUME LInv, NEW t \in Threads, NEW s \in Scopes, lock(t, s)
    PROVE  LInv'
<1> USE DEF lock
<1>1. LockTypes'
  BY DEF Took, LInv, LockTypes
<1>2. Exclusion'
  BY DEF LInv, LockTypes, Exclusion
<1>3. \A u \in Threads, z \in Scopes :
         (u \in readers[z] => u \in readers'[z]) /\ (u \in writer[z] => u \in writer'[z])
  BY DEF LInv, LockTypes
<1>4. t \in writer'[s]
  BY DEF LInv, LockTypes
<1> QED BY <1>1, <1>2, <1>3, <1>4, TakingKeepsLocks DEF Modes

LEMMA EnterKeepsLocks ==
    ASSUME LInv, NEW t \in Threads, Enter(t)
    PROVE  LInv'
<1> USE DEF Enter
<1>1. LockTypes'
  BY DEF LInv, LockTypes, lockVars
<1>2. Exclusion'
  BY DEF LInv, Exclusion, lockVars
<1>3. ASSUME NEW u \in Threads PROVE TakenAreHeld(u)'
  <2>1. CASE u = t
    <3>1. inside'[t] /\ call' = call /\ taken' = taken /\ lockVars' = lockVars
      BY DEF LInv, LockTypes
    <3> QED BY <2>1, <3>1 DEF LInv, TakenAreHeld, Current, Holds, lockVars
  <2>2. CASE u # t
    <3>1. call'[u] = call[u] /\ taken'[u] = taken[u] /\ inside'[u] = inside[u]
      BY <2>2 DEF LInv, LockTypes
    <3> QED BY <3>1, OthersHold DEF LInv, lockVars
  <2> QED BY <2>1, <2>2
<1> QED BY <1>1, <1>2, <1>3 DEF LInv

LEMMA UnlockKeepsLocks ==
    ASSUME LInv, NEW t \in Threads, unlock(t)
    PROVE  LInv'
<1> USE DEF unlock
<1>1. call[t] # << >> /\ call[t] \in Seq(Sections(t))
  BY DEF LInv, LockTypes, TakenAreHeld
<1>2. Tail(call[t]) \in Seq(Sections(t))
  BY <1>1
<1>3. LockTypes'
  BY <1>2 DEF LInv, LockTypes
<1>4. Exclusion'
  BY DEF LInv, LockTypes, Exclusion
<1>5. ASSUME NEW u \in Threads PROVE TakenAreHeld(u)'
  <2>1. CASE u = t
    <3>1. call'[t] = Tail(call[t]) /\ taken'[t] = 0 /\ inside'[t] = FALSE
      BY DEF LInv, LockTypes
    <3>2. Tail(call[t]) # << >> => Head(Tail(call[t])) \in Sections(t)
      BY <1>2
    <3>3. Tail(call[t]) # << >> => Len(Head(Tail(call[t])).locks) \in Nat
      BY <3>2 DEF Sections
    <3> QED BY <2>1, <3>1, <3>3 DEF TakenAreHeld, Current
  <2>2. CASE u # t
    <3>1. call'[u] = call[u] /\ taken'[u] = taken[u] /\ inside'[u] = inside[u]
      BY <2>2 DEF LInv, LockTypes
    <3>2. \A s \in Scopes : (u \in readers[s] => u \in readers'[s]) /\ (u \in writer[s] => u \in writer'[s])
      BY <2>2
    <3> QED BY <3>1, <3>2, OthersHold DEF LInv
  <2> QED BY <2>1, <2>2
<1> QED BY <1>3, <1>4, <1>5 DEF LInv

LEMMA UnusedKeepsLocks ==
    ASSUME LInv, UNCHANGED <<lockVars, callVars>>
    PROVE  LInv'
<1> USE DEF lockVars, callVars
<1>1. LockTypes' /\ Exclusion'
  BY DEF LInv, LockTypes, Exclusion
<1>2. \A u \in Threads : TakenAreHeld(u)'
  BY OthersHold DEF LInv
<1> QED BY <1>1, <1>2 DEF LInv

LEMMA StepKeepsLocks == LInv /\ [Next]_vars => LInv'
<1> SUFFICES ASSUME LInv, [Next]_vars PROVE LInv'
  OBVIOUS
<1>1. CASE UNCHANGED vars
  BY <1>1, UnusedKeepsLocks DEF vars
<1>2. CASE Next
  <2>1. PICK t \in Threads :
           \/ BeginCall(t) \/ Proceed(t)
           \/ \E s \in Scopes : Release(t, s) \/ \E u \in Threads : QueryInterface(t, u, s)
    BY <1>2 DEF Next
  <2>2. CASE BeginCall(t)
    BY <2>2, CallsLockWhatTheyUse, BeginKeepsLocks
  <2>3. ASSUME NEW s \in Scopes, lock_shared(t, s) PROVE LInv'
    BY <2>3, SharedKeepsLocks
  <2>4. ASSUME NEW s \in Scopes, lock(t, s) PROVE LInv'
    BY <2>4, ExclusiveKeepsLocks
  <2>5. ASSUME NEW s \in Scopes, Delete(t, s) PROVE LInv'
    BY <2>5, UnusedKeepsLocks DEF Delete
  <2>6. CASE Enter(t)
    BY <2>6, EnterKeepsLocks
  <2>7. CASE unlock(t)
    BY <2>7, UnlockKeepsLocks
  <2>8. ASSUME NEW s \in Scopes, Release(t, s) PROVE LInv'
    BY <2>8, UnusedKeepsLocks DEF Release
  <2>9. ASSUME NEW s \in Scopes, NEW u \in Threads, QueryInterface(t, u, s) PROVE LInv'
    BY <2>9, UnusedKeepsLocks DEF QueryInterface
  <2> QED BY <2>1, <2>2, <2>3, <2>4, <2>5, <2>6, <2>7, <2>8, <2>9 DEF Proceed
<1> QED BY <1>1, <1>2
----------------------------------------------------------------------------
(* Inside a section its locks are held, and so is that of every scope it    *)
(* uses.                                                                    *)
LEMMA InsideHoldsAll ==
    ASSUME LInv, NEW t \in Threads, inside[t], NEW use \in Current(t).uses \union Current(t).reaches
    PROVE  \/ use[1] \in EnumerationsOf[t]
           \/ use[1] \in ReadOnly /\ use[2] = "read"
           \/ use[1] \in Writable /\ (t \in writer[use[1]] \/ (t \in readers[use[1]] /\ use[2] # "write"))
           \/ use[1] \in Writable /\ ReachesUnlocked(t, use[1])
<1> DEFINE section == Current(t)
<1>1. call[t] # << >> /\ taken[t] = Len(section.locks)
  BY DEF LInv, TakenAreHeld
<1>2. section \in Sections(t)
  BY <1>1, CurrentIsSection
<1>3. section.locks \in Seq(Scopes \X Modes)
  BY <1>2 DEF Sections, SectionShapes
<1>4. \/ Permits(t, section, use)
      \/ use \in section.reaches /\ use[1] \in Writable /\ use[1] \notin Locked(section)
  BY <1>2 DEF Sections, Reachable
<1>5. ASSUME use[1] \in Writable, NEW j \in 1 .. Len(section.locks),
             section.locks[j][1] = use[1], use[2] = "write" => section.locks[j][2] = "write"
      PROVE  t \in writer[use[1]] \/ (t \in readers[use[1]] /\ use[2] # "write")
  <2>1. Holds(t, section.locks[j])
    BY <1>1 DEF LInv, TakenAreHeld
  <2>2. section.locks[j] \in Scopes \X Modes
    BY <1>3, <1>5
  <2> QED BY <1>5, <2>1, <2>2 DEF Holds, Modes
<1> QED BY <1>4, <1>5 DEF Permits, ReachesUnlocked

LEMMA LocksPreventConflict == LInv => NoConflict
<1> SUFFICES ASSUME LInv, NEW t \in Threads, NEW u \in Threads, t # u, inside[t], inside[u],
                    NEW a \in Touches(Current(t)), NEW b \in Touches(Current(u)),
                    a[1] = b[1], "write" \in {a[2], b[2]}
             PROVE  \/ a[1] \in EnumerationsOf[t] \intersect EnumerationsOf[u]
                    \/ a[1] \in Writable /\ \E v \in {t, u} : ReachesUnlocked(v, a[1])
  BY DEF NoConflict, Contested
<1> DEFINE x == a[1]
<1>1. \/ x \in EnumerationsOf[t]
      \/ x \in ReadOnly /\ a[2] = "read"
      \/ x \in Writable /\ (t \in writer[x] \/ (t \in readers[x] /\ a[2] # "write"))
      \/ x \in Writable /\ ReachesUnlocked(t, x)
  BY InsideHoldsAll DEF Touches
<1>2. \/ x \in EnumerationsOf[u]
      \/ x \in ReadOnly /\ b[2] = "read"
      \/ x \in Writable /\ (u \in writer[x] \/ (u \in readers[x] /\ b[2] # "write"))
      \/ x \in Writable /\ ReachesUnlocked(u, x)
  BY InsideHoldsAll DEF Touches
<1>3. x \in EnumerationsOf[t] \union EnumerationsOf[u] => x \notin Scopes
  BY EnumerationsAreGiven
<1>4. x \notin ReadOnly \intersect Writable
  BY ScopesAreDistinct
<1>5. CASE x \in Writable
  <2>1. \/ t \in writer[x] \/ (t \in readers[x] /\ a[2] # "write")
        \/ ReachesUnlocked(t, x)
    BY <1>1, <1>3, <1>4, <1>5 DEF Scopes
  <2>2. \/ u \in writer[x] \/ (u \in readers[x] /\ b[2] # "write")
        \/ ReachesUnlocked(u, x)
    BY <1>2, <1>3, <1>4, <1>5 DEF Scopes
  <2>3. /\ t \in writer[x] => u \notin writer[x] \union readers[x]
        /\ u \in writer[x] => t \notin writer[x] \union readers[x]
    BY <1>5 DEF LInv, Exclusion, Scopes
  <2> QED BY <1>5, <2>1, <2>2, <2>3
<1>6. CASE x \in ReadOnly
  BY <1>1, <1>2, <1>3, <1>4, <1>6 DEF Scopes
<1>7. CASE x \notin Scopes
  BY <1>1, <1>2, <1>7 DEF Scopes
<1> QED BY <1>5, <1>6, <1>7 DEF Scopes

(* Whatever calls threads make on however many scopes, what one of them     *)
(* writes while another one uses it is an enumeration they share, or the    *)
(* tables of a scope one of them reaches by an import without its lock.     *)
THEOREM CallsDoNotConflict == Spec => []NoConflict
<1> QED BY LockInit, StepKeepsLocks, LocksPreventConflict, PTL DEF Spec
----------------------------------------------------------------------------
(* Reference counts.                                                        *)

(* The references to scope s, each with the thread that holds it.           *)
References(s) == {p \in Threads \X Nat : 1 <= p[2] /\ p[2] <= refs[p[1]][s]}

Counted(s) ==
    IsFiniteSet(References(s)) /\ refCount[s] = Cardinality(References(s))

(* A section of a call of t uses only scopes that t refers to.              *)
Referred(t, section) ==
    \A use \in Touches(section) : use[1] \in Scopes => refs[t][use[1]] > 0

CallIsReferred(t) == \A i \in 1 .. Len(call[t]) : Referred(t, call[t][i])

Unreferenced(s) ==
    deletions[s] > 0 \/ (\E t \in Threads : s \in deleting[t]) => refCount[s] = 0

OneDeletion(s) ==
    /\ deletions[s] <= 1
    /\ \A t, u \in Threads : s \in deleting[t] /\ s \in deleting[u] => t = u
    /\ deletions[s] > 0 => \A t \in Threads : s \notin deleting[t]

RefTypes ==
    /\ refs \in [Threads -> [Scopes -> Nat]]
    /\ refCount \in [Scopes -> Nat]
    /\ deleting \in [Threads -> SUBSET Scopes]
    /\ deletions \in [Scopes -> Nat]

(* The count of a scope is the number of references to it; who has seen it  *)
(* reach zero is the only one, and zero it stays; and no reference that a   *)
(* call depends on is given back before it returns.                         *)
RInv ==
    /\ RefTypes
    /\ \A s \in Scopes : Counted(s) /\ Unreferenced(s) /\ OneDeletion(s)
    /\ \A t \in Threads : CallIsReferred(t)

(* Without references there is no thread that has one, and with one the     *)
(* count is not zero.                                                       *)
LEMMA CountIsZero ==
    ASSUME RInv, NEW s \in Scopes
    PROVE  refCount[s] = 0 <=> \A t \in Threads : refs[t][s] = 0
<1>1. /\ IsFiniteSet(References(s)) /\ refCount[s] = Cardinality(References(s))
      /\ \A t \in Threads : refs[t][s] \in Nat
  BY DEF RInv, RefTypes, Counted
<1>2. refCount[s] = 0 <=> References(s) = {}
  BY <1>1, FS_EmptySet
<1>3. ASSUME References(s) = {}, NEW t \in Threads PROVE refs[t][s] = 0
  <2>1. <<t, 1>> \notin References(s)
    BY <1>3
  <2> QED BY <1>1, <2>1 DEF References
<1>4. ASSUME \A t \in Threads : refs[t][s] = 0 PROVE References(s) = {}
  BY <1>4 DEF References
<1> QED BY <1>2, <1>3, <1>4

LEMMA RefInit == Init => RInv
<1> SUFFICES ASSUME Init PROVE RInv
  OBVIOUS
<1>1. PICK opener \in Threads :
         refs = [t \in Threads |-> [s \in Scopes |-> IF t = opener THEN 1 ELSE 0]]
  BY DEF Init
<1>2. /\ refCount = [s \in Scopes |-> 1] /\ call = [t \in Threads |-> << >>]
      /\ deleting = [t \in Threads |-> {}] /\ deletions = [s \in Scopes |-> 0]
  BY DEF Init
<1>3. RefTypes
  BY <1>1, <1>2 DEF RefTypes
<1>4. ASSUME NEW s \in Scopes PROVE Counted(s)
  <2>1. \A t \in Threads : refs[t][s] = IF t = opener THEN 1 ELSE 0
    BY <1>1
  <2>2. References(s) = {<<opener, 1>>}
    BY <2>1 DEF References
  <2> QED BY <1>2, <2>2, FS_Singleton DEF Counted
<1>5. ASSUME NEW s \in Scopes PROVE Unreferenced(s) /\ OneDeletion(s)
  BY <1>2 DEF Unreferenced, OneDeletion
<1>6. ASSUME NEW t \in Threads PROVE CallIsReferred(t)
  <2>1. call[t] = << >>
    BY <1>2
  <2> QED BY <2>1 DEF CallIsReferred
<1> QED BY <1>3, <1>4, <1>5, <1>6 DEF RInv

(* A thread has a reference to every scope that the calls it makes use.     *)
LEMMA CallsReferToWhatTheyUse ==
    ASSUME NEW t \in Threads, BeginCall(t)
    PROVE  \E s \in Scopes : \E sections :
              /\ Begin(t, s, sections)
              /\ \A n \in 1 .. Len(sections) : Referred(t, sections[n])
<1>1. \/ \E s \in Scopes :
            \/ \E op \in Queries \ EnumCalls : BeginQuery(t, s, op)
            \/ \E op \in EnumCalls, e \in EnumerationsOf[t] : BeginEnum(t, s, op, e)
            \/ \E op \in Emits : BeginEmit(t, s, op)
            \/ \E i \in Imports : BeginTranslate(t, s, i)
      \/ \E i \in Imports : BeginImportType(t, i) \/ BeginImportMember(t, i)
  BY DEF BeginCall
<1>2. ASSUME NEW z, refs[t][z] > 0, NEW mode PROVE Referred(t, Section(z, mode, {}))
  BY <1>2 DEF Referred, Section, Touches
<1>3. ASSUME NEW s \in Scopes, NEW op, BeginQuery(t, s, op)
      PROVE  \E sections : /\ Begin(t, s, sections)
                           /\ \A n \in 1 .. Len(sections) : Referred(t, sections[n])
  <2>1. \A n \in 1 .. Len(Query(s)) : Query(s)[n] = Section(s, "read", {})
    BY DEF Query
  <2>2. refs[t][s] > 0 /\ Begin(t, s, Query(s))
    BY <1>3 DEF BeginQuery, Begin
  <2>3. \A n \in 1 .. Len(Query(s)) : Referred(t, Query(s)[n])
    BY <1>2, <2>1, <2>2
  <2> QED BY <2>2, <2>3, Zenon
<1>4. ASSUME NEW s \in Scopes, NEW op, NEW e \in EnumerationsOf[t], BeginEnum(t, s, op, e)
      PROVE  \E sections : /\ Begin(t, s, sections)
                           /\ \A n \in 1 .. Len(sections) : Referred(t, sections[n])
  <2>1. e \notin Scopes
    BY <1>4, EnumerationsAreGiven
  <2>2. \A n \in 1 .. Len(EnumQuery(s, e)) :
           EnumQuery(s, e)[n] = Section(s, "read", {<<e, "write">>})
    BY DEF EnumQuery
  <2>3. refs[t][s] > 0 /\ Begin(t, s, EnumQuery(s, e))
    BY <1>4 DEF BeginEnum, Begin
  <2>4. Referred(t, Section(s, "read", {<<e, "write">>}))
    BY <2>1, <2>3 DEF Referred, Section, Touches
  <2>5. \A n \in 1 .. Len(EnumQuery(s, e)) : Referred(t, EnumQuery(s, e)[n])
    BY <2>2, <2>4
  <2> QED BY <2>3, <2>5, Zenon
<1>5. ASSUME NEW s \in Scopes, NEW op, BeginEmit(t, s, op)
      PROVE  \E sections : /\ Begin(t, s, sections)
                           /\ \A n \in 1 .. Len(sections) : Referred(t, sections[n])
  <2>1. \A n \in 1 .. Len(Emit(s)) : Emit(s)[n] = Section(s, "write", {})
    BY DEF Emit
  <2>2. refs[t][s] > 0 /\ Begin(t, s, Emit(s))
    BY <1>5 DEF BeginEmit, Begin
  <2>3. \A n \in 1 .. Len(Emit(s)) : Referred(t, Emit(s)[n])
    BY <1>2, <2>1, <2>2
  <2> QED BY <2>2, <2>3, Zenon
<1>6. ASSUME NEW s, NEW i \in Imports, Refers(t, i)
      PROVE  Referred(t, TranslateSigWithScope(s, i))
  BY <1>6 DEF Referred, Refers, Touches, TranslateSigWithScope, ReachedByImport
<1>7. ASSUME NEW s \in Scopes, NEW i \in Imports, BeginTranslate(t, s, i)
      PROVE  \E sections : /\ Begin(t, s, sections)
                           /\ \A n \in 1 .. Len(sections) : Referred(t, sections[n])
  <2> DEFINE sections == <<TranslateSigWithScope(s, i)>>
  <2>1. \A n \in 1 .. Len(sections) : sections[n] = TranslateSigWithScope(s, i)
    OBVIOUS
  <2>2. Begin(t, s, sections) /\ Refers(t, i)
    BY <1>7 DEF BeginTranslate
  <2> HIDE DEF sections
  <2>3. \A n \in 1 .. Len(sections) : Referred(t, sections[n])
    BY <1>6, <2>1, <2>2
  <2> QED BY <2>2, <2>3
<1>8. ASSUME NEW i \in Imports, BeginImportType(t, i)
      PROVE  \E sections : /\ Begin(t, i.tm, sections)
                           /\ \A n \in 1 .. Len(sections) : Referred(t, sections[n])
  <2> DEFINE sections == DefineImportType(i)
             section == [Section(i.tm, "write", {}) EXCEPT !.reaches = ReachedByImport(i)]
  <2>1. \A n \in 1 .. Len(sections) : sections[n] = section
    BY DEF DefineImportType
  <2>2. Begin(t, i.tm, sections) /\ Refers(t, i)
    BY <1>8 DEF BeginImportType
  <2>3. Touches(section) = ReachedByImport(i) \union {<<i.tm, "write">>}
    BY DEF Touches, Section
  <2> HIDE DEF sections, section
  <2>4. Referred(t, section)
    BY <2>2, <2>3 DEF Referred, Refers, ReachedByImport
  <2>5. \A n \in 1 .. Len(sections) : Referred(t, sections[n])
    BY <2>1, <2>4
  <2> QED BY <2>2, <2>5
<1>9. ASSUME NEW i \in Imports, BeginImportMember(t, i)
      PROVE  \E sections : /\ Begin(t, i.tm, sections)
                           /\ \A n \in 1 .. Len(sections) : Referred(t, sections[n])
  <2> DEFINE sections == DefineImportMember(i)
             import == TranslateSigWithScope(i.tm, i)
  <2>1. \A n \in 1 .. Len(sections) :
           \/ \E z \in {i.tm, i.sm} : \E mode : sections[n] = Section(z, mode, {})
           \/ sections[n] = import
    BY DEF DefineImportMember
  <2>2. Begin(t, i.tm, sections) /\ Refers(t, i)
    BY <1>9 DEF BeginImportMember
  <2> HIDE DEF sections, import
  <2>3. \A z \in {i.tm, i.sm} : \A mode : Referred(t, Section(z, mode, {}))
    BY <1>2, <2>2 DEF Refers
  <2>4. Referred(t, import)
    BY <1>6, <2>2 DEF import
  <2>5. \A n \in 1 .. Len(sections) : Referred(t, sections[n])
    BY <2>1, <2>3, <2>4
  <2> QED BY <2>2, <2>5
<1>10. \A i \in Imports : i.tm \in Scopes
  BY ImportReaches DEF Scopes
<1> QED BY <1>1, <1>3, <1>4, <1>5, <1>7, <1>8, <1>9, <1>10

(* The counts are untouched, and every call goes on with what it had.       *)
LEMMA CountsStay ==
    ASSUME RInv, UNCHANGED refVars, \A t \in Threads : CallIsReferred(t)'
    PROVE  RInv'
<1> USE DEF refVars
<1>1. RefTypes'
  BY DEF RInv, RefTypes
<1>2. ASSUME NEW s \in Scopes PROVE (Counted(s) /\ Unreferenced(s) /\ OneDeletion(s))'
  <2>1. Counted(s)'
    BY DEF RInv, Counted, References
  <2>2. Unreferenced(s)' /\ OneDeletion(s)'
    BY DEF RInv, Unreferenced, OneDeletion
  <2> QED BY <2>1, <2>2
<1> QED BY <1>1, <1>2 DEF RInv

LEMMA ReferredStays ==
    ASSUME RInv, NEW t \in Threads, call'[t] = call[t], refs'[t] = refs[t]
    PROVE  CallIsReferred(t)'
BY DEF RInv, CallIsReferred, Referred

LEMMA BeginKeepsRefs ==
    ASSUME LInv, RInv, NEW t \in Threads, BeginCall(t)
    PROVE  RInv'
<1>0. PICK s \in Scopes : \E sections :
         Begin(t, s, sections) /\ \A i \in 1 .. Len(sections) : Referred(t, sections[i])
  BY CallsReferToWhatTheyUse
<1>1. PICK sections :
         Begin(t, s, sections) /\ \A i \in 1 .. Len(sections) : Referred(t, sections[i])
  BY <1>0
<1>2. UNCHANGED refVars /\ call' = [call EXCEPT ![t] = sections] /\ DOMAIN call = Threads
  BY <1>1 DEF Begin, LInv, LockTypes
<1>3. ASSUME NEW u \in Threads PROVE CallIsReferred(u)'
  <2>1. refs' = refs
    BY <1>2 DEF refVars
  <2>2. CASE u = t
    <3>1. call'[u] = sections
      BY <1>2, <2>2
    <3> QED BY <1>1, <2>1, <2>2, <3>1 DEF CallIsReferred, Referred
  <2>3. CASE u # t
    <3>1. call'[u] = call[u]
      BY <1>2, <2>3
    <3> QED BY <2>1, <3>1, ReferredStays
  <2> QED BY <2>2, <2>3
<1> QED BY <1>2, <1>3, CountsStay

LEMMA UnlockKeepsRefs ==
    ASSUME LInv, RInv, NEW t \in Threads, unlock(t)
    PROVE  RInv'
<1>1. /\ UNCHANGED refVars /\ call' = [call EXCEPT ![t] = Tail(@)]
      /\ DOMAIN call = Threads /\ call[t] # << >> /\ call[t] \in Seq(Sections(t))
  BY DEF unlock, LInv, LockTypes, TakenAreHeld
<1>2. ASSUME NEW u \in Threads PROVE CallIsReferred(u)'
  <2>1. refs' = refs
    BY <1>1 DEF refVars
  <2>2. CASE u = t
    <3>1. call'[u] = Tail(call[u]) /\ call[u] \in Seq(Sections(u)) /\ call[u] # << >>
      BY <1>1, <2>2
    <3>2. \A i \in 1 .. Len(Tail(call[u])) :
             i + 1 \in 1 .. Len(call[u]) /\ Tail(call[u])[i] = call[u][i + 1]
      BY <3>1
    <3>3. \A i \in 1 .. Len(Tail(call[u])) : Referred(u, Tail(call[u])[i])
      BY <3>2 DEF RInv, CallIsReferred
    <3> QED BY <2>1, <3>1, <3>3 DEF CallIsReferred, Referred
  <2>3. CASE u # t
    <3>1. call'[u] = call[u]
      BY <1>1, <2>3
    <3> QED BY <2>1, <3>1, ReferredStays
  <2> QED BY <2>2, <2>3
<1> QED BY <1>1, <1>2, CountsStay

LEMMA QueryInterfaceKeepsRefs ==
    ASSUME RInv, NEW t \in Threads, NEW u \in Threads, NEW s \in Scopes,
           QueryInterface(t, u, s)
    PROVE  RInv'
<1>1. /\ refs[t][s] > 0
      /\ refCount' = [refCount EXCEPT ![s] = @ + 1]
      /\ refs' = [refs EXCEPT ![u][s] = @ + 1]
      /\ call' = call /\ deleting' = deleting /\ deletions' = deletions
  BY DEF QueryInterface, callVars
<1>2. RefTypes /\ \A v \in Threads, z \in Scopes : refs[v][z] \in Nat
  BY DEF RInv, RefTypes
<1>3. \A v \in Threads, z \in Scopes :
         refs'[v][z] = IF v = u /\ z = s THEN refs[v][z] + 1 ELSE refs[v][z]
  BY <1>1, <1>2 DEF RefTypes
<1>4. \A z \in Scopes : refCount'[z] = IF z = s THEN refCount[z] + 1 ELSE refCount[z]
  BY <1>1, <1>2 DEF RefTypes
<1>5. RefTypes'
  BY <1>1, <1>2 DEF RefTypes
<1>6. ASSUME NEW z \in Scopes PROVE Counted(z)'
  <2>1. /\ IsFiniteSet(References(z)) /\ refCount[z] = Cardinality(References(z))
    BY DEF RInv, Counted
  <2>2. CASE z = s
    <3> DEFINE new == <<u, refs[u][s] + 1>>
    <3>1. new \notin References(s)
      BY <1>2 DEF References
    <3>2. References(s)' = References(s) \union {new}
      BY <1>2, <1>3 DEF References
    <3> HIDE DEF new
    <3>3. IsFiniteSet(References(s)') /\ Cardinality(References(s)') = Cardinality(References(s)) + 1
      BY <2>1, <2>2, <3>1, <3>2, FS_AddElement
    <3> QED BY <1>4, <2>1, <2>2, <3>3 DEF Counted
  <2>3. CASE z # s
    <3>1. References(z)' = References(z)
      BY <1>3, <2>3 DEF References
    <3> QED BY <1>4, <2>1, <2>3, <3>1 DEF Counted
  <2> QED BY <2>2, <2>3
<1>7. ASSUME NEW z \in Scopes PROVE Unreferenced(z)' /\ OneDeletion(z)'
  <2>1. OneDeletion(z)'
    BY <1>1 DEF RInv, OneDeletion
  <2>2. refCount[s] # 0
    BY <1>1, CountIsZero
  <2>3. Unreferenced(z)'
    BY <1>1, <1>4, <2>2 DEF RInv, Unreferenced
  <2> QED BY <2>1, <2>3
<1>8. ASSUME NEW v \in Threads PROVE CallIsReferred(v)'
  BY <1>1, <1>2, <1>3 DEF RInv, CallIsReferred, Referred
<1> QED BY <1>5, <1>6, <1>7, <1>8 DEF RInv

LEMMA ReleaseKeepsRefs ==
    ASSUME RInv, NEW t \in Threads, NEW s \in Scopes, Release(t, s)
    PROVE  RInv'
<1>1. /\ call[t] = << >> /\ deleting[t] = {} /\ refs[t][s] > 0
      /\ refCount' = [refCount EXCEPT ![s] = @ - 1]
      /\ refs' = [refs EXCEPT ![t][s] = @ - 1]
      /\ deleting' = [deleting EXCEPT ![t] = IF refCount'[s] = 0 THEN {s} ELSE {}]
      /\ call' = call /\ deletions' = deletions
  BY DEF Release, Free, callVars
<1>2. RefTypes /\ \A v \in Threads, z \in Scopes : refs[v][z] \in Nat
  BY DEF RInv, RefTypes
<1>3. \A v \in Threads, z \in Scopes :
         refs'[v][z] = IF v = t /\ z = s THEN refs[v][z] - 1 ELSE refs[v][z]
  BY <1>1, <1>2 DEF RefTypes
<1>4. \A z \in Scopes : refCount'[z] = IF z = s THEN refCount[z] - 1 ELSE refCount[z]
  BY <1>1, <1>2 DEF RefTypes
<1>5. refCount[s] \in Nat \ {0}
  BY <1>1, <1>2, CountIsZero DEF RefTypes
<1>6. RefTypes'
  BY <1>1, <1>2, <1>5 DEF RefTypes
<1>7. ASSUME NEW z \in Scopes PROVE Counted(z)'
  <2>1. IsFiniteSet(References(z)) /\ refCount[z] = Cardinality(References(z))
    BY DEF RInv, Counted
  <2>2. CASE z = s
    <3> DEFINE last == <<t, refs[t][s]>>
    <3>1. last \in References(s)
      BY <1>1, <1>2 DEF References
    <3>2. References(s)' = References(s) \ {last}
      BY <1>2, <1>3 DEF References
    <3> HIDE DEF last
    <3>3. IsFiniteSet(References(s)') /\ Cardinality(References(s)') = Cardinality(References(s)) - 1
      BY <2>1, <2>2, <3>1, <3>2, FS_RemoveElement
    <3> QED BY <1>4, <2>1, <2>2, <3>3 DEF Counted
  <2>3. CASE z # s
    <3>1. References(z)' = References(z)
      BY <1>3, <2>3 DEF References
    <3> QED BY <1>4, <2>1, <2>3, <3>1 DEF Counted
  <2> QED BY <2>2, <2>3
<1>8. /\ deletions[s] = 0
      /\ \A v \in Threads : s \notin deleting[v]
  BY <1>2, <1>5 DEF RInv, RefTypes, Unreferenced
<1>9. \A v \in Threads : deleting'[v] = IF v = t THEN IF refCount'[s] = 0 THEN {s} ELSE {}
                                       ELSE deleting[v]
  BY <1>1, <1>2 DEF RefTypes
<1>10. ASSUME NEW z \in Scopes PROVE Unreferenced(z)' /\ OneDeletion(z)'
  <2>1. CASE z = s
    BY <1>1, <1>8, <1>9, <2>1 DEF Unreferenced, OneDeletion
  <2>2. CASE z # s
    <3>1. \A v \in Threads : z \in deleting'[v] <=> z \in deleting[v]
      BY <1>1, <1>9, <2>2
    <3>2. refCount'[z] = refCount[z] /\ Unreferenced(z) /\ OneDeletion(z)
      BY <1>4, <2>2 DEF RInv
    <3> QED BY <1>1, <3>1, <3>2 DEF Unreferenced, OneDeletion
  <2> QED BY <2>1, <2>2
<1>11. ASSUME NEW v \in Threads PROVE CallIsReferred(v)'
  <2>1. CASE v = t
    <3>1. call'[v] = << >>
      BY <1>1, <2>1
    <3> QED BY <3>1 DEF CallIsReferred
  <2>2. CASE v # t
    <3>1. refs'[v] = refs[v] /\ call'[v] = call[v]
      BY <1>1, <1>2, <2>2 DEF RefTypes
    <3> QED BY <3>1, ReferredStays
  <2> QED BY <2>1, <2>2
<1> QED BY <1>6, <1>7, <1>10, <1>11 DEF RInv

LEMMA DeleteKeepsRefs ==
    ASSUME RInv, NEW t \in Threads, NEW s \in Scopes, Delete(t, s)
    PROVE  RInv'
<1>1. /\ s \in deleting[t]
      /\ deletions' = [deletions EXCEPT ![s] = @ + 1]
      /\ deleting' = [deleting EXCEPT ![t] = {}]
      /\ call' = call /\ refCount' = refCount /\ refs' = refs
  BY DEF Delete, callVars
<1>2. RefTypes /\ \A z \in Scopes : Counted(z) /\ Unreferenced(z) /\ OneDeletion(z)
  BY DEF RInv
<1>3. RefTypes'
  BY <1>1, <1>2 DEF RefTypes
<1>4. deletions[s] = 0
  BY <1>1, <1>2 DEF RefTypes, OneDeletion
<1>5. /\ \A z \in Scopes : deletions'[z] = IF z = s THEN 1 ELSE deletions[z]
      /\ \A v \in Threads : deleting'[v] = IF v = t THEN {} ELSE deleting[v]
  BY <1>1, <1>2, <1>4 DEF RefTypes
<1>6. ASSUME NEW z \in Scopes PROVE (Counted(z) /\ Unreferenced(z) /\ OneDeletion(z))'
  <2>1. Counted(z)'
    BY <1>1, <1>2 DEF Counted, References
  <2>2. Unreferenced(z)'
    BY <1>1, <1>2, <1>5 DEF Unreferenced
  <2>3. OneDeletion(z)'
    BY <1>1, <1>2, <1>5 DEF OneDeletion
  <2> QED BY <2>1, <2>2, <2>3
<1>7. ASSUME NEW v \in Threads PROVE CallIsReferred(v)'
  BY <1>1, ReferredStays
<1> QED BY <1>3, <1>6, <1>7 DEF RInv

LEMMA StepKeepsRefs == LInv /\ RInv /\ [Next]_vars => RInv'
<1> SUFFICES ASSUME LInv, RInv, [Next]_vars PROVE RInv'
  OBVIOUS
<1>1. ASSUME UNCHANGED refVars, UNCHANGED call PROVE RInv'
  <2>1. \A t \in Threads : CallIsReferred(t)'
    BY <1>1, ReferredStays DEF refVars
  <2> QED BY <1>1, <2>1, CountsStay
<1>2. CASE UNCHANGED vars
  BY <1>1, <1>2 DEF vars, callVars
<1>3. CASE Next
  <2>1. PICK t \in Threads :
           \/ BeginCall(t) \/ Proceed(t)
           \/ \E s \in Scopes : Release(t, s) \/ \E u \in Threads : QueryInterface(t, u, s)
    BY <1>3 DEF Next
  <2>2. CASE BeginCall(t)
    BY <2>2, BeginKeepsRefs
  <2>3. ASSUME NEW s \in Scopes, lock_shared(t, s) \/ lock(t, s) PROVE RInv'
    BY <1>1, <2>3 DEF lock_shared, lock, Took
  <2>4. ASSUME NEW s \in Scopes, Delete(t, s) PROVE RInv'
    BY <2>4, DeleteKeepsRefs
  <2>5. CASE Enter(t)
    BY <1>1, <2>5 DEF Enter
  <2>6. CASE unlock(t)
    BY <2>6, UnlockKeepsRefs
  <2>7. ASSUME NEW s \in Scopes, Release(t, s) PROVE RInv'
    BY <2>7, ReleaseKeepsRefs
  <2>8. ASSUME NEW s \in Scopes, NEW u \in Threads, QueryInterface(t, u, s) PROVE RInv'
    BY <2>8, QueryInterfaceKeepsRefs
  <2> QED BY <2>1, <2>2, <2>3, <2>4, <2>5, <2>6, <2>7, <2>8 DEF Proceed
<1> QED BY <1>2, <1>3

(* However many threads share however many scopes: a scope is deleted once, *)
(* when nobody refers to it, and no call is running on it then or later     *)
(* (controllingiunknown.hpp:60-68).                                         *)
THEOREM ScopesAreDeletedOnce == Spec => []DeletedOnceUnused
<1>1. LInv /\ RInv => DeletedOnceUnused
  <2> SUFFICES ASSUME LInv, RInv, NEW s \in Scopes
               PROVE  /\ deletions[s] <= 1
                      /\ deletions[s] = 1 \/ (\E t \in Threads : s \in deleting[t]) =>
                            \A t \in Threads :
                               refs[t][s] = 0 /\ (inside[t] => ~\E m \in {"read", "write"} :
                                                     <<s, m>> \in Touches(Current(t)))
    BY DEF DeletedOnceUnused
  <2>1. deletions[s] <= 1
    BY DEF RInv, OneDeletion
  <2>2. ASSUME deletions[s] = 1 \/ \E t \in Threads : s \in deleting[t],
               NEW t \in Threads
        PROVE  refs[t][s] = 0
    BY <2>2, CountIsZero DEF RInv, Unreferenced
  <2>3. ASSUME NEW t \in Threads, refs[t][s] = 0, inside[t], NEW m,
               <<s, m>> \in Touches(Current(t))
        PROVE  FALSE
    <3>1. call[t] # << >> /\ call[t] \in Seq(Sections(t))
      BY <2>3 DEF LInv, LockTypes, TakenAreHeld
    <3>2. 1 \in 1 .. Len(call[t]) /\ Current(t) = call[t][1]
      BY <3>1 DEF Current
    <3>3. Referred(t, Current(t))
      BY <3>2 DEF RInv, CallIsReferred
    <3>4. refs[t][s] > 0
      BY <2>3, <3>3 DEF Referred
    <3> QED BY <2>3, <3>4
  <2> QED BY <2>1, <2>2, <2>3
<1> QED BY <1>1, LockInit, StepKeepsLocks, RefInit, StepKeepsRefs, PTL DEF Spec
============================================================================
