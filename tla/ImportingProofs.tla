--------------------------- MODULE ImportingProofs ---------------------------
(***************************************************************************)
(* Imports between any images, any number of times: beyond the target      *)
(* module they only write assembly references of its assembly, the scope   *)
(* an imported type is given names the assembly the type has in the        *)
(* source, and the manifest knows it too.                                  *)
(*                                                                         *)
(* A call is made of functions from tables to tables.  Each keeps what is  *)
(* Sound and only makes tables grow, whether it succeeds or not; what its  *)
(* token stands for, when it succeeds, is then read off tables that grow.  *)
(* Of TableSearchProofs only the first part is used.                       *)
(***************************************************************************)
EXTENDS Importing, TableSearchProofs

Names4 == {"AssemblyRef", "ModuleRef", "TypeRef", "TypeSpec"}

IsSequence(s) == s \in Seq(Range(s))

(* s is the beginning of u.                                                 *)
Grows(s, u) ==
    /\ IsSequence(u)
    /\ Len(s) <= Len(u)
    /\ \A k \in 1 .. Len(s) : u[k] = s[k]

(* Tables of all images.                                                    *)
IsTables(t) ==
    /\ t = [i \in Images |-> t[i]]
    /\ \A i \in Images : /\ t[i] = [n \in Names4 |-> t[i][n]]
                         /\ \A n \in Names4 : IsSequence(t[i][n])

(* Call c writes table n of image i.                                        *)
Writes(c, i, n) == i = c.tm \/ (i = c.ta /\ n = "AssemblyRef")

(* Tables u are tables t with rows appended, where call c writes only.      *)
StepsTo(t, u, c) ==
    /\ IsTables(u)
    /\ \A i \in Images, n \in Names4 : /\ Grows(t[i][n], u[i][n])
                                       /\ ~Writes(c, i, n) => u[i][n] = t[i][n]

LEMMA SequenceFacts ==
    ASSUME NEW s, IsSequence(s)
    PROVE  /\ Len(s) \in Nat /\ DOMAIN s = 1 .. Len(s)
           /\ s = [k \in 1 .. Len(s) |-> s[k]]
BY DEF IsSequence

LEMMA SequenceOfSome ==
    ASSUME NEW S, NEW s \in Seq(S)
    PROVE  IsSequence(s)
<1>1. \A k \in 1 .. Len(s) : s[k] \in Range(s)
  BY DEF Range
<1>2. s = [k \in 1 .. Len(s) |-> s[k]] /\ Len(s) \in Nat
  OBVIOUS
<1> QED BY <1>1, <1>2 DEF IsSequence

LEMMA GrowsByOne ==
    ASSUME NEW s, NEW e, IsSequence(s)
    PROVE  /\ Grows(s, Append(s, e))
           /\ Len(Append(s, e)) = Len(s) + 1
           /\ Append(s, e)[Len(s) + 1] = e
<1> DEFINE S == Range(s) \cup {e}
           u == Append(s, e)
<1>1. s \in Seq(S) /\ e \in S
  <2>1. s \in Seq(Range(s)) /\ Range(s) \subseteq S
    BY DEF IsSequence
  <2> QED BY <2>1, SeqMonotonic
<1> HIDE DEF S
<1>2. /\ u \in Seq(S) /\ Len(u) = Len(s) + 1
      /\ \A k \in 1 .. Len(s) : u[k] = s[k]
      /\ u[Len(s) + 1] = e
  BY <1>1, AppendProperties
<1> HIDE DEF u
<1>3. IsSequence(u) /\ Len(s) \in Nat
  BY <1>1, <1>2, SequenceOfSome, SequenceFacts
<1>4. Grows(s, u)
  BY <1>2, <1>3 DEF Grows
<1> QED BY <1>2, <1>4 DEF u

LEMMA GrowsReflexive ==
    ASSUME NEW s, IsSequence(s)
    PROVE  Grows(s, s)
BY SequenceFacts DEF Grows

LEMMA GrowsTransitive ==
    ASSUME NEW s, NEW u, NEW v, IsSequence(s), Grows(s, u), Grows(u, v)
    PROVE  Grows(s, v)
<1>1. Len(s) \in Nat /\ Len(u) \in Nat /\ Len(v) \in Nat
  BY SequenceFacts DEF Grows
<1> QED BY <1>1 DEF Grows

LEMMA StepsReflexive ==
    ASSUME NEW t, NEW c, IsTables(t)
    PROVE  StepsTo(t, t, c)
BY GrowsReflexive DEF IsTables, StepsTo

LEMMA StepsTransitive ==
    ASSUME NEW t, NEW u, NEW v, NEW c, IsTables(t), StepsTo(t, u, c), StepsTo(u, v, c)
    PROVE  StepsTo(t, v, c)
<1>1. ASSUME NEW i \in Images, NEW n \in Names4 PROVE Grows(t[i][n], v[i][n])
  <2>1. IsSequence(t[i][n]) /\ Grows(t[i][n], u[i][n]) /\ Grows(u[i][n], v[i][n])
    BY DEF IsTables, StepsTo
  <2> QED BY <2>1, GrowsTransitive
<1> QED BY <1>1 DEF StepsTo
----------------------------------------------------------------------------
(* What holds of the tables, also in the middle of a call.                  *)

(* Row k of the assembly references of image i names the assembly wanted.   *)
Refers(t, i, k, id) == k \in DOMAIN t[i].AssemblyRef /\ Names(t[i].AssemblyRef[k], id)

WantedIn(t, of) ==
    IF of.scope[1] = "AssemblyRef" THEN t[of.from.sm].AssemblyRef[of.scope[2]]
    ELSE AssemblyIdentity(Assembly[of.from.sa])

(* A scope that is an assembly reference is that of the source, in the      *)
(* target module and in its assembly.                                       *)
Serves(t, of, scope) ==
    scope[1] = "AssemblyRef" =>
        /\ Refers(t, of.from.tm, scope[2], WantedIn(t, of))
        /\ \E k \in Nat : Refers(t, of.from.ta, k, WantedIn(t, of))

ImportedFits(t, i, of, scope) ==
    /\ of.from \in Calls /\ of.from.tm = i
    /\ of.scope[1] = "AssemblyRef" => of.scope[2] \in DOMAIN t[of.from.sm].AssemblyRef
    /\ Serves(t, of, scope)

RowFits(t, i, row) ==
    /\ ScopeIn(t, i, row.scope)
    /\ "of" \in DOMAIN row => ImportedFits(t, i, row.of, row.scope)

Sound(t) ==
    /\ IsTables(t)
    /\ \A i \in Images :
          /\ \A n \in Names4 : Grows(Loaded[i][n], t[i][n])
          /\ \A r \in DOMAIN t[i].AssemblyRef : WellKeyed(t[i].AssemblyRef[r])
          /\ \A r \in DOMAIN t[i].TypeRef : RowFits(t, i, t[i].TypeRef[r])
          /\ \A r \in DOMAIN t[i].TypeRef :
                r > Len(Loaded[i].TypeRef) => t[i].TypeRef[r].scope[1] # "TypeRef"

(* Every table of u begins with that of t.                                  *)
AllGrow(t, u) == IsTables(t) /\ IsTables(u) /\ \A i \in Images, n \in Names4 : Grows(t[i][n], u[i][n])

LEMMA CallImages ==
    ASSUME NEW c \in Calls
    PROVE  c.sa \in Images /\ c.sm \in Images /\ c.ta \in Images /\ c.tm \in Images
BY ImagesAssumption DEF Calls

LEMMA RowsStay ==
    ASSUME NEW t, NEW u, AllGrow(t, u), NEW i \in Images
    PROVE  /\ \A n \in Names4 : \A r \in DOMAIN t[i][n] : r \in DOMAIN u[i][n] /\ u[i][n][r] = t[i][n][r]
           /\ \A r \in DOMAIN t[i].AssemblyRef :
                 r \in DOMAIN u[i].AssemblyRef /\ u[i].AssemblyRef[r] = t[i].AssemblyRef[r]
<1>1. ASSUME NEW n \in Names4, NEW r \in DOMAIN t[i][n]
      PROVE  r \in DOMAIN u[i][n] /\ u[i][n][r] = t[i][n][r]
  <2>1. IsSequence(t[i][n]) /\ IsSequence(u[i][n]) /\ Grows(t[i][n], u[i][n])
    BY DEF AllGrow, IsTables
  <2>2. /\ DOMAIN t[i][n] = 1 .. Len(t[i][n]) /\ DOMAIN u[i][n] = 1 .. Len(u[i][n])
        /\ Len(t[i][n]) \in Nat /\ Len(u[i][n]) \in Nat
    BY <2>1, SequenceFacts
  <2> QED BY <2>1, <2>2 DEF Grows
<1>2. "AssemblyRef" \in Names4
  BY DEF Names4
<1> QED BY <1>1, <1>2

LEMMA ScopeStays ==
    ASSUME NEW t, NEW u, AllGrow(t, u), NEW i \in Images, NEW scope, ScopeIn(t, i, scope)
    PROVE  ScopeIn(u, i, scope)
<1>1. {"AssemblyRef", "ModuleRef", "TypeRef"} \subseteq Names4
  BY DEF Names4
<1> QED BY <1>1, RowsStay DEF ScopeIn

LEMMA RowStaysFit ==
    ASSUME NEW t, NEW u, AllGrow(t, u), NEW i \in Images, NEW row, RowFits(t, i, row)
    PROVE  RowFits(u, i, row)
<1>1. ScopeIn(u, i, row.scope)
  BY ScopeStays DEF RowFits
<1>2. ASSUME "of" \in DOMAIN row PROVE ImportedFits(u, i, row.of, row.scope)
  <2> DEFINE of == row.of
             scope == row.scope
  <2>1. ImportedFits(t, i, of, scope)
    BY <1>2 DEF RowFits
  <2> HIDE DEF of, scope
  <2>2. of.from.sm \in Images /\ of.from.tm \in Images /\ of.from.ta \in Images
    BY <2>1, CallImages DEF ImportedFits
  <2>3. of.scope[1] = "AssemblyRef" => of.scope[2] \in DOMAIN u[of.from.sm].AssemblyRef
    BY <2>1, <2>2, RowsStay DEF ImportedFits
  <2>4. WantedIn(u, of) = WantedIn(t, of)
    BY <2>1, <2>2, RowsStay DEF ImportedFits, WantedIn
  <2>5. \A j \in Images : \A k : Refers(t, j, k, WantedIn(t, of)) => Refers(u, j, k, WantedIn(u, of))
    BY <2>4, RowsStay DEF Refers
  <2>6. Serves(u, of, scope)
    BY <2>1, <2>2, <2>5 DEF ImportedFits, Serves
  <2> QED BY <2>1, <2>3, <2>6 DEF ImportedFits, of, scope
<1> QED BY <1>1, <1>2 DEF RowFits

(* A row that may be appended to table n of image i.                        *)
MayAppend(t, i, n, row) ==
    /\ n = "AssemblyRef" => WellKeyed(row)
    /\ n = "TypeRef" => RowFits(t, i, row) /\ row.scope[1] # "TypeRef"

LEMMA AddSteps ==
    ASSUME NEW t, IsTables(t), NEW c, NEW i \in Images, NEW n \in Names4, Writes(c, i, n), NEW row
    PROVE  /\ StepsTo(t, Add(t, i, n, row), c)
           /\ AllGrow(t, Add(t, i, n, row))
           /\ \A j \in Images, m \in Names4 :
                 Add(t, i, n, row)[j][m] = IF j = i /\ m = n THEN Append(t[i][n], row) ELSE t[j][m]
<1> DEFINE u == Add(t, i, n, row)
<1>1. u = [t EXCEPT ![i] = [t[i] EXCEPT ![n] = Append(t[i][n], row)]]
  BY DEF Add
<1>2. t = [j \in Images |-> t[j]] /\ \A j \in Images : t[j] = [m \in Names4 |-> t[j][m]]
  BY DEF IsTables
<1>3. u = [j \in Images |-> IF j = i THEN [t[i] EXCEPT ![n] = Append(t[i][n], row)] ELSE t[j]]
  BY <1>1, <1>2
<1>4. [t[i] EXCEPT ![n] = Append(t[i][n], row)]
      = [m \in Names4 |-> IF m = n THEN Append(t[i][n], row) ELSE t[i][m]]
  BY <1>2
<1>5. \A j \in Images : u[j] = IF j = i THEN [m \in Names4 |-> IF m = n THEN Append(t[i][n], row) ELSE t[i][m]]
                               ELSE t[j]
  BY <1>3, <1>4
<1>6. u = [j \in Images |-> u[j]]
  BY <1>3
<1> HIDE DEF u
<1>7. ASSUME NEW j \in Images, NEW m \in Names4
      PROVE  u[j][m] = IF j = i /\ m = n THEN Append(t[i][n], row) ELSE t[j][m]
  <2>1. CASE j = i
    <3>1. u[j] = [x \in Names4 |-> IF x = n THEN Append(t[i][n], row) ELSE t[i][x]]
      BY <1>5, <2>1
    <3> QED BY <2>1, <3>1
  <2>2. CASE j # i
    BY <1>5, <2>2
  <2> QED BY <2>1, <2>2
<1>8. \A j \in Images : u[j] = [m \in Names4 |-> u[j][m]]
  BY <1>2, <1>5
<1>9. \A j \in Images, m \in Names4 : IsSequence(t[j][m])
  BY DEF IsTables
<1>10. \A j \in Images, m \in Names4 : Grows(t[j][m], u[j][m])
  BY <1>7, <1>9, GrowsByOne, GrowsReflexive
<1>11. IsTables(u)
  BY <1>6, <1>8, <1>10 DEF IsTables, Grows
<1>12. \A j \in Images, m \in Names4 : ~Writes(c, j, m) => u[j][m] = t[j][m]
  BY <1>7
<1> QED BY <1>7, <1>10, <1>11, <1>12 DEF StepsTo, AllGrow, u

LEMMA RowsAfterAdd ==
    ASSUME NEW t, IsTables(t), NEW c, NEW i \in Images, NEW n \in Names4, Writes(c, i, n), NEW row,
           NEW j \in Images, NEW m \in Names4, NEW r \in DOMAIN Add(t, i, n, row)[j][m]
    PROVE  \/ r \in DOMAIN t[j][m] /\ Add(t, i, n, row)[j][m][r] = t[j][m][r]
           \/ j = i /\ m = n /\ Add(t, i, n, row)[j][m][r] = row
<1>1. Add(t, i, n, row)[j][m] = IF j = i /\ m = n THEN Append(t[i][n], row) ELSE t[j][m]
  BY AddSteps
<1>2. CASE j = i /\ m = n
  <2> DEFINE s == t[i][n]
             u == Append(s, row)
  <2>1. IsSequence(s)
    BY DEF IsTables
  <2> HIDE DEF s
  <2>2. /\ IsSequence(u) /\ Len(u) = Len(s) + 1 /\ u[Len(s) + 1] = row
        /\ \A k \in 1 .. Len(s) : u[k] = s[k]
    BY <2>1, GrowsByOne DEF Grows
  <2> HIDE DEF u
  <2>3. Len(s) \in Nat /\ DOMAIN s = 1 .. Len(s) /\ DOMAIN u = 1 .. Len(s) + 1
    BY <2>1, <2>2, SequenceFacts
  <2>4. r \in DOMAIN u
    BY <1>1, <1>2 DEF u, s
  <2>5. (r \in DOMAIN s /\ u[r] = s[r]) \/ u[r] = row
    BY <2>2, <2>3, <2>4
  <2> QED BY <1>1, <1>2, <2>5 DEF u, s
<1>3. CASE ~(j = i /\ m = n)
  BY <1>1, <1>3
<1> QED BY <1>2, <1>3

LEMMA AddSound ==
    ASSUME NEW t, Sound(t), NEW c, NEW i \in Images, NEW n \in Names4, Writes(c, i, n), NEW row,
           MayAppend(t, i, n, row)
    PROVE  Sound(Add(t, i, n, row)) /\ StepsTo(t, Add(t, i, n, row), c)
<1> DEFINE u == Add(t, i, n, row)
<1>1. IsTables(t)
  BY DEF Sound
<1>2. StepsTo(t, u, c) /\ AllGrow(t, u)
  BY <1>1, AddSteps
<1>3. \A j \in Images, m \in Names4 : \A r \in DOMAIN u[j][m] :
         (r \in DOMAIN t[j][m] /\ u[j][m][r] = t[j][m][r]) \/ (j = i /\ m = n /\ u[j][m][r] = row)
  <2> TAKE j \in Images, m \in Names4
  <2> TAKE r \in DOMAIN u[j][m]
  <2> QED BY <1>1, RowsAfterAdd DEF Writes
<1> HIDE DEF u
<1>4. IsTables(u)
  BY <1>2 DEF AllGrow
<1>5. ASSUME NEW j \in Images
      PROVE  /\ \A m \in Names4 : Grows(Loaded[j][m], u[j][m])
             /\ \A r \in DOMAIN u[j].AssemblyRef : WellKeyed(u[j].AssemblyRef[r])
             /\ \A r \in DOMAIN u[j].TypeRef : RowFits(u, j, u[j].TypeRef[r])
             /\ \A r \in DOMAIN u[j].TypeRef :
                   r > Len(Loaded[j].TypeRef) => u[j].TypeRef[r].scope[1] # "TypeRef"
  <2>1. ASSUME NEW m \in Names4 PROVE Grows(Loaded[j][m], u[j][m])
    <3>1. Grows(Loaded[j][m], t[j][m]) /\ Grows(t[j][m], u[j][m])
      BY <1>2 DEF Sound, AllGrow
    <3>2. IsSequence(Loaded[j][m])
      BY LoadedAssumption DEF IsSequence, Names4
    <3> QED BY <3>1, <3>2, GrowsTransitive
  <2>2. ASSUME NEW r \in DOMAIN u[j].AssemblyRef PROVE WellKeyed(u[j].AssemblyRef[r])
    <3>1. "AssemblyRef" \in Names4
      BY DEF Names4
    <3>2. \/ r \in DOMAIN t[j].AssemblyRef /\ u[j].AssemblyRef[r] = t[j].AssemblyRef[r]
          \/ n = "AssemblyRef" /\ u[j].AssemblyRef[r] = row
      BY <1>3, <3>1
    <3> QED BY <3>2 DEF Sound, MayAppend
  <2>3. ASSUME NEW r \in DOMAIN u[j].TypeRef
        PROVE  /\ RowFits(u, j, u[j].TypeRef[r])
               /\ r > Len(Loaded[j].TypeRef) => u[j].TypeRef[r].scope[1] # "TypeRef"
    <3>1. "TypeRef" \in Names4
      BY DEF Names4
    <3>2. \/ r \in DOMAIN t[j].TypeRef /\ u[j].TypeRef[r] = t[j].TypeRef[r]
          \/ j = i /\ n = "TypeRef" /\ u[j].TypeRef[r] = row
      BY <1>3, <3>1
    <3>3. RowFits(t, j, u[j].TypeRef[r])
      BY <3>2 DEF Sound, MayAppend
    <3>4. r > Len(Loaded[j].TypeRef) => u[j].TypeRef[r].scope[1] # "TypeRef"
      BY <3>2 DEF Sound, MayAppend
    <3> QED BY <1>2, <3>3, <3>4, RowStaysFit
  <2> QED BY <2>1, <2>2, <2>3
<1> QED BY <1>2, <1>4, <1>5 DEF Sound, u
----------------------------------------------------------------------------
(* What a function returns for tables t.                                    *)

Kept(t, r, c) == Sound(r.t) /\ StepsTo(t, r.t, c)

LEMMA StaysKept ==
    ASSUME NEW t, Sound(t), NEW c, NEW r, r.t = t
    PROVE  Kept(t, r, c)
<1>1. StepsTo(t, t, c)
  BY StepsReflexive DEF Sound
<1> QED BY <1>1 DEF Kept

LEMMA KeptTwice ==
    ASSUME NEW t, Sound(t), NEW r, NEW s, NEW c, Kept(t, r, c), Kept(r.t, s, c)
    PROVE  Kept(t, s, c)
BY StepsTransitive DEF Kept, Sound

LEMMA StepsGrow ==
    ASSUME NEW t, IsTables(t), NEW u, NEW c, StepsTo(t, u, c)
    PROVE  AllGrow(t, u)
BY DEF StepsTo, AllGrow
----------------------------------------------------------------------------
(* References to assemblies.                                                *)

LEMMA MatchNames ==
    ASSUME NEW ref, WellKeyed(ref), NEW id, WellKeyed(id), NEW r, NEW lucky,
           Compare(ref, id, r \in lucky) = "match"
    PROVE  Names(ref, id)
<1>1. VersionMatches(ref, id) /\ ref.name = id.name /\ ((ref.key = NoKey) <=> (id.key = NoKey))
  BY DEF Compare
<1>2. CASE ref.key = NoKey
  BY <1>1, <1>2 DEF Names, SameKey
<1>3. CASE ref.key # NoKey
  <2>1. KeyMatches(ref, id, r \in lucky) = "match"
    BY <1>1, <1>3 DEF Compare
  <2>2. ref.full \in BOOLEAN /\ id.full \in BOOLEAN
    BY DEF WellKeyed
  <2>3. (ref.full <=> ref.key[1] = "key") /\ (id.full <=> id.key[1] = "key")
    BY <1>1, <1>3 DEF WellKeyed
  <2>4. Unset[1] # "key"
    BY DEF Unset
  <2>5. SameKey(ref, id)
    <3>1. CASE id.full = ref.full
      <4>1. Equal(ref.key, id.key, r \in lucky)
        BY <2>1, <3>1 DEF KeyMatches
      <4>2. ref.key = id.key \/ ref.key = Unset \/ id.key = Unset
        BY <4>1 DEF Equal
      <4> QED BY <1>1, <1>3, <2>4, <4>2 DEF SameKey, TokenOf
    <3>2. CASE ref.full /\ ~id.full
      <4>1. Equal(StrongNameTokenFromPublicKey(ref.key), id.key, r \in lucky)
        BY <2>1, <3>2 DEF KeyMatches
      <4>2. TokenOf(ref.key) = StrongNameTokenFromPublicKey(ref.key) /\ TokenOf(id.key) = id.key
        BY <2>3, <3>2 DEF TokenOf
      <4>3. TokenOf(ref.key) = TokenOf(id.key) \/ Unset \in {TokenOf(ref.key), TokenOf(id.key)}
        BY <4>1, <4>2 DEF Equal
      <4> QED BY <1>1, <1>3, <4>3 DEF SameKey
    <3>3. CASE ~ref.full /\ id.full
      BY <1>1, <1>3, <3>3 DEF SameKey
    <3> QED BY <2>2, <3>1, <3>2, <3>3
  <2> QED BY <1>1, <2>5 DEF Names
<1> QED BY <1>2, <1>3

LEMMA Verdicts ==
    ASSUME NEW ref, WellKeyed(ref), NEW id, WellKeyed(id), NEW r, NEW lucky
    PROVE  Compare(ref, id, r \in lucky) \in {"match", "skip", "error"}
<1>1. KeyMatches(ref, id, r \in lucky) \in {"match", "skip", "error"}
  BY DEF KeyMatches, WellKeyed
<1> QED BY <1>1 DEF Compare

LEMMA FoundNames ==
    ASSUME NEW refs, IsSequence(refs), \A r \in DOMAIN refs : WellKeyed(refs[r]),
           NEW id, WellKeyed(id), NEW lucky,
           ~FindAssemblyRef(refs, id, lucky).error, FindAssemblyRef(refs, id, lucky).found # 0
    PROVE  /\ FindAssemblyRef(refs, id, lucky).found \in DOMAIN refs
           /\ Names(refs[FindAssemblyRef(refs, id, lucky).found], id)
<1> DEFINE stop == {r \in DOMAIN refs : Compare(refs[r], id, r \in lucky) # "skip"}
           m == Min(stop)
<1>1. FindAssemblyRef(refs, id, lucky) =
         IF stop = {} THEN [found |-> 0, error |-> refs = << >>]
         ELSE [found |-> m, error |-> Compare(refs[m], id, m \in lucky) = "error"]
  BY DEF FindAssemblyRef
<1>2. stop # {}
  BY <1>1
<1>3. stop \subseteq Nat
  BY SequenceFacts
<1>4. m \in stop
  BY <1>2, <1>3, MinIsMember
<1>5. m \in DOMAIN refs /\ Compare(refs[m], id, m \in lucky) # "skip"
  BY <1>4
<1> HIDE DEF stop, m
<1>6. /\ FindAssemblyRef(refs, id, lucky).found = m
      /\ Compare(refs[m], id, m \in lucky) # "error"
  <2> DEFINE f == FindAssemblyRef(refs, id, lucky)
             e == Compare(refs[m], id, m \in lucky) = "error"
  <2>1. f = [found |-> m, error |-> e]
    BY <1>1, <1>2
  <2>2. ~f.error
    OBVIOUS
  <2> HIDE DEF f, e
  <2>3. f.found = m /\ f.error = e
    BY <2>1
  <2>4. ~e
    BY <2>2, <2>3, Zenon
  <2> QED BY <2>3, <2>4 DEF f, e
<1>7. Compare(refs[m], id, m \in lucky) = "match"
  BY <1>5, <1>6, Verdicts
<1> QED BY <1>5, <1>6, <1>7, MatchNames

(* A reference that was found, in tables it did not change.                 *)
Found(t, i, id, r) == r.ok => r.t = t /\ r.token = <<"AssemblyRef", r.token[2]>> /\ Refers(t, i, r.token[2], id)

LEMMA HalfFits ==
    ASSUME NEW t, NEW i, NEW id
    PROVE  MayAppend(t, i, "AssemblyRef", HalfAssemblyRef(id))
BY DEF MayAppend, HalfAssemblyRef, WellKeyed, NoKey

LEMMA ReferenceKeeps ==
    ASSUME NEW t, Sound(t), NEW c \in Calls, NEW i \in {c.ta, c.tm}, NEW id, WellKeyed(id), NEW lucky
    PROVE  /\ Kept(t, ReferenceToAssembly(t, i, id, lucky), c)
           /\ Found(t, i, id, ReferenceToAssembly(t, i, id, lucky))
<1> DEFINE refs == t[i].AssemblyRef
           rows == {x[2] : x \in {y \in lucky : y[1] = i}}
           search == FindAssemblyRef(refs, id, rows)
           new == Add(t, i, "AssemblyRef", HalfAssemblyRef(id))
           r == ReferenceToAssembly(t, i, id, lucky)
<1>1. i \in Images /\ "AssemblyRef" \in Names4 /\ Writes(c, i, "AssemblyRef")
  BY CallImages DEF Names4, Writes
<1>2. IsSequence(refs) /\ \A k \in DOMAIN refs : WellKeyed(refs[k])
  <2>1. IsSequence(t[i]["AssemblyRef"])
    BY <1>1 DEF Sound, IsTables
  <2> QED BY <1>1, <2>1 DEF Sound
<1>3. Sound(new) /\ StepsTo(t, new, c)
  BY <1>1, HalfFits, AddSound
<1>4. ~search.error /\ search.found # 0 => search.found \in DOMAIN refs /\ Names(refs[search.found], id)
  <2> HIDE DEF refs, rows
  <2> QED BY <1>2, FoundNames
<1>5. \/ r.ok = FALSE /\ r.t = t
      \/ /\ ~search.error /\ search.found # 0
         /\ r.ok = TRUE /\ r.t = t /\ r.token = <<"AssemblyRef", search.found>>
      \/ r.ok = FALSE /\ r.t = new
  BY DEF ReferenceToAssembly, Ok, Fail
<1> HIDE DEF rows, search, new, r
<1>6. CASE r.ok = FALSE /\ r.t = t
  BY <1>6, StaysKept DEF Found, r
<1>7. CASE /\ ~search.error /\ search.found # 0
           /\ r.ok = TRUE /\ r.t = t /\ r.token = <<"AssemblyRef", search.found>>
  <2>1. Refers(t, i, search.found, id)
    BY <1>4, <1>7 DEF Refers
  <2> QED BY <1>7, <2>1, StaysKept DEF Found, r
<1>8. CASE r.ok = FALSE /\ r.t = new
  BY <1>3, <1>8 DEF Kept, Found, r
<1> QED BY <1>5, <1>6, <1>7, <1>8

(* In both tables.                                                          *)
FoundTwice(t, c, id, r) ==
    r.ok => /\ r.t = t /\ r.token = <<"AssemblyRef", r.token[2]>>
            /\ Refers(t, c.tm, r.token[2], id)
            /\ \E k \in Nat : Refers(t, c.ta, k, id)

LEMMA ReferredRow ==
    ASSUME NEW t, Sound(t), NEW i \in Images, NEW k, NEW id, Refers(t, i, k, id)
    PROVE  k \in Nat
<1>1. IsSequence(t[i]["AssemblyRef"])
  BY DEF Sound, IsTables, Names4
<1> QED BY <1>1, SequenceFacts DEF Refers

LEMMA InBothKeeps ==
    ASSUME NEW t, Sound(t), NEW c \in Calls, NEW id, WellKeyed(id), NEW lucky
    PROVE  /\ Kept(t, InModuleAndAssembly(t, c, id, lucky), c)
           /\ FoundTwice(t, c, id, InModuleAndAssembly(t, c, id, lucky))
<1> DEFINE r1 == ReferenceToAssembly(t, c.tm, id, lucky)
           r2 == ReferenceToAssembly(r1.t, c.ta, id, lucky)
           r == InModuleAndAssembly(t, c, id, lucky)
<1>1. r = IF r1.ok THEN IF c.tm = c.ta THEN Ok(r1.t, r1.token)
                        ELSE IF r2.ok THEN Ok(r2.t, r1.token) ELSE r2
          ELSE r1
  BY DEF InModuleAndAssembly, Then
<1>2. Kept(t, r1, c) /\ Found(t, c.tm, id, r1)
  BY ReferenceKeeps
<1>3. Kept(r1.t, r2, c) /\ Found(r1.t, c.ta, id, r2)
  <2>1. Sound(r1.t)
    BY <1>2 DEF Kept
  <2> HIDE DEF r1
  <2> QED BY <2>1, ReferenceKeeps
<1> HIDE DEF r1, r2, r
<1>4. Kept(t, r2, c)
  BY <1>2, <1>3, KeptTwice
<1>5. CASE ~r1.ok
  BY <1>1, <1>2, <1>5 DEF FoundTwice, r
<1>6. CASE r1.ok /\ c.tm = c.ta
  <2>1. r.t = t /\ r.token = r1.token /\ r1.t = t
    BY <1>1, <1>2, <1>6 DEF Ok, Found
  <2>2. Refers(t, c.tm, r.token[2], id) /\ r.token = <<"AssemblyRef", r.token[2]>>
    BY <1>2, <1>6, <2>1 DEF Found
  <2>3. r.token[2] \in Nat
    BY <2>2, ReferredRow, CallImages
  <2>4. Kept(t, r, c)
    BY <1>2, <2>1 DEF Kept
  <2> QED BY <1>6, <2>1, <2>2, <2>3, <2>4 DEF FoundTwice, r
<1>7. CASE r1.ok /\ c.tm # c.ta /\ r2.ok
  <2>1. r.t = t /\ r.token = r1.token /\ r1.t = t /\ r2.t = t
    BY <1>1, <1>2, <1>3, <1>7 DEF Ok, Found
  <2>2. Refers(t, c.tm, r.token[2], id) /\ r.token = <<"AssemblyRef", r.token[2]>>
    BY <1>2, <1>7, <2>1 DEF Found
  <2>3. Refers(t, c.ta, r2.token[2], id)
    BY <1>3, <1>7, <2>1 DEF Found
  <2>4. r2.token[2] \in Nat
    BY <2>3, ReferredRow, CallImages
  <2>5. Kept(t, r, c)
    BY <1>2, <2>1 DEF Kept
  <2> QED BY <2>1, <2>2, <2>3, <2>4, <2>5 DEF FoundTwice, r
<1>8. CASE r1.ok /\ c.tm # c.ta /\ ~r2.ok
  BY <1>1, <1>4, <1>8 DEF FoundTwice, r
<1> QED BY <1>5, <1>6, <1>7, <1>8

LEMMA IdentityKeyed ==
    ASSUME NEW a
    PROVE  WellKeyed(AssemblyIdentity(a))
<1> DEFINE k == StrongNameTokenFromPublicKey(a.key)
<1>1. k[1] # "key"
  BY DEF StrongNameTokenFromPublicKey, Unset
<1> HIDE DEF k
<1>2. AssemblyIdentity(a).full = FALSE /\ AssemblyIdentity(a).key = k
  BY DEF AssemblyIdentity, k
<1> QED BY <1>1, <1>2 DEF WellKeyed

LEMMA AssemblyRefKeeps ==
    ASSUME NEW t, Sound(t), NEW c \in Calls, NEW ref \in DOMAIN t[c.sm].AssemblyRef, NEW lucky
    PROVE  /\ Kept(t, ImportReferenceToAssemblyRef(t, c, ref, lucky), c)
           /\ FoundTwice(t, c, t[c.sm].AssemblyRef[ref], ImportReferenceToAssemblyRef(t, c, ref, lucky))
<1>1. WellKeyed(t[c.sm].AssemblyRef[ref])
  BY CallImages DEF Sound
<1> QED BY <1>1, InBothKeeps DEF ImportReferenceToAssemblyRef

LEMMA AssemblyKeeps ==
    ASSUME NEW t, Sound(t), NEW c \in Calls, NEW lucky
    PROVE  /\ Kept(t, ImportReferenceToAssembly(t, c, lucky), c)
           /\ FoundTwice(t, c, AssemblyIdentity(Assembly[c.sa]), ImportReferenceToAssembly(t, c, lucky))
<1> DEFINE r == ImportReferenceToAssembly(t, c, lucky)
           id == AssemblyIdentity(Assembly[c.sa])
           r2 == InModuleAndAssembly(t, c, id, lucky)
<1>1. (r.ok = FALSE /\ r.t = t) \/ r = r2
  BY DEF ImportReferenceToAssembly, Fail
<1>2. WellKeyed(id)
  BY IdentityKeyed
<1>3. Kept(t, r2, c) /\ FoundTwice(t, c, id, r2)
  <2> HIDE DEF id
  <2> QED BY <1>2, InBothKeeps
<1> HIDE DEF r, r2, id
<1>4. CASE r.ok = FALSE /\ r.t = t
  BY <1>4, StaysKept DEF FoundTwice, r, id
<1>5. CASE r = r2
  <2>1. Kept(t, r, c) /\ FoundTwice(t, c, id, r)
    BY <1>3, <1>5
  <2> QED BY <2>1 DEF r, id
<1> QED BY <1>1, <1>4, <1>5
----------------------------------------------------------------------------
(* References to modules.                                                   *)

(* A token of a row of the module references of image i.                    *)
ModuleFound(i, r) == r.token[1] = "ModuleRef" /\ ScopeIn(r.t, i, r.token)

LEMMA AddModuleRefKeeps ==
    ASSUME NEW t, Sound(t), NEW c \in Calls, NEW name
    PROVE  /\ Kept(t, AddModuleRef(t, c.tm, name), c)
           /\ ModuleFound(c.tm, AddModuleRef(t, c.tm, name))
<1> DEFINE i == c.tm
           n == "ModuleRef"
           new == Add(t, i, n, name)
           r == AddModuleRef(t, i, name)
           s == t[i][n]
<1>1. i \in Images /\ Writes(c, i, n) /\ n \in Names4 /\ MayAppend(t, i, n, name)
  BY CallImages DEF Names4, MayAppend, Writes
<1>2. Sound(new) /\ StepsTo(t, new, c)
  <2> HIDE DEF n, i
  <2> QED BY <1>1, AddSound
<1>3. IsTables(t) /\ IsSequence(s)
  BY <1>1 DEF Sound, IsTables
<1>4. new[i][n] = Append(s, name)
  <2> HIDE DEF n, i
  <2>1. \A j \in Images, m \in Names4 :
           new[j][m] = IF j = i /\ m = n THEN Append(t[i][n], name) ELSE t[j][m]
    BY <1>1, <1>3, AddSteps
  <2> HIDE DEF new
  <2> QED BY <1>1, <2>1
<1>5. r = [ok |-> TRUE, t |-> new, token |-> <<n, Len(new[i][n])>>]
  BY Zenon DEF AddModuleRef, Ok, LastOf
<1> HIDE DEF s, r, new
<1>6. IsSequence(Append(s, name)) /\ Len(Append(s, name)) = Len(s) + 1 /\ Len(s) \in Nat
  BY <1>3, GrowsByOne, SequenceFacts DEF Grows
<1>7. Len(new[i][n]) \in DOMAIN new[i][n]
  BY <1>4, <1>6, SequenceFacts
<1>8. r.t = new /\ r.token = <<n, Len(new[i][n])>>
  BY <1>5
<1>9. ModuleFound(i, r) /\ Kept(t, r, c)
  BY <1>2, <1>7, <1>8 DEF ModuleFound, ScopeIn, Kept
<1> QED BY <1>9 DEF r

LEMMA ModuleRefKeeps ==
    ASSUME NEW t, Sound(t), NEW c \in Calls, NEW name
    PROVE  /\ Kept(t, FindOrAddModuleRef(t, c.tm, name), c)
           /\ ModuleFound(c.tm, FindOrAddModuleRef(t, c.tm, name))
<1> DEFINE i == c.tm
           s == t[i].ModuleRef
           T == {k \in 1 .. Len(s) : s[k] = name}
           found == FindModuleRef(t, i, name)
           r == FindOrAddModuleRef(t, i, name)
<1>1. i \in Images /\ IsSequence(s)
  <2>1. i \in Images /\ "ModuleRef" \in Names4
    BY CallImages DEF Names4
  <2> QED BY <2>1 DEF Sound, IsTables
<1>2. found = IF T # {} THEN Min(T) ELSE 0
  BY DEF FindModuleRef, SelectInSeq
<1>3. T \subseteq Nat
  OBVIOUS
<1>4. found # 0 => found \in T
  <2> HIDE DEF T, found
  <2> QED BY <1>2, <1>3, MinIsMember
<1>5. CASE found # 0
  <2>1. r.t = t /\ r.token = <<"ModuleRef", found>>
    BY <1>5 DEF FindOrAddModuleRef, Ok
  <2>2. found \in DOMAIN s
    BY <1>1, <1>4, <1>5, SequenceFacts
  <2> HIDE DEF found, r
  <2>3. ModuleFound(i, r)
    BY <2>1, <2>2 DEF ModuleFound, ScopeIn
  <2> QED BY <2>1, <2>3, StaysKept DEF r
<1>6. CASE found = 0
  <2>1. r = AddModuleRef(t, c.tm, name)
    BY <1>6 DEF FindOrAddModuleRef
  <2> QED BY <2>1, AddModuleRefKeeps
<1> QED BY <1>5, <1>6
----------------------------------------------------------------------------
(* The outermost scope of a type.                                           *)

(* A scope that a row of refs has and that is not another row.              *)
Outer(refs, scope) == \E r \in DOMAIN refs : scope = refs[r].scope /\ scope[1] # "TypeRef"

(* The depth of a type is greater than that of the type it is nested in.    *)
Descends(refs, depth, n) ==
    \A r \in DOMAIN refs :
        /\ depth[r] \in 0 .. n
        /\ refs[r].scope[1] = "TypeRef" =>
              refs[r].scope[2] \in DOMAIN refs /\ depth[refs[r].scope[2]] < depth[r]

(* f gives the types in D their outermost scopes.                           *)
Climbs(refs, D, f) ==
    f = [r \in D |-> IF refs[r].scope[1] = "TypeRef" THEN f[refs[r].scope[2]] ELSE refs[r].scope]

LEMMA ClimbIsOuter ==
    ASSUME NEW refs, NEW n \in Nat, NEW depth, Descends(refs, depth, n), NEW row \in DOMAIN refs
    PROVE  Outer(refs, OutermostScope(refs, row))
<1> DEFINE D(d) == {r \in DOMAIN refs : depth[r] <= d}
           Inner(r) == refs[r].scope[1] = "TypeRef"
           up(r) == refs[r].scope[2]
<1>1. \A r \in DOMAIN refs : depth[r] \in Nat /\ depth[r] <= n
                             /\ (Inner(r) => up(r) \in DOMAIN refs /\ depth[up(r)] < depth[r])
  BY DEF Descends
<1>2. \E f : Climbs(refs, DOMAIN refs, f)
  <2> DEFINE G == {d \in 0 .. n : \E f : Climbs(refs, D(d), f)}
  <2>1. 0 \in G
    <3> DEFINE f == [r \in D(0) |-> refs[r].scope]
    <3>1. \A r \in D(0) : ~Inner(r)
      <4>1. \A r \in D(0) : r \in DOMAIN refs /\ depth[r] = 0
        BY <1>1
      <4>2. \A r \in D(0) : Inner(r) => up(r) \in DOMAIN refs /\ depth[up(r)] \in Nat /\ depth[up(r)] < 0
        BY <1>1, <4>1
      <4> QED BY <4>2
    <3>2. Climbs(refs, D(0), f)
      BY <3>1 DEF Climbs
    <3> QED BY <3>2
  <2>2. ASSUME NEW d \in 0 .. n - 1, d \in G PROVE d + 1 \in G
    <3>1. PICK f : Climbs(refs, D(d), f)
      BY <2>2
    <3> DEFINE g == [r \in D(d + 1) |-> IF Inner(r) THEN f[up(r)] ELSE refs[r].scope]
    <3>2. \A r \in D(d) : r \in D(d + 1) /\ f[r] = IF Inner(r) THEN f[up(r)] ELSE refs[r].scope
      BY <1>1, <3>1 DEF Climbs
    <3>3. \A r \in D(d) : g[r] = f[r]
      BY <3>2
    <3>4. \A r \in D(d + 1) : Inner(r) => up(r) \in D(d)
      BY <1>1
    <3>5. \A r \in D(d + 1) : Inner(r) => g[up(r)] = f[up(r)]
      BY <3>3, <3>4
    <3>6. g = [r \in D(d + 1) |-> IF Inner(r) THEN g[up(r)] ELSE refs[r].scope]
      BY <3>5
    <3> HIDE DEF g
    <3>7. Climbs(refs, D(d + 1), g) /\ d + 1 \in 0 .. n
      BY <3>6 DEF Climbs
    <3> QED BY <3>7
  <2>3. n \in G
    <3> HIDE DEF G
    <3>1. \A d \in 0 .. n : d \in G
      BY <2>1, <2>2, IntervalInduction
    <3> QED BY <3>1
  <2>4. D(n) = DOMAIN refs
    BY <1>1
  <2> HIDE DEF D
  <2> QED BY <2>3, <2>4
<1> DEFINE scope == CHOOSE f : f = [r \in DOMAIN refs |-> IF Inner(r) THEN f[up(r)] ELSE refs[r].scope]
<1>3. OutermostScope(refs, row) = scope[row]
  BY DEF OutermostScope
<1>4. \A r \in DOMAIN refs : scope[r] = IF Inner(r) THEN scope[up(r)] ELSE refs[r].scope
  <2>1. scope = [r \in DOMAIN refs |-> IF Inner(r) THEN scope[up(r)] ELSE refs[r].scope]
    BY <1>2 DEF Climbs
  <2> HIDE DEF scope
  <2> QED BY <2>1
<1> HIDE DEF scope
<1>5. \A r \in DOMAIN refs : Outer(refs, scope[r])
  <2> DEFINE G == {d \in 0 .. n : \A r \in D(d) : Outer(refs, scope[r])}
  <2>1. ASSUME NEW r \in DOMAIN refs, ~Inner(r) PROVE Outer(refs, scope[r])
    BY <1>4, <2>1 DEF Outer
  <2>2. 0 \in G
    <3>1. ASSUME NEW r \in D(0) PROVE ~Inner(r)
      <4>1. depth[r] = 0
        BY <1>1
      <4>2. Inner(r) => depth[up(r)] \in Nat /\ depth[up(r)] < 0
        BY <1>1, <4>1
      <4> QED BY <4>2
    <3> QED BY <2>1, <3>1
  <2>3. ASSUME NEW d \in 0 .. n - 1, d \in G PROVE d + 1 \in G
    <3>1. ASSUME NEW r \in D(d + 1) PROVE Outer(refs, scope[r])
      <4>1. CASE Inner(r)
        <5>1. up(r) \in D(d)
          BY <1>1, <4>1
        <5>2. Outer(refs, scope[up(r)])
          BY <2>3, <5>1
        <5>3. scope[r] = scope[up(r)]
          BY <1>4, <4>1
        <5> QED BY <5>2, <5>3
      <4>2. CASE ~Inner(r)
        BY <2>1, <4>2
      <4> QED BY <4>1, <4>2
    <3>2. d + 1 \in 0 .. n
      OBVIOUS
    <3> QED BY <3>1, <3>2
  <2>4. n \in G
    <3> HIDE DEF G
    <3>1. \A d \in 0 .. n : d \in G
      BY <2>2, <2>3, IntervalInduction
    <3> QED BY <3>1
  <2>5. \A r \in DOMAIN refs : r \in D(n)
    BY <1>1
  <2> HIDE DEF D
  <2> QED BY <2>4, <2>5
<1> QED BY <1>3, <1>5

LEMMA OutermostIsScope ==
    ASSUME NEW t, Sound(t), NEW i \in Images, NEW row \in DOMAIN Loaded[i].TypeRef
    PROVE  /\ ScopeIn(t, i, OutermostScope(t[i].TypeRef, row))
           /\ OutermostScope(t[i].TypeRef, row)[1] # "TypeRef"
<1> DEFINE old == Loaded[i].TypeRef
           refs == t[i].TypeRef
           top == OutermostScope(refs, row)
<1>1. IsSequence(old) /\ IsSequence(refs) /\ Grows(old, refs)
  <2>1. "TypeRef" \in Names4
    BY DEF Names4
  <2>2. IsSequence(Loaded[i]["TypeRef"])
    BY LoadedAssumption DEF IsSequence
  <2> QED BY <2>1, <2>2 DEF Sound, IsTables
<1>2. \A r \in DOMAIN refs : /\ ScopeIn(t, i, refs[r].scope)
                             /\ r > Len(old) => refs[r].scope[1] # "TypeRef"
  BY DEF Sound, RowFits
<1>3. \A r \in DOMAIN old : ScopeIn(Loaded, i, old[r].scope)
  BY LoadedAssumption
<1>4. PICK depth \in [DOMAIN old -> 0 .. Len(old)] :
         \A r \in DOMAIN old : old[r].scope[1] = "TypeRef" => depth[old[r].scope[2]] < depth[r]
  BY LoadedAssumption DEF Nested
<1>5. \A r \in DOMAIN old : old[r].scope[1] = "TypeRef" => old[r].scope[2] \in DOMAIN old
  BY <1>3 DEF ScopeIn, NoToken
<1>6. row \in DOMAIN old
  OBVIOUS
<1> HIDE DEF old, refs
<1>7. /\ Len(old) \in Nat /\ Len(refs) \in Nat /\ Len(old) <= Len(refs)
      /\ DOMAIN old = 1 .. Len(old) /\ DOMAIN refs = 1 .. Len(refs)
      /\ \A r \in DOMAIN old : refs[r] = old[r]
  BY <1>1, SequenceFacts DEF Grows
<1> DEFINE deep == [r \in DOMAIN refs |-> IF r \in DOMAIN old THEN depth[r] ELSE 0]
<1>8. \A r \in DOMAIN refs : deep[r] = (IF r \in DOMAIN old THEN depth[r] ELSE 0)
  OBVIOUS
<1>9. Descends(refs, deep, Len(old))
  <2> HIDE DEF deep
  <2>1. ASSUME NEW r \in DOMAIN refs PROVE deep[r] \in 0 .. Len(old)
    BY <1>4, <1>7, <1>8
  <2>2. ASSUME NEW r \in DOMAIN refs, refs[r].scope[1] = "TypeRef"
        PROVE  refs[r].scope[2] \in DOMAIN refs /\ deep[refs[r].scope[2]] < deep[r]
    <3>1. r \in DOMAIN old
      BY <1>2, <1>7, <2>2
    <3>2. refs[r].scope[2] \in DOMAIN old /\ depth[refs[r].scope[2]] < depth[r]
      BY <1>4, <1>5, <1>7, <2>2, <3>1
    <3> QED BY <1>7, <1>8, <3>1, <3>2
  <2> QED BY <2>1, <2>2 DEF Descends
<1>10. Outer(refs, top)
  <2> HIDE DEF deep
  <2> QED BY <1>6, <1>7, <1>9, ClimbIsOuter
<1> HIDE DEF top
<1>11. ScopeIn(t, i, top) /\ top[1] # "TypeRef"
  BY <1>2, <1>10 DEF Outer
<1> QED BY <1>11 DEF top, refs
----------------------------------------------------------------------------
(* The scope of an imported type.                                           *)

(* A scope for a type that has scope top in the source of call c.           *)
Scoped(c, top, r) ==
    r.ok => /\ ScopeIn(r.t, c.tm, r.token) /\ r.token[1] # "TypeRef"
            /\ Serves(r.t, [from |-> c, scope |-> top], r.token)

LEMMA NotReference ==
    ASSUME NEW c, NEW top, NEW r, ~r.ok \/ ScopeIn(r.t, c.tm, r.token),
           r.token[1] \in {"Module", "ModuleRef"}
    PROVE  Scoped(c, top, r)
BY DEF Scoped, Serves

(* A reference found for the assembly wanted is such a scope.               *)
LEMMA ReferenceIsScope ==
    ASSUME NEW t, NEW c \in Calls, NEW top, NEW id, NEW r,
           WantedIn(t, [from |-> c, scope |-> top]) = id, FoundTwice(t, c, id, r)
    PROVE  Scoped(c, top, r)
<1> SUFFICES ASSUME r.ok PROVE Scoped(c, top, r)
  BY DEF Scoped
<1>1. /\ r.t = t /\ r.token = <<"AssemblyRef", r.token[2]>> /\ Refers(t, c.tm, r.token[2], id)
      /\ \E k \in Nat : Refers(t, c.ta, k, id)
  BY DEF FoundTwice
<1>2. Serves(r.t, [from |-> c, scope |-> top], r.token)
  BY <1>1 DEF Serves
<1>3. ScopeIn(r.t, c.tm, r.token) /\ r.token[1] # "TypeRef"
  BY <1>1 DEF ScopeIn, Refers
<1> QED BY <1>2, <1>3 DEF Scoped

LEMMA ScopeCases ==
    ASSUME NEW t, NEW i, NEW top, ScopeIn(t, i, top), top[1] # "TypeRef"
    PROVE  \/ top = NoToken
           \/ top = <<"Module", 1>> /\ top # NoToken
           \/ top[1] = "ModuleRef" /\ top \notin {NoToken, <<"Module", 1>>}
           \/ /\ top[1] = "AssemblyRef" /\ top \notin {NoToken, <<"Module", 1>>}
              /\ top[2] \in DOMAIN t[i].AssemblyRef
BY DEF ScopeIn, NoToken

LEMMA ScopeInSameKeeps ==
    ASSUME NEW t, Sound(t), NEW c \in Calls, NEW top, ScopeIn(t, c.sm, top), top[1] # "TypeRef", NEW lucky
    PROVE  /\ Kept(t, ScopeInSameAssembly(t, c, top, lucky), c)
           /\ Scoped(c, top, ScopeInSameAssembly(t, c, top, lucky))
<1> DEFINE r == ScopeInSameAssembly(t, c, top, lucky)
           name == t[c.sm].ModuleRef[top[2]]
           own == FindOrAddModuleRef(t, c.tm, ModuleName[c.sm])
           other == FindOrAddModuleRef(t, c.tm, name)
           ref == ImportReferenceToAssemblyRef(t, c, top[2], lucky)
<1>1. ASSUME NEW token \in {NoToken, <<"Module", 1>>}, r = Ok(t, token)
      PROVE  Kept(t, r, c) /\ Scoped(c, top, r)
  <2>1. r.t = t /\ r.token = token
    BY <1>1 DEF Ok
  <2>2. token[1] = "Module"
    BY DEF NoToken
  <2> HIDE DEF r
  <2>3. ScopeIn(r.t, c.tm, r.token) /\ r.token[1] = "Module"
    BY <2>1, <2>2 DEF ScopeIn
  <2> QED BY <2>1, <2>3, StaysKept, NotReference
<1>2. ASSUME NEW n, r = FindOrAddModuleRef(t, c.tm, n)
      PROVE  Kept(t, r, c) /\ Scoped(c, top, r)
  <2>1. Kept(t, r, c) /\ ModuleFound(c.tm, r)
    BY <1>2, ModuleRefKeeps
  <2> HIDE DEF r
  <2> QED BY <2>1, NotReference DEF ModuleFound
<1>3. CASE top = NoToken
  <2>1. r = Ok(t, NoToken)
    BY <1>3 DEF ScopeInSameAssembly, NoToken
  <2> QED BY <1>1, <2>1
<1>4. CASE top = <<"Module", 1>> /\ top # NoToken
  <2>1. r = own
    BY <1>4 DEF ScopeInSameAssembly
  <2> QED BY <1>2, <2>1
<1>5. CASE top[1] = "ModuleRef" /\ top \notin {NoToken, <<"Module", 1>>}
  <2>1. r = IF name = ModuleName[c.tm] THEN Ok(t, <<"Module", 1>>) ELSE other
    BY <1>5 DEF ScopeInSameAssembly
  <2> QED BY <1>1, <1>2, <2>1
<1>6. CASE /\ top[1] = "AssemblyRef" /\ top \notin {NoToken, <<"Module", 1>>}
           /\ top[2] \in DOMAIN t[c.sm].AssemblyRef
  <2>1. r = ref
    BY <1>6 DEF ScopeInSameAssembly
  <2>2. Kept(t, ref, c) /\ FoundTwice(t, c, t[c.sm].AssemblyRef[top[2]], ref)
    BY <1>6, AssemblyRefKeeps
  <2>3. WantedIn(t, [from |-> c, scope |-> top]) = t[c.sm].AssemblyRef[top[2]]
    BY <1>6 DEF WantedIn
  <2> HIDE DEF ref
  <2>4. Scoped(c, top, ref)
    BY <2>2, <2>3, ReferenceIsScope
  <2> QED BY <2>1, <2>2, <2>4
<1> QED BY <1>3, <1>4, <1>5, <1>6, ScopeCases

LEMMA ScopeInOtherKeeps ==
    ASSUME NEW t, Sound(t), NEW c \in Calls, NEW top, ScopeIn(t, c.sm, top), top[1] # "TypeRef", NEW lucky
    PROVE  /\ Kept(t, ScopeInOtherAssembly(t, c, top, lucky), c)
           /\ Scoped(c, top, ScopeInOtherAssembly(t, c, top, lucky))
<1> DEFINE r == ScopeInOtherAssembly(t, c, top, lucky)
           ref == ImportReferenceToAssemblyRef(t, c, top[2], lucky)
           assembly == ImportReferenceToAssembly(t, c, lucky)
           id == AssemblyIdentity(Assembly[c.sa])
<1>1. Kept(t, assembly, c) /\ FoundTwice(t, c, id, assembly)
  BY AssemblyKeeps
<1>2. CASE r = Fail(t)
  <2>1. r.ok = FALSE /\ r.t = t
    BY <1>2 DEF Fail
  <2> HIDE DEF r
  <2> QED BY <2>1, StaysKept DEF Scoped, r
<1>3. CASE top = NoToken
  BY <1>2, <1>3 DEF ScopeInOtherAssembly, NoToken
<1>4. CASE top = <<"Module", 1>> /\ top # NoToken
  <2>1. r = IF assembly.ok THEN Fail(assembly.t) ELSE assembly
    BY <1>4 DEF ScopeInOtherAssembly, Then
  <2> HIDE DEF assembly, r
  <2>2. r.ok # TRUE /\ r.t = assembly.t /\ ~r.ok
    <3>1. CASE assembly.ok
      BY <2>1, <3>1 DEF Fail
    <3>2. CASE ~assembly.ok
      BY <2>1, <3>2
    <3> QED BY <3>1, <3>2
  <2> QED BY <1>1, <2>2 DEF Kept, Scoped, r
<1>5. CASE top[1] = "ModuleRef" /\ top \notin {NoToken, <<"Module", 1>>}
  <2>1. r = assembly
    BY <1>5 DEF ScopeInOtherAssembly
  <2>2. WantedIn(t, [from |-> c, scope |-> top]) = id
    BY <1>5 DEF WantedIn
  <2> HIDE DEF assembly, id
  <2>3. Scoped(c, top, assembly)
    BY <1>1, <2>2, ReferenceIsScope
  <2> QED BY <1>1, <2>1, <2>3
<1>6. CASE /\ top[1] = "AssemblyRef" /\ top \notin {NoToken, <<"Module", 1>>}
           /\ top[2] \in DOMAIN t[c.sm].AssemblyRef
  <2>1. r = Fail(t) \/ r = ref
    BY <1>6 DEF ScopeInOtherAssembly
  <2>2. Kept(t, ref, c) /\ FoundTwice(t, c, t[c.sm].AssemblyRef[top[2]], ref)
    BY <1>6, AssemblyRefKeeps
  <2>3. WantedIn(t, [from |-> c, scope |-> top]) = t[c.sm].AssemblyRef[top[2]]
    BY <1>6 DEF WantedIn
  <2> HIDE DEF ref
  <2>4. Scoped(c, top, ref)
    BY <2>2, <2>3, ReferenceIsScope
  <2> QED BY <1>2, <2>1, <2>2, <2>4, Zenon
<1> QED BY <1>3, <1>4, <1>5, <1>6, ScopeCases
----------------------------------------------------------------------------
(* References to types.                                                     *)

LEMMA AddTypeRefsKeeps ==
    ASSUME NEW t, Sound(t), NEW c \in Calls, NEW top, ScopeIn(t, c.sm, top), NEW scope,
           ScopeIn(t, c.tm, scope), scope[1] # "TypeRef", Serves(t, [from |-> c, scope |-> top], scope)
    PROVE  Kept(t, AddTypeRefs(t, c, top, scope), c)
<1> DEFINE of == [from |-> c, scope |-> top]
           name == IF top = <<"Module", 1>> THEN ModuleName[c.sm] ELSE NoName
           row == [scope |-> scope, name |-> name, of |-> of]
           new == Add(t, c.tm, "TypeRef", row)
<1>1. top[1] = "AssemblyRef" => top[2] \in DOMAIN t[c.sm].AssemblyRef
  BY DEF ScopeIn, NoToken
<1>2. of.from = c /\ of.scope = top
  OBVIOUS
<1> HIDE DEF of, name
<1>3. ImportedFits(t, c.tm, of, scope)
  BY <1>1, <1>2 DEF ImportedFits, of
<1>4. row.scope = scope /\ row.of = of
  OBVIOUS
<1> HIDE DEF row
<1>5. MayAppend(t, c.tm, "TypeRef", row)
  BY <1>3, <1>4 DEF MayAppend, RowFits
<1>6. Sound(new) /\ StepsTo(t, new, c)
  <2> HIDE DEF new
  <2>1. c.tm \in Images /\ "TypeRef" \in Names4 /\ Writes(c, c.tm, "TypeRef")
    BY CallImages DEF Names4, Writes
  <2> QED BY <1>5, <2>1, AddSound DEF new
<1>7. AddTypeRefs(t, c, top, scope).t = new
  BY Zenon DEF AddTypeRefs, Fail, row, of, name
<1> QED BY <1>6, <1>7 DEF Kept

LEMMA SameRowKeeps ==
    ASSUME NEW t, Sound(t), NEW c, NEW token
    PROVE  Kept(t, SameRow(t, c, token), c)
<1> DEFINE r == SameRow(t, c, token)
<1>1. r.t = t
  BY DEF SameRow, Ok, Fail
<1> HIDE DEF r
<1> QED BY <1>1, StaysKept DEF r

(* What fails after a step that keeps, keeps.                               *)
LEMMA FailKeeps ==
    ASSUME NEW t, NEW r, NEW c, Kept(t, r, c)
    PROVE  Kept(t, Fail(r.t), c)
BY DEF Kept, Fail

LEMMA TypeRefKeeps ==
    ASSUME NEW t, Sound(t), NEW c \in Calls, NEW token, token[2] \in DOMAIN Loaded[c.sm].TypeRef, NEW lucky
    PROVE  Kept(t, ImportReferenceToTypeRef(t, c, token, lucky), c)
<1> DEFINE top == OutermostScope(t[c.sm].TypeRef, token[2])
           scope == IF SameAssembly(c) THEN ScopeInSameAssembly(t, c, top, lucky)
                    ELSE ScopeInOtherAssembly(t, c, top, lucky)
           r == ImportReferenceToTypeRef(t, c, token, lucky)
           added == AddTypeRefs(scope.t, c, top, scope.token)
<1>1. ScopeIn(t, c.sm, top) /\ top[1] # "TypeRef"
  BY CallImages, OutermostIsScope
<1>2. Kept(t, scope, c) /\ Scoped(c, top, scope)
  <2> HIDE DEF top
  <2>1. CASE SameAssembly(c)
    <3>1. scope = ScopeInSameAssembly(t, c, top, lucky)
      BY <2>1
    <3> QED BY <1>1, <3>1, ScopeInSameKeeps
  <2>2. CASE ~SameAssembly(c)
    <3>1. scope = ScopeInOtherAssembly(t, c, top, lucky)
      BY <2>2
    <3> QED BY <1>1, <3>1, ScopeInOtherKeeps
  <2> QED BY <2>1, <2>2
<1>3. CASE SameAssembly(c) /\ SameModule(c)
  <2>1. r = SameRow(t, c, token)
    BY <1>3 DEF ImportReferenceToTypeRef
  <2> QED BY <2>1, SameRowKeeps
<1>4. CASE ~(SameAssembly(c) /\ SameModule(c))
  <2>1. r = IF scope.ok THEN IF scope.token = <<"Module", 1>> THEN Fail(scope.t) ELSE added ELSE scope
    BY <1>4 DEF ImportReferenceToTypeRef, Then
  <2> HIDE DEF scope, top, r
  <2>2. CASE ~scope.ok
    BY <1>2, <2>1, <2>2 DEF Kept, r
  <2>3. CASE scope.ok /\ scope.token = <<"Module", 1>>
    BY <1>2, <2>1, <2>3, FailKeeps DEF r
  <2>4. CASE scope.ok /\ scope.token # <<"Module", 1>>
    <3>1. r = added
      BY <2>1, <2>4
    <3>2. ScopeIn(scope.t, c.sm, top) /\ Sound(scope.t)
      <4>1. IsTables(t) /\ StepsTo(t, scope.t, c) /\ Sound(scope.t)
        BY <1>2 DEF Kept, Sound
      <4>2. AllGrow(t, scope.t)
        BY <4>1, StepsGrow
      <4> QED BY <1>1, <4>1, <4>2, ScopeStays, CallImages
    <3>3. /\ ScopeIn(scope.t, c.tm, scope.token) /\ scope.token[1] # "TypeRef"
          /\ Serves(scope.t, [from |-> c, scope |-> top], scope.token)
      BY <1>2, <2>4 DEF Scoped
    <3>4. Kept(scope.t, added, c)
      BY <3>2, <3>3, AddTypeRefsKeeps
    <3> HIDE DEF added
    <3>5. Kept(t, added, c)
      BY <1>2, <3>4, KeptTwice
    <3> QED BY <3>1, <3>5 DEF r
  <2> QED BY <2>2, <2>3, <2>4
<1> QED BY <1>3, <1>4

LEMMA TypeDefKeeps ==
    ASSUME NEW t, Sound(t), NEW c \in Calls, NEW token, NEW always, NEW lucky
    PROVE  Kept(t, ImportReferenceToTypeDef(t, c, token, always, lucky), c)
<1> DEFINE r == ImportReferenceToTypeDef(t, c, token, always, lucky)
           scope ==
               CASE SameAssembly(c) /\ SameModule(c) -> Ok(t, <<"Module", 1>>)
                 [] SameAssembly(c) /\ ~SameModule(c) -> AddModuleRef(t, c.tm, ModuleName[c.sm])
                 [] ~SameAssembly(c) /\ SameModule(c) -> Fail(t)
                 [] OTHER -> ImportReferenceToAssembly(t, c, lucky)
<1>1. Kept(t, scope, c)
  <2>1. CASE SameAssembly(c) /\ SameModule(c)
    <3>1. scope = Ok(t, <<"Module", 1>>)
      BY <2>1
    <3>2. scope.t = t
      BY <3>1 DEF Ok
    <3> HIDE DEF scope
    <3> QED BY <3>2, StaysKept
  <2>2. CASE SameAssembly(c) /\ ~SameModule(c)
    <3>1. scope = AddModuleRef(t, c.tm, ModuleName[c.sm])
      BY <2>2
    <3> QED BY <3>1, AddModuleRefKeeps
  <2>3. CASE ~SameAssembly(c) /\ SameModule(c)
    <3>1. scope = Fail(t)
      BY <2>3
    <3>2. scope.t = t
      BY <3>1 DEF Fail
    <3> HIDE DEF scope
    <3> QED BY <3>2, StaysKept
  <2>4. CASE ~SameAssembly(c) /\ ~SameModule(c)
    <3>1. scope = ImportReferenceToAssembly(t, c, lucky)
      BY <2>4
    <3> QED BY <3>1, AssemblyKeeps
  <2> QED BY <2>1, <2>2, <2>3, <2>4
<1>2. r = IF SameAssembly(c) /\ SameModule(c) /\ ~always THEN SameRow(t, c, token)
          ELSE IF scope.ok THEN Fail(scope.t) ELSE scope
  BY DEF ImportReferenceToTypeDef, Then
<1>3. Kept(t, SameRow(t, c, token), c) /\ Kept(t, Fail(scope.t), c)
  <2> HIDE DEF scope
  <2> QED BY <1>1, SameRowKeeps, FailKeeps
<1> HIDE DEF scope, r
<1>4. Kept(t, r, c)
  <2>1. CASE SameAssembly(c) /\ SameModule(c) /\ ~always
    BY <1>2, <1>3, <2>1
  <2>2. CASE ~(SameAssembly(c) /\ SameModule(c) /\ ~always) /\ scope.ok
    BY <1>2, <1>3, <2>2
  <2>3. CASE ~(SameAssembly(c) /\ SameModule(c) /\ ~always) /\ ~scope.ok
    BY <1>1, <1>2, <2>3
  <2> QED BY <2>1, <2>2, <2>3
<1> QED BY <1>4 DEF r
----------------------------------------------------------------------------
(* Signatures.                                                              *)

Types(i) == {"TypeDef"} \X (1 .. TypeDefs[i]) \cup {"TypeRef"} \X DOMAIN Loaded[i].TypeRef
Specs(i) == {"TypeSpec"} \X DOMAIN TypeSpecs[i]

LEMMA TypeKeeps ==
    ASSUME NEW t, Sound(t), NEW c \in Calls, NEW token \in Types(c.sm), NEW lucky
    PROVE  Kept(t, ImportTypeDefOrRef(t, c, token, lucky), c)
<1>1. CASE token[1] = "TypeDef"
  <2>1. ImportTypeDefOrRef(t, c, token, lucky) = ImportReferenceToTypeDef(t, c, token, TRUE, lucky)
    BY <1>1 DEF ImportTypeDefOrRef
  <2> QED BY <2>1, TypeDefKeeps
<1>2. CASE token[1] = "TypeRef" /\ token[2] \in DOMAIN Loaded[c.sm].TypeRef
  <2>1. ImportTypeDefOrRef(t, c, token, lucky) = ImportReferenceToTypeRef(t, c, token, lucky)
    BY <1>2 DEF ImportTypeDefOrRef
  <2> QED BY <1>2, <2>1, TypeRefKeeps
<1> QED BY <1>1, <1>2 DEF Types

(* The results of walking m tokens of an element, one after the other.      *)
WalksTo(f, m, t, c, element, lucky) ==
    f = [n \in 0 .. m |->
            IF n = 0 THEN Ok(t, << >>)
            ELSE AfterToken(f[n - 1],
                            ImportReferenceToTypeDefOrRefOrSpec(f[n - 1].t, c, element[n], lucky))]

LEMMA ElementHasWalk ==
    ASSUME NEW t, NEW c, NEW element, NEW lucky, NEW m \in Nat
    PROVE  \E f : WalksTo(f, m, t, c, element, lucky)
<1> DEFINE Walk(f, n) == IF n = 0 THEN Ok(t, << >>)
                         ELSE AfterToken(f[n - 1],
                              ImportReferenceToTypeDefOrRefOrSpec(f[n - 1].t, c, element[n], lucky))
           G == {k \in 0 .. m : \E f : f = [n \in 0 .. k |-> Walk(f, n)]}
<1>1. \A f, k : WalksTo(f, k, t, c, element, lucky) <=> f = [n \in 0 .. k |-> Walk(f, n)]
  BY DEF WalksTo
<1>2. \A f, g : \A n \in Nat : (n = 0 \/ f[n - 1] = g[n - 1]) => Walk(f, n) = Walk(g, n)
  OBVIOUS
<1> HIDE DEF Walk
<1>3. 0 \in G
  <2> DEFINE f == [n \in 0 .. 0 |-> Walk(<< >>, n)]
  <2>1. \A n \in 0 .. 0 : n = 0 /\ n \in Nat
    OBVIOUS
  <2>2. \A n \in 0 .. 0 : Walk(<< >>, n) = Walk(f, n)
    BY <1>2, <2>1
  <2>3. f = [n \in 0 .. 0 |-> Walk(f, n)]
    BY <2>2
  <2> HIDE DEF f
  <2> QED BY <2>3
<1>4. ASSUME NEW k \in 0 .. m - 1, k \in G PROVE k + 1 \in G
  <2>1. PICK f : f = [n \in 0 .. k |-> Walk(f, n)]
    BY <1>4
  <2> DEFINE g == [n \in 0 .. k + 1 |-> Walk(f, n)]
  <2>2. \A n \in 0 .. k : f[n] = Walk(f, n)
    BY <2>1
  <2>3. \A n \in 0 .. k : g[n] = Walk(f, n)
    OBVIOUS
  <2>4. \A n \in 0 .. k : f[n] = g[n]
    BY <2>2, <2>3
  <2>5. \A n \in 0 .. k + 1 : n \in Nat /\ (n = 0 \/ n - 1 \in 0 .. k)
    OBVIOUS
  <2>6. \A n \in 0 .. k + 1 : n = 0 \/ f[n - 1] = g[n - 1]
    BY <2>4, <2>5
  <2>7. \A n \in 0 .. k + 1 : Walk(f, n) = Walk(g, n)
    BY <1>2, <2>5, <2>6
  <2>8. g = [n \in 0 .. k + 1 |-> Walk(g, n)]
    BY <2>7
  <2> HIDE DEF g
  <2>9. k + 1 \in 0 .. m
    OBVIOUS
  <2> QED BY <2>8, <2>9
<1>5. m \in G
  <2> HIDE DEF G
  <2>1. \A k \in 0 .. m : k \in G
    BY <1>3, <1>4, IntervalInduction
  <2> QED BY <2>1
<1> QED BY <1>1, <1>5

(* Steps that keep, one after the other, keep.                              *)
LEMMA WalkKeeps ==
    ASSUME NEW t, Sound(t), NEW c, NEW m \in Nat, NEW f, f[0].t = t,
           \A k \in 1 .. m : Sound(f[k - 1].t) => Kept(f[k - 1].t, f[k], c)
    PROVE  \A k \in 0 .. m : Kept(t, f[k], c)
<1> DEFINE G == {k \in 0 .. m : Kept(t, f[k], c)}
<1>1. 0 \in G
  BY StaysKept
<1>2. ASSUME NEW k \in 0 .. m - 1, k \in G PROVE k + 1 \in G
  <2>1. Kept(t, f[k], c) /\ k + 1 \in 1 .. m /\ (k + 1) - 1 = k
    BY <1>2
  <2>2. Sound(f[k].t)
    BY <2>1 DEF Kept
  <2>3. Kept(f[k].t, f[k + 1], c)
    <3> DEFINE j == k + 1
    <3>1. j \in 1 .. m /\ j - 1 = k
      BY <2>1
    <3> HIDE DEF j
    <3>2. Kept(f[j - 1].t, f[j], c)
      BY <2>2, <3>1
    <3> QED BY <3>1, <3>2 DEF j
  <2>4. Kept(t, f[k + 1], c)
    BY <2>1, <2>3, KeptTwice
  <2> QED BY <2>1, <2>4
<1> HIDE DEF G
<1>3. \A k \in 0 .. m : k \in G
  BY <1>1, <1>2, IntervalInduction
<1> QED BY <1>3 DEF G

LEMMA TypeSpecKeeps ==
    ASSUME NEW t, Sound(t), NEW c \in Calls, NEW token \in Specs(c.sm), NEW lucky
    PROVE  Kept(t, ImportTypeSpec(t, c, token, lucky), c)
<1> DEFINE element == TypeSpecs[c.sm][token[2]]
           m == Len(element)
           Step(f, n) == ImportTypeDefOrRef(f[n - 1].t, c, element[n], lucky)
           walk == CHOOSE f : f = [n \in 0 .. m |-> IF n = 0 THEN Ok(t, << >>)
                                                    ELSE AfterToken(f[n - 1], Step(f, n))]
           blob == walk[m].token
           new == Add(walk[m].t, c.tm, "TypeSpec", blob)
           r == ImportTypeSpec(t, c, token, lucky)
<1>1. element \in Seq(Types(c.sm))
  BY ImagesAssumption, CallImages DEF Specs, Types
<1>2. r = IF walk[m].ok THEN Ok(new, LastOf(new, c.tm, "TypeSpec")) ELSE walk[m]
  BY DEF ImportTypeSpec, WalkSignatureElement, Then
<1> HIDE DEF element
<1>3. m \in Nat /\ \A n \in 1 .. m : element[n] \in Types(c.sm)
  BY <1>1
<1>4. \A token2 \in Types(c.sm) : \A u :
         ImportReferenceToTypeDefOrRefOrSpec(u, c, token2, lucky) = ImportTypeDefOrRef(u, c, token2, lucky)
  <2>1. \A token2 \in Types(c.sm) : token2[1] # "TypeSpec"
    BY DEF Types
  <2> QED BY <2>1 DEF ImportReferenceToTypeDefOrRefOrSpec
<1>5. walk = [n \in 0 .. m |-> IF n = 0 THEN Ok(t, << >>) ELSE AfterToken(walk[n - 1], Step(walk, n))]
  <2>1. PICK f : WalksTo(f, m, t, c, element, lucky)
    BY <1>3, ElementHasWalk
  <2> DEFINE Other(n) == ImportReferenceToTypeDefOrRefOrSpec(f[n - 1].t, c, element[n], lucky)
  <2>2. \A n \in 1 .. m : Step(f, n) = Other(n)
    BY <1>3, <1>4
  <2>3. f = [n \in 0 .. m |-> IF n = 0 THEN Ok(t, << >>) ELSE AfterToken(f[n - 1], Other(n))]
    BY <2>1 DEF WalksTo
  <2>4. \A n \in 0 .. m : n = 0 \/ n \in 1 .. m
    BY <1>3
  <2> HIDE DEF Step, Other
  <2>5. f = [n \in 0 .. m |-> IF n = 0 THEN Ok(t, << >>) ELSE AfterToken(f[n - 1], Step(f, n))]
    BY <2>2, <2>3, <2>4
  <2> QED BY <2>5
<1> HIDE DEF walk
<1>6. walk[0].t = t
  <2>1. walk[0] = Ok(t, << >>)
    BY <1>3, <1>5
  <2> QED BY <2>1 DEF Ok
<1>7. ASSUME NEW k \in 1 .. m, Sound(walk[k - 1].t) PROVE Kept(walk[k - 1].t, walk[k], c)
  <2> DEFINE u == walk[k - 1].t
             one == ImportTypeDefOrRef(u, c, element[k], lucky)
  <2>1. walk[k] = AfterToken(walk[k - 1], one)
    BY <1>3, <1>5
  <2>2. Kept(u, one, c)
    BY <1>3, <1>7, TypeKeeps
  <2> HIDE DEF u, one
  <2>3. walk[k].t = one.t
    BY <2>1 DEF AfterToken
  <2> QED BY <2>2, <2>3 DEF Kept, u
<1> HIDE DEF m
<1>8. Kept(t, walk[m], c)
  <2>1. \A k \in 0 .. m : Kept(t, walk[k], c)
    BY <1>3, <1>6, <1>7, WalkKeeps
  <2> QED BY <1>3, <2>1
<1>9. Kept(t, Ok(new, LastOf(new, c.tm, "TypeSpec")), c)
  <2> DEFINE u == walk[m].t
  <2>1. Sound(u)
    BY <1>8 DEF Kept
  <2>2. Sound(new) /\ StepsTo(u, new, c)
    <3> HIDE DEF u, blob
    <3>1. /\ MayAppend(u, c.tm, "TypeSpec", blob) /\ "TypeSpec" \in Names4
          /\ Writes(c, c.tm, "TypeSpec")
      BY DEF MayAppend, Names4, Writes
    <3> QED BY <2>1, <3>1, CallImages, AddSound DEF u
  <2> HIDE DEF new
  <2>3. Kept(u, Ok(new, LastOf(new, c.tm, "TypeSpec")), c)
    BY <2>2 DEF Kept, Ok
  <2> HIDE DEF u
  <2> QED BY <1>8, <2>3, KeptTwice DEF u
<1> HIDE DEF new, r
<1>10. Kept(t, r, c)
  BY <1>2, <1>8, <1>9, Zenon
<1> QED BY <1>10 DEF r

LEMMA TokenKeeps ==
    ASSUME NEW t, Sound(t), NEW c \in Calls, NEW token \in Types(c.sm) \cup Specs(c.sm), NEW lucky
    PROVE  Kept(t, ImportReferenceToTypeDefOrRefOrSpec(t, c, token, lucky), c)
<1>1. CASE token \in Types(c.sm)
  <2>1. token[1] # "TypeSpec"
    BY <1>1 DEF Types
  <2>2. ImportReferenceToTypeDefOrRefOrSpec(t, c, token, lucky) = ImportTypeDefOrRef(t, c, token, lucky)
    BY <2>1 DEF ImportReferenceToTypeDefOrRefOrSpec
  <2> QED BY <1>1, <2>2, TypeKeeps
<1>2. CASE token \in Specs(c.sm)
  <2>1. token[1] = "TypeSpec"
    BY <1>2 DEF Specs
  <2>2. ImportReferenceToTypeDefOrRefOrSpec(t, c, token, lucky) = ImportTypeSpec(t, c, token, lucky)
    BY <2>1 DEF ImportReferenceToTypeDefOrRefOrSpec
  <2> QED BY <1>2, <2>2, TypeSpecKeeps
<1> QED BY <1>1, <1>2

(* Walking an element of a signature.                                       *)
WalkElement(t, c, element, lucky) ==
    WalkSignatureElement(t, element,
        LAMBDA u, token : ImportReferenceToTypeDefOrRefOrSpec(u, c, token, lucky))

LEMMA ElementKeeps ==
    ASSUME NEW t, Sound(t), NEW c \in Calls, NEW element \in Seq(Types(c.sm) \cup Specs(c.sm)), NEW lucky
    PROVE  Kept(t, WalkElement(t, c, element, lucky), c)
<1> DEFINE m == Len(element)
           walk == CHOOSE f : f = [n \in 0 .. m |->
                       IF n = 0 THEN Ok(t, << >>)
                       ELSE AfterToken(f[n - 1],
                            ImportReferenceToTypeDefOrRefOrSpec(f[n - 1].t, c, element[n], lucky))]
<1>1. m \in Nat /\ \A n \in 1 .. m : element[n] \in Types(c.sm) \cup Specs(c.sm)
  OBVIOUS
<1>2. WalkElement(t, c, element, lucky) = walk[m]
  BY DEF WalkElement, WalkSignatureElement
<1>3. walk = [n \in 0 .. m |->
                 IF n = 0 THEN Ok(t, << >>)
                 ELSE AfterToken(walk[n - 1],
                      ImportReferenceToTypeDefOrRefOrSpec(walk[n - 1].t, c, element[n], lucky))]
  <2>1. \E f : WalksTo(f, m, t, c, element, lucky)
    BY <1>1, ElementHasWalk
  <2> QED BY <2>1 DEF WalksTo
<1> HIDE DEF walk
<1>4. walk[0].t = t
  <2>1. walk[0] = Ok(t, << >>)
    BY <1>1, <1>3
  <2> QED BY <2>1 DEF Ok
<1>5. ASSUME NEW k \in 1 .. m, Sound(walk[k - 1].t) PROVE Kept(walk[k - 1].t, walk[k], c)
  <2> DEFINE u == walk[k - 1].t
             one == ImportReferenceToTypeDefOrRefOrSpec(u, c, element[k], lucky)
  <2>1. walk[k] = AfterToken(walk[k - 1], one)
    BY <1>1, <1>3
  <2>2. Kept(u, one, c)
    BY <1>1, <1>5, TokenKeeps
  <2> HIDE DEF u, one
  <2>3. walk[k].t = one.t
    BY <2>1 DEF AfterToken
  <2> QED BY <2>2, <2>3 DEF Kept, u
<1> HIDE DEF m
<1>6. \A k \in 0 .. m : Kept(t, walk[k], c)
  BY <1>1, <1>4, <1>5, WalkKeeps
<1> QED BY <1>1, <1>2, <1>6

LEMMA SignatureKeeps ==
    ASSUME NEW t, Sound(t), NEW c \in Calls, NEW signature \in Signatures[c.sm],
           NEW garbage \in BOOLEAN, NEW lucky
    PROVE  Kept(t, ImportSignatureIntoModule(t, c, signature, garbage, lucky), c)
<1> DEFINE m == Len(signature)
           Step(f, n) == IF n = 0 THEN Ok(t, << >>)
                         ELSE IF f[n - 1].ok THEN WalkElement(f[n - 1].t, c, signature[n], lucky)
                              ELSE f[n - 1]
           walk == CHOOSE f : f = [n \in 0 .. m |-> Step(f, n)]
           r == ImportSignatureIntoModule(t, c, signature, garbage, lucky)
<1>1. /\ signature \in Seq(Seq(Types(c.sm) \cup Specs(c.sm))) /\ signature # << >>
  BY ImagesAssumption, CallImages DEF Types, Specs
<1>2. /\ m \in Nat /\ 1 <= m
      /\ \A n \in 1 .. m : signature[n] \in Seq(Types(c.sm) \cup Specs(c.sm))
  BY <1>1
<1>3. r = IF garbage THEN Fail(walk[1].t) ELSE walk[m]
  BY DEF ImportSignatureIntoModule, WalkElement, Then
<1>4. walk = [n \in 0 .. m |-> Step(walk, n)]
  <2> DEFINE G == {k \in 0 .. m : \E f : f = [n \in 0 .. k |-> Step(f, n)]}
  <2>1. \A f, g : \A n \in Nat : (n = 0 \/ f[n - 1] = g[n - 1]) => Step(f, n) = Step(g, n)
    OBVIOUS
  <2> HIDE DEF Step
  <2>2. 0 \in G
    <3> DEFINE f == [n \in 0 .. 0 |-> Step(<< >>, n)]
    <3>1. \A n \in 0 .. 0 : Step(<< >>, n) = Step(f, n)
      BY <2>1
    <3>2. f = [n \in 0 .. 0 |-> Step(f, n)]
      BY <3>1
    <3> HIDE DEF f
    <3> QED BY <1>2, <3>2
  <2>3. ASSUME NEW k \in 0 .. m - 1, k \in G PROVE k + 1 \in G
    <3>1. PICK f : f = [n \in 0 .. k |-> Step(f, n)]
      BY <2>3
    <3> DEFINE g == [n \in 0 .. k + 1 |-> Step(f, n)]
    <3>2. \A n \in 0 .. k : f[n] = Step(f, n)
      BY <3>1
    <3>3. \A n \in 0 .. k : f[n] = g[n]
      BY <3>2
    <3>4. \A n \in 0 .. k + 1 : n \in Nat /\ (n = 0 \/ f[n - 1] = g[n - 1])
      <4>1. \A n \in 0 .. k + 1 : n \in Nat /\ (n = 0 \/ n - 1 \in 0 .. k)
        OBVIOUS
      <4> HIDE DEF g
      <4> QED BY <3>3, <4>1
    <3>5. \A n \in 0 .. k + 1 : Step(f, n) = Step(g, n)
      BY <2>1, <3>4
    <3>6. g = [n \in 0 .. k + 1 |-> Step(g, n)]
      BY <3>5
    <3> HIDE DEF g
    <3>7. k + 1 \in 0 .. m
      BY <1>2
    <3> QED BY <3>6, <3>7
  <2> HIDE DEF G
  <2>4. \A k \in 0 .. m : k \in G
    BY <1>2, <2>2, <2>3, IntervalInduction
  <2>5. \E f : f = [n \in 0 .. m |-> Step(f, n)]
    BY <1>2, <2>4 DEF G
  <2> HIDE DEF m
  <2> QED BY <2>5 DEF Step
<1> HIDE DEF walk
<1>5. walk[0].t = t
  <2>1. walk[0] = Ok(t, << >>)
    BY <1>2, <1>4
  <2> QED BY <2>1 DEF Ok
<1>6. ASSUME NEW k \in 1 .. m, Sound(walk[k - 1].t) PROVE Kept(walk[k - 1].t, walk[k], c)
  <2>1. walk[k] = IF walk[k - 1].ok THEN WalkElement(walk[k - 1].t, c, signature[k], lucky) ELSE walk[k - 1]
    BY <1>2, <1>4
  <2>2. Kept(walk[k - 1].t, WalkElement(walk[k - 1].t, c, signature[k], lucky), c)
    BY <1>2, <1>6, ElementKeeps
  <2>3. Kept(walk[k - 1].t, walk[k - 1], c)
    BY <1>6, StaysKept
  <2> QED BY <2>1, <2>2, <2>3, Zenon
<1> HIDE DEF m, r
<1>7. \A k \in 0 .. m : Kept(t, walk[k], c)
  BY <1>2, <1>5, <1>6, WalkKeeps
<1>8. Kept(t, walk[1], c) /\ Kept(t, walk[m], c)
  BY <1>2, <1>7
<1>9. Kept(t, Fail(walk[1].t), c)
  BY <1>8, FailKeeps
<1>10. Kept(t, r, c)
  BY <1>3, <1>8, <1>9, Zenon
<1> QED BY <1>10 DEF r
----------------------------------------------------------------------------
(* The calls.                                                               *)

(* Tables u are tables t but for what is written of one target.             *)
TargetWritten(t, u) ==
    \E g \in Targets : \A i \in Images \ {g.module} : \A n \in Names4 :
        u[i][n] = t[i][n] \/ (i = g.assembly /\ n = "AssemblyRef")

LEMMA CallWrites ==
    ASSUME NEW t, NEW c \in Calls, NEW r, Kept(t, r, c)
    PROVE  Sound(r.t) /\ TargetWritten(t, r.t)
<1>1. PICK g \in Targets : c.ta = g.assembly /\ c.tm = g.module
  BY DEF Calls
<1> QED BY <1>1 DEF Kept, StepsTo, Writes, TargetWritten

LEMMA InitSound ==
    ASSUME Init
    PROVE  Sound(tables)
<1>1. tables = Loaded
  BY DEF Init
<1>2. ASSUME NEW i \in Images, NEW n \in Names4 PROVE IsSequence(Loaded[i][n])
  BY LoadedAssumption DEF Names4, IsSequence
<1>3. IsTables(Loaded)
  BY <1>2, LoadedAssumption, ImagesAssumption DEF IsTables, Names4
<1>4. ASSUME NEW i \in Images
      PROVE  /\ \A n \in Names4 : Grows(Loaded[i][n], Loaded[i][n])
             /\ \A r \in DOMAIN Loaded[i].AssemblyRef : WellKeyed(Loaded[i].AssemblyRef[r])
             /\ \A r \in DOMAIN Loaded[i].TypeRef : RowFits(Loaded, i, Loaded[i].TypeRef[r])
             /\ \A r \in DOMAIN Loaded[i].TypeRef :
                   r > Len(Loaded[i].TypeRef) => Loaded[i].TypeRef[r].scope[1] # "TypeRef"
  <2>1. \A n \in Names4 : Grows(Loaded[i][n], Loaded[i][n])
    BY <1>2, GrowsReflexive
  <2>2. \A r \in DOMAIN Loaded[i].AssemblyRef : WellKeyed(Loaded[i].AssemblyRef[r])
    BY LoadedAssumption
  <2>3. \A r \in DOMAIN Loaded[i].TypeRef : RowFits(Loaded, i, Loaded[i].TypeRef[r])
    BY LoadedAssumption DEF RowFits
  <2>4. ASSUME NEW r \in DOMAIN Loaded[i].TypeRef PROVE ~(r > Len(Loaded[i].TypeRef))
    <3>1. IsSequence(Loaded[i].TypeRef)
      BY <1>2 DEF Names4
    <3> QED BY <3>1, SequenceFacts
  <2> QED BY <2>1, <2>2, <2>3, <2>4
<1> QED BY <1>1, <1>3, <1>4 DEF Sound

LEMMA NextSound ==
    ASSUME Sound(tables), Next
    PROVE  Sound(tables') /\ TargetWritten(tables, tables')
<1>1. ASSUME NEW c \in Calls, DefineImportType(c)
      PROVE  Sound(tables') /\ TargetWritten(tables, tables')
  <2>1. PICK row \in 1 .. TypeDefs[c.sm], lucky \in Lucky(c) :
           tables' = ImportReferenceToTypeDef(tables, c, <<"TypeDef", row>>, FALSE, lucky).t
    BY <1>1 DEF DefineImportType
  <2> QED BY <2>1, TypeDefKeeps, CallWrites
<1>2. ASSUME NEW c \in Calls, TranslateSigWithScope(c)
      PROVE  Sound(tables') /\ TargetWritten(tables, tables')
  <2>1. PICK signature \in Signatures[c.sm], garbage \in BOOLEAN, lucky \in Lucky(c) :
           tables' = ImportSignatureIntoModule(tables, c, signature, garbage, lucky).t
    BY <1>2 DEF TranslateSigWithScope
  <2> QED BY <2>1, SignatureKeeps, CallWrites
<1>3. ASSUME NEW g \in Targets, DefineTypeRefByName(g.module)
      PROVE  Sound(tables') /\ TargetWritten(tables, tables')
  <2> DEFINE i == g.module
             c == [ta |-> i, tm |-> i]
  <2>1. i \in Images
    BY ImagesAssumption
  <2>2. PICK scope \in {NoToken, <<"Module", 1>>} \cup {<<"AssemblyRef", r>> : r \in DOMAIN tables[i].AssemblyRef} :
           tables' = Add(tables, i, "TypeRef", [scope |-> scope, name |-> "defined"])
    BY <1>3 DEF DefineTypeRefByName
  <2> DEFINE row == [scope |-> scope, name |-> "defined"]
  <2>3. ScopeIn(tables, i, scope) /\ scope[1] # "TypeRef"
    BY <2>2 DEF ScopeIn, NoToken
  <2>4. row.scope = scope /\ "of" \notin DOMAIN row
    OBVIOUS
  <2>5. c.ta = i /\ c.tm = i
    OBVIOUS
  <2> HIDE DEF row, i, c
  <2>6. MayAppend(tables, i, "TypeRef", row) /\ "TypeRef" \in Names4 /\ Writes(c, i, "TypeRef")
    BY <2>3, <2>4, <2>5 DEF MayAppend, RowFits, Names4, Writes
  <2>7. Sound(Add(tables, i, "TypeRef", row)) /\ StepsTo(tables, Add(tables, i, "TypeRef", row), c)
    BY <2>1, <2>6, AddSound
  <2>8. Sound(tables') /\ StepsTo(tables, tables', c)
    BY <2>2, <2>7 DEF row
  <2> QED BY <2>5, <2>8 DEF StepsTo, Writes, TargetWritten, i
<1> QED BY <1>1, <1>2, <1>3 DEF Next

(* The tables are always sound.                                             *)
IInv == Sound(tables)

THEOREM AlwaysSound == Spec => []IInv
<1>1. Init => IInv
  BY InitSound DEF IInv
<1>2. IInv /\ [Next]_vars => IInv'
  <2>1. CASE Next
    BY <2>1, NextSound DEF IInv
  <2>2. CASE UNCHANGED vars
    BY <2>2 DEF vars, IInv
  <2> QED BY <2>1, <2>2
<1> QED BY <1>1, <1>2, PTL DEF Spec

LEMMA SoundNames ==
    ASSUME IInv
    PROVE  ScopeNamesSameAssembly /\ ManifestKnowsReferences
<1>1. ASSUME NEW i \in Images, NEW r \in Imported(i),
             tables[i].TypeRef[r].scope[1] = "AssemblyRef"
      PROVE  LET row == tables[i].TypeRef[r]
             IN  /\ Names(tables[i].AssemblyRef[row.scope[2]], Wanted(row.of))
                 /\ \E k \in DOMAIN tables[row.of.from.ta].AssemblyRef :
                       Names(tables[row.of.from.ta].AssemblyRef[k], Wanted(row.of))
  <2> DEFINE row == tables[i].TypeRef[r]
  <2>1. r \in DOMAIN tables[i].TypeRef /\ "of" \in DOMAIN row
    BY <1>1 DEF Imported
  <2>2. ImportedFits(tables, i, row.of, row.scope)
    BY <2>1 DEF IInv, Sound, RowFits
  <2>3. WantedIn(tables, row.of) = Wanted(row.of)
    BY DEF WantedIn, Wanted
  <2>4. row.of.from.tm = i /\ row.scope[1] = "AssemblyRef"
    BY <1>1, <2>2 DEF ImportedFits
  <2>5. /\ Refers(tables, i, row.scope[2], Wanted(row.of))
        /\ \E k \in Nat : Refers(tables, row.of.from.ta, k, Wanted(row.of))
    BY <2>2, <2>3, <2>4 DEF ImportedFits, Serves
  <2> QED BY <2>5 DEF Refers
<1> QED BY <1>1 DEF ScopeNamesSameAssembly, ManifestKnowsReferences

(* The scope an imported type is given names the assembly the type has in   *)
(* the source, whatever failed imports have left behind: the first match of *)
(* FindAssemblyRef may be any row that agrees in name, version and key.     *)
THEOREM ScopeAlwaysNamesSameAssembly == Spec => []ScopeNamesSameAssembly
BY AlwaysSound, SoundNames, PTL

(* The assembly of a netmodule always has a reference to whatever assembly  *)
(* an imported type of the netmodule refers to.                             *)
THEOREM ManifestAlwaysKnowsReferences == Spec => []ManifestKnowsReferences
BY AlwaysSound, SoundNames, PTL

(* A call writes its target module and, of no other image, more than the    *)
(* assembly references of the target's assembly, whatever is imported and   *)
(* wherever the import fails: what the lock of the target module leaves     *)
(* open is these references.                                                *)
THEOREM ImportsAlwaysWriteTargets == Spec => ImportsWriteTargets
<1> DEFINE Written ==
               \E g \in Targets : \A i \in Images \ {g.module} : \A table \in DOMAIN Loaded[i] :
                  \/ tables'[i][table] = tables[i][table]
                  \/ i = g.assembly /\ table = "AssemblyRef"
<1>1. IInv /\ [Next]_vars => [Written]_vars
  <2> SUFFICES ASSUME Sound(tables), Next PROVE Written
    BY DEF IInv
  <2>1. \A i \in Images : DOMAIN Loaded[i] = Names4
    BY LoadedAssumption DEF Names4
  <2> QED BY <2>1, NextSound DEF TargetWritten
<1>2. Spec => []IInv /\ [][Next]_vars
  BY AlwaysSound DEF Spec
<1> QED BY <1>1, <1>2, PTL DEF ImportsWriteTargets
=============================================================================
