--------------------------- MODULE HCorEnumProofs ---------------------------
(***************************************************************************)
(* Enumerations of any length, read in chunks of any size.  First the      *)
(* cursors of ranges and the counts of the rows read, which are moved apart *)
(* from each other; then the order in which a chain of segments is read;    *)
(* then that the chain implements a sequence (TokenStream).                 *)
(*                                                                         *)
(* The position in the chain is a sum over its segments.  What the running  *)
(* sums do is proved from the equation of the recursive function Sums, by   *)
(* induction on an interval.  Of TableSearchProofs only the first part is   *)
(* used.                                                                    *)
(***************************************************************************)
EXTENDS HCorEnum, TableSearchProofs

(* Ranges of rows hold single rows and are complete when they are made, and *)
(* only segments that exist are null.                                       *)
EInv ==
    /\ total \in Seq(Nat)
    /\ null \subseteq Segments
    /\ type = "table" => entrySpan = 1 /\ ~building
    /\ CursorsAgree

(* The walk of Reset ends at a segment or behind the last.                  *)
LEMMA StopsAtSegment ==
    ASSUME total \in Seq(Nat), null \subseteq Segments, NEW p
    PROVE  StopsAt(p) \in Nat
<1> DEFINE stops == {s \in null : Before(s) <= p}
<1>1. Len(total) \in Nat
  OBVIOUS
<1>2. stops \subseteq Nat
  BY 1 .. Len(total) \subseteq Nat, Zenon DEF Segments
<1>3. CASE stops = {}
  BY <1>1, <1>3 DEF StopsAt
<1>4. CASE stops # {}
  <2>1. Min(stops) \in stops
    BY <1>2, <1>4, MinIsMember, Zenon
  <2> QED BY <1>2, <1>4, <2>1 DEF StopsAt
<1> QED BY <1>3, <1>4

(* The last page takes one more token.                                      *)
LEMMA LastBumped ==
    ASSUME NEW s, s \in Seq(Nat)
    PROVE  LET t == [s EXCEPT ![Len(s)] = s[Len(s)] + 1]
           IN  t \in Seq(Nat) /\ Len(s) <= Len(t)
<1> DEFINE t == [s EXCEPT ![Len(s)] = s[Len(s)] + 1]
<1>1. Len(s) \in Nat /\ s \in [1 .. Len(s) -> Nat]
  OBVIOUS
<1>2. DOMAIN t = 1 .. Len(s)
  BY <1>1
<1>3. ASSUME NEW i \in 1 .. Len(s) PROVE t[i] \in Nat
  <2>1. s[i] \in Nat
    BY <1>1, Zenon
  <2>2. t[i] = IF i = Len(s) THEN s[Len(s)] + 1 ELSE s[i]
    BY <1>1
  <2> HIDE DEF t
  <2> QED BY <2>1, <2>2
<1>4. t = [i \in 1 .. Len(s) |-> t[i]]
  BY <1>2, Zenon
<1>5. t \in [1 .. Len(s) -> Nat]
  <2> HIDE DEF t
  <2> QED BY <1>3, <1>4
<1>6. t \in Seq(Nat) /\ Len(t) = Len(s)
  <2> HIDE DEF t
  <2> QED BY <1>1, <1>5, SMTT(60)
<1> QED BY <1>1, <1>6

LEMMA EInit == Init => EInv
<1> SUFFICES ASSUME Init PROVE EInv
  OBVIOUS
<1>1. CASE CreateTableEnum
  <2>1. PICK n \in 1 .. MaxLists : total \in [1 .. n -> 0 .. MaxRows]
    BY <1>1 DEF CreateTableEnum
  <2>2. total \in Seq(Nat)
    BY <2>1, SizeAssumption DEF SizeAssumption
  <2> QED BY <1>1, <2>2 DEF Init, EInv, CursorsAgree, CreateTableEnum
<1>2. CASE CreateDynamicEnum
  BY <1>2 DEF Init, EInv, CursorsAgree, CreateDynamicEnum
<1> QED BY <1>1, <1>2 DEF Init

LEMMA EStep == EInv /\ [Next]_vars => EInv'
<1> SUFFICES ASSUME EInv, [Next]_vars PROVE EInv'
  OBVIOUS
<1> USE DEF EInv, CursorsAgree
<1>1. CASE AddToDynamicEnum
  <2>1. total' \in Seq(Nat) /\ Len(total) <= Len(total')
    <3>1. CASE total[Len(total)] = PageSize
      BY <1>1, <3>1 DEF AddToDynamicEnum
    <3>2. CASE total[Len(total)] # PageSize
      <4>1. total' = [total EXCEPT ![Len(total)] = total[Len(total)] + 1]
        BY <1>1, <3>2 DEF AddToDynamicEnum
      <4> QED BY <4>1, LastBumped
    <3> QED BY <3>1, <3>2
  <2> QED BY <1>1, <2>1 DEF AddToDynamicEnum, Segments
<1>2. CASE HandOut
  BY <1>2 DEF HandOut, Segments
<1>3. ASSUME NEW n \in 0 .. MaxRead, ReadTokens(n) PROVE EInv'
  BY <1>3 DEF ReadTokens, fixed, Segments
<1>4. CASE NextSegment
  BY <1>4 DEF NextSegment, fixed, Segments
<1>5. CASE ReadUnit
  BY <1>5 DEF ReadUnit, fixed, Segments
<1>6. CASE Done
  BY <1>6 DEF Done, fixed, Segments
<1>7. ASSUME NEW p, Reset(p) PROVE EInv'
  <2>1. CursorsAgree'
    <3> SUFFICES ASSUME type = "table" PROVE current' = readIn'
      BY <1>7 DEF Reset, fixed
    <3>1. StopsAt(p) \in Nat
      BY StopsAtSegment
    <3>2. ASSUME NEW s \in Segments, ~(s < StopsAt(p))
          PROVE  current[s] = ReadBefore(p, s)
      BY <3>1, <3>2 DEF ReadBefore, Segments
    <3>3. readIn' = [s \in Segments |-> ReadBefore(p, s)]
      BY <1>7 DEF Reset
    <3>4. current' = [s \in Segments |-> IF s < StopsAt(p) THEN readIn'[s]
                                        ELSE current[s]]
      BY <1>7 DEF Reset
    <3> QED BY <3>2, <3>3, <3>4, Zenon
  <2> QED BY <1>7, <2>1 DEF Reset, fixed, Segments
<1>8. CASE UNCHANGED vars
  BY <1>8 DEF vars, Segments
<1> QED BY <1>1, <1>2, <1>3, <1>4, <1>5, <1>6, <1>7, <1>8 DEF Next, ReadStep

(* No read of one token or of many, and no Reset, not even one that fails   *)
(* halfway, moves the cursor of a range without its count or the other way  *)
(* round.  Positions need not be even.                                      *)
THEOREM CursorsStayTogether == Spec => []CursorsAgree
<1>1. EInv => CursorsAgree
  BY DEF EInv
<1> QED BY EInit, EStep, <1>1, PTL DEF Spec

(* The same of the callers that the other properties are about.             *)
THEOREM EvenCursorsStayTogether == EvenSpec => []CursorsAgree
<1>1. [EvenNext]_vars => [Next]_vars
  BY DEF EvenNext, Next
<1>2. EInv => CursorsAgree
  BY DEF EInv
<1> QED BY EInit, EStep, <1>1, <1>2, PTL DEF EvenSpec

----------------------------------------------------------------------------
(* The running sums of a chain of segments.                                 *)

IsSums(f, counts) ==
    /\ f \in [1 .. Len(counts) + 1 -> Nat]
    /\ f[1] = 0
    /\ \A s \in 1 .. Len(counts) : f[s + 1] = f[s] + counts[s]

(* The equation of the recursive function that Sums is.                     *)
SolvesSums(f, counts) ==
    f = [s \in 1 .. Len(counts) + 1 |->
            IF s = 1 THEN 0 ELSE f[s - 1] + counts[s - 1]]

LEMMA SumsExist ==
    ASSUME NEW counts \in Seq(Nat)
    PROVE  \E f : IsSums(f, counts)
<1> DEFINE n == Len(counts)
           Upto(f, k) == /\ f \in [1 .. k + 1 -> Nat] /\ f[1] = 0
                         /\ \A s \in 1 .. k : f[s + 1] = f[s] + counts[s]
           G == {k \in 0 .. n : \E f : Upto(f, k)}
<1>1. n \in Nat /\ \A s \in 1 .. n : counts[s] \in Nat
  OBVIOUS
<1> HIDE DEF n
<1>2. 0 \in G
  <2> DEFINE f == [s \in 1 .. 0 + 1 |-> 0]
  <2>1. Upto(f, 0)
    OBVIOUS
  <2>2. \E g : Upto(g, 0)
    <3> HIDE DEF f, Upto
    <3> QED BY <2>1
  <2> HIDE DEF Upto
  <2> QED BY <1>1, <2>2
<1>3. ASSUME NEW k \in 0 .. n - 1, k \in G PROVE k + 1 \in G
  <2>1. PICK g : Upto(g, k)
    BY <1>3
  <2> DEFINE f == [s \in 1 .. (k + 1) + 1 |->
                      IF s = k + 2 THEN g[k + 1] + counts[k + 1] ELSE g[s]]
  <2>2. k \in Nat /\ k + 1 \in 1 .. n /\ counts[k + 1] \in Nat /\ g[k + 1] \in Nat
        /\ k + 1 \in 0 .. n
    BY <1>1, <2>1
  <2>3. \A s \in 1 .. (k + 1) + 1 :
           /\ f[s] = IF s = k + 2 THEN g[k + 1] + counts[k + 1] ELSE g[s]
           /\ s # k + 2 => g[s] \in Nat
    BY <2>1, <2>2
  <2>4. f \in [1 .. (k + 1) + 1 -> Nat]
    BY <2>2, <2>3
  <2> HIDE DEF f
  <2>5. f[1] = 0
    BY <2>1, <2>2, <2>3
  <2>6. ASSUME NEW s \in 1 .. k + 1 PROVE f[s + 1] = f[s] + counts[s]
    <3>1. s + 1 \in 1 .. (k + 1) + 1 /\ s \in 1 .. (k + 1) + 1 /\ s # k + 2
      BY <2>2
    <3>2. CASE s = k + 1
      BY <2>3, <3>1, <3>2
    <3>3. CASE s # k + 1
      <4>1. s \in 1 .. k /\ s + 1 # k + 2
        BY <2>2, <3>3
      <4> QED BY <2>1, <2>3, <3>1, <4>1
    <3> QED BY <3>2, <3>3
  <2>7. Upto(f, k + 1)
    BY <2>4, <2>5, <2>6
  <2> HIDE DEF Upto
  <2> QED BY <2>2, <2>7
<1>4. \A k \in 0 .. n : k \in G
  <2> HIDE DEF G
  <2> QED BY <1>1, <1>2, <1>3, IntervalInduction
<1>5. n \in G
  <2> HIDE DEF G
  <2> QED BY <1>1, <1>4
<1>6. PICK f : Upto(f, n)
  BY <1>5
<1>7. IsSums(f, counts)
  BY <1>6 DEF IsSums, n
<1> QED BY <1>7

LEMMA SumsAddUp ==
    ASSUME NEW counts \in Seq(Nat)
    PROVE  IsSums(Sums(counts), counts)
<1> DEFINE n == Len(counts)
<1>1. n \in Nat /\ \A s \in 1 .. n : counts[s] \in Nat
  OBVIOUS
<1>2. PICK g : IsSums(g, counts)
  BY SumsExist
<1>3. SolvesSums(g, counts)
  <2>1. g \in [1 .. n + 1 -> Nat]
    BY <1>2 DEF IsSums
  <2>2. ASSUME NEW s \in 1 .. n + 1
        PROVE  g[s] = IF s = 1 THEN 0 ELSE g[s - 1] + counts[s - 1]
    <3>1. CASE s = 1
      BY <1>2, <3>1 DEF IsSums
    <3>2. CASE s # 1
      <4>1. s - 1 \in 1 .. n /\ (s - 1) + 1 = s
        BY <1>1, <3>2
      <4> QED BY <1>2, <3>2, <4>1 DEF IsSums
    <3> QED BY <3>1, <3>2
  <2> QED BY <2>1, <2>2 DEF SolvesSums
<1>4. Sums(counts) = CHOOSE f : SolvesSums(f, counts)
  BY DEF Sums, SolvesSums
<1>5. SolvesSums(Sums(counts), counts)
  BY <1>3, <1>4
<1> DEFINE f == Sums(counts)
<1>6. \A s \in 1 .. n + 1 : f[s] = IF s = 1 THEN 0 ELSE f[s - 1] + counts[s - 1]
  BY <1>5 DEF SolvesSums
<1>7. f = [s \in 1 .. n + 1 |-> f[s]]
  BY <1>5 DEF SolvesSums
<1> HIDE DEF f
<1>8. f[1] = 0
  BY <1>1, <1>6
<1>9. ASSUME NEW s \in 1 .. n PROVE f[s + 1] = f[s] + counts[s]
  <2>1. s + 1 \in 1 .. n + 1 /\ s + 1 # 1 /\ (s + 1) - 1 = s
    BY <1>1
  <2> QED BY <1>6, <2>1
<1>10. \A k \in 0 .. n : k \in {i \in 0 .. n : f[i + 1] \in Nat}
  <2> DEFINE G == {k \in 0 .. n : f[k + 1] \in Nat}
  <2>1. 0 \in G
    BY <1>1, <1>8
  <2>2. ASSUME NEW k \in 0 .. n - 1, k \in G PROVE k + 1 \in G
    <3>1. k + 1 \in 1 .. n /\ k + 1 \in 0 .. n /\ f[k + 1] \in Nat
          /\ counts[k + 1] \in Nat
      BY <1>1, <2>2
    <3> QED BY <1>9, <3>1
  <2>3. \A k \in 0 .. n : k \in G
    <3> HIDE DEF G
    <3> QED BY <1>1, <2>1, <2>2, IntervalInduction
  <2> QED BY <2>3
<1>11. \A s \in 1 .. n + 1 : f[s] \in Nat
  <2> SUFFICES ASSUME NEW s \in 1 .. n + 1 PROVE f[s] \in Nat
    OBVIOUS
  <2>1. s - 1 \in 0 .. n /\ (s - 1) + 1 = s
    BY <1>1
  <2> QED BY <1>10, <2>1
<1>12. f \in [1 .. n + 1 -> Nat]
  BY <1>7, <1>11
<1> QED BY <1>8, <1>9, <1>12 DEF IsSums, f

LEMMA SumsValues ==
    ASSUME NEW c \in Seq(Nat), NEW f, IsSums(f, c)
    PROVE  /\ Len(c) \in Nat /\ f[1] = 0
           /\ \A s \in 1 .. Len(c) : c[s] \in Nat
           /\ \A s \in 1 .. Len(c) + 1 : f[s] \in Nat
           /\ \A s \in 1 .. Len(c) : f[s + 1] = f[s] + c[s]
<1>1. Len(c) \in Nat /\ \A s \in 1 .. Len(c) : c[s] \in Nat
  OBVIOUS
<1> QED BY <1>1 DEF IsSums

(* A run of segments that hold no more than others do sums up to no more.   *)
LEMMA SumsCompare ==
    ASSUME NEW c \in Seq(Nat), NEW d \in Seq(Nat), NEW f, NEW g,
           IsSums(f, c), IsSums(g, d),
           NEW a \in Nat, NEW b \in Nat, 1 <= a, a <= b,
           b <= Len(c) + 1, b <= Len(d) + 1,
           \A s \in a .. b - 1 : c[s] <= d[s]
    PROVE  f[b] + g[a] <= g[b] + f[a]
<1> DEFINE m == Len(c)
           n == Len(d)
           G == {k \in 0 .. b - a : f[a + k] + g[a] <= g[a + k] + f[a]}
<1>1. /\ m \in Nat /\ n \in Nat
      /\ \A s \in 1 .. m : c[s] \in Nat
      /\ \A s \in 1 .. n : d[s] \in Nat
      /\ \A s \in 1 .. m + 1 : f[s] \in Nat
      /\ \A s \in 1 .. n + 1 : g[s] \in Nat
      /\ \A s \in 1 .. m : f[s + 1] = f[s] + c[s]
      /\ \A s \in 1 .. n : g[s + 1] = g[s] + d[s]
  BY SumsValues
<1> HIDE DEF m, n
<1>2. b <= m + 1 /\ b <= n + 1 /\ b - a \in Nat
  BY DEF m, n
<1>3. f[a] \in Nat /\ g[a] \in Nat
  BY <1>1, <1>2
<1>4. 0 \in G
  <2>1. a + 0 = a
    OBVIOUS
  <2>2. f[a + 0] + g[a] <= g[a + 0] + f[a]
    BY <1>3, <2>1
  <2> QED BY <1>2, <2>2
<1>5. ASSUME NEW k \in 0 .. (b - a) - 1, k \in G PROVE k + 1 \in G
  <2> DEFINE x == a + k
  <2>1. /\ x \in 1 .. m /\ x \in 1 .. n /\ x \in a .. b - 1 /\ a + (k + 1) = x + 1
        /\ k + 1 \in 0 .. b - a /\ x \in 1 .. m + 1 /\ x \in 1 .. n + 1
    <3>1. k \in Nat /\ k + 1 <= b - a
      BY <1>2
    <3> QED BY <1>1, <1>2, <3>1
  <2>2. f[x] + g[a] <= g[x] + f[a]
    BY <1>5
  <2> HIDE DEF x
  <2>3. /\ f[x] \in Nat /\ g[x] \in Nat /\ c[x] \in Nat /\ d[x] \in Nat /\ c[x] <= d[x]
        /\ f[x + 1] = f[x] + c[x] /\ g[x + 1] = g[x] + d[x]
    BY <1>1, <2>1
  <2>4. f[x + 1] + g[a] <= g[x + 1] + f[a]
    <3>1. \A u, v, w, z, s, t \in Nat :
             u + s <= v + t /\ w <= z => (u + w) + s <= (v + z) + t
      OBVIOUS
    <3>2. (f[x] + c[x]) + g[a] <= (g[x] + d[x]) + f[a]
      BY <1>3, <2>2, <2>3, <3>1, Zenon
    <3> QED BY <2>3, <3>2, Zenon
  <2> QED BY <2>1, <2>4
<1>6. \A k \in 0 .. b - a : k \in G
  <2> HIDE DEF G
  <2> QED BY <1>2, <1>4, <1>5, IntervalInduction
<1>7. b - a \in G /\ a + (b - a) = b
  <2> HIDE DEF G
  <2> QED BY <1>2, <1>6
<1> QED BY <1>7

(* Segments that hold the same sum up to the same.                          *)
LEMMA SumsAgree ==
    ASSUME NEW c \in Seq(Nat), NEW d \in Seq(Nat), NEW f, NEW g,
           IsSums(f, c), IsSums(g, d),
           NEW b \in Nat, 1 <= b, b <= Len(c) + 1, b <= Len(d) + 1,
           \A s \in 1 .. b - 1 : c[s] = d[s]
    PROVE  f[b] = g[b]
<1>1. \A s \in 1 .. b - 1 : c[s] \in Nat /\ d[s] \in Nat
  OBVIOUS
<1>2. \A s \in 1 .. b - 1 : c[s] <= d[s] /\ d[s] <= c[s]
  BY <1>1
<1>3. f[b] + g[1] <= g[b] + f[1]
  BY <1>2, SumsCompare
<1>4. g[b] + f[1] <= f[b] + g[1]
  BY <1>2, SumsCompare
<1>5. f[1] = 0 /\ g[1] = 0 /\ f[b] \in Nat /\ g[b] \in Nat
  <2>1. b \in 1 .. Len(c) + 1 /\ b \in 1 .. Len(d) + 1
    OBVIOUS
  <2> QED BY <2>1 DEF IsSums
<1> QED BY <1>3, <1>4, <1>5

(* Sums ascend, by nothing over segments that hold nothing.                 *)
LEMMA SumsAscend ==
    ASSUME NEW c \in Seq(Nat), NEW f, IsSums(f, c),
           NEW a \in Nat, NEW b \in Nat, 1 <= a, a <= b, b <= Len(c) + 1
    PROVE  /\ f[a] <= f[b]
           /\ (\A s \in a .. b - 1 : c[s] = 0) => f[a] = f[b]
<1> DEFINE n == Len(c)
           z == [s \in 1 .. n |-> 0]
           o == [s \in 1 .. n + 1 |-> 0]
<1>1. n \in Nat /\ \A s \in 1 .. n : c[s] \in Nat
  OBVIOUS
<1>2. z \in Seq(Nat) /\ Len(z) = n
  <2>1. z \in [1 .. n -> Nat]
    OBVIOUS
  <2> HIDE DEF z
  <2> QED BY <1>1, <2>1, FunctionIsSequence
<1>3. IsSums(o, z)
  <2>1. /\ o \in [1 .. n + 1 -> Nat] /\ o[1] = 0
        /\ \A s \in 1 .. n : o[s + 1] = o[s] + z[s]
    BY <1>1
  <2> HIDE DEF o, z, n
  <2> QED BY <1>2, <2>1 DEF IsSums
<1>4. /\ \A s \in a .. b - 1 : z[s] = 0 /\ z[s] <= c[s]
      /\ a \in 1 .. n + 1 /\ b \in 1 .. n + 1
  <2>1. \A s \in a .. b - 1 : s \in 1 .. n
    BY <1>1
  <2> QED BY <1>1, <2>1
<1>5. o[a] = 0 /\ o[b] = 0 /\ f[a] \in Nat /\ f[b] \in Nat
  BY <1>4 DEF IsSums
<1>6. o[b] + f[a] <= f[b] + o[a]
  <2> HIDE DEF o, z, n
  <2>1. b <= Len(z) + 1
    BY <1>2 DEF n
  <2> QED BY <1>2, <1>3, <1>4, <2>1, SumsCompare
<1>7. ASSUME \A s \in a .. b - 1 : c[s] = 0 PROVE f[b] + o[a] <= o[b] + f[a]
  <2> HIDE DEF o, z, n
  <2>1. b <= Len(z) + 1 /\ \A s \in a .. b - 1 : c[s] <= z[s]
    BY <1>2, <1>4, <1>7 DEF n
  <2> QED BY <1>2, <1>3, <2>1, SumsCompare
<1> HIDE DEF o
<1>8. f[a] <= f[b]
  BY <1>5, <1>6
<1>9. ASSUME \A s \in a .. b - 1 : c[s] = 0 PROVE f[a] = f[b]
  <2>1. f[b] + o[a] <= o[b] + f[a]
    BY <1>7, <1>9
  <2> QED BY <1>5, <1>6, <2>1
<1> QED BY <1>8, <1>9

(* A position in front of the end of the chain is in one of its segments.   *)
LEMMA SumsHold ==
    ASSUME NEW c \in Seq(Nat), NEW f, IsSums(f, c),
           NEW p \in Nat, p < f[Len(c) + 1]
    PROVE  \E s \in 1 .. Len(c) : f[s] <= p /\ p < f[s] + c[s]
<1> DEFINE n == Len(c)
           T == {s \in 1 .. n : p < f[s + 1]}
<1>1. /\ n \in Nat
      /\ \A s \in 1 .. n : c[s] \in Nat
      /\ \A s \in 1 .. n + 1 : f[s] \in Nat
      /\ f[1] = 0 /\ p < f[n + 1]
      /\ \A s \in 1 .. n : f[s + 1] = f[s] + c[s]
  BY SumsValues
<1> SUFFICES \E s \in 1 .. n : f[s] <= p /\ p < f[s] + c[s]
  OBVIOUS
<1> HIDE DEF n
<1>2. n # 0
  BY <1>1
<1>3. T \subseteq Nat /\ n \in T
  BY <1>1, <1>2
<1>4. T # {}
  BY <1>3
<1>5. Min(T) \in T /\ \A y \in T : Min(T) <= y
  <2> HIDE DEF T
  <2> QED BY <1>3, <1>4, MinIsMember
<1> DEFINE s == Min(T)
<1>6. s \in 1 .. n /\ p < f[s + 1] /\ \A y \in T : s <= y
  BY <1>5
<1> HIDE DEF s
<1>7. f[s] <= p
  <2>1. CASE s = 1
    BY <1>1, <2>1
  <2>2. CASE s # 1
    <3>1. s - 1 \in 1 .. n /\ ~(s <= s - 1) /\ (s - 1) + 1 = s /\ s \in 1 .. n + 1
      BY <1>1, <1>6, <2>2
    <3>2. ~(p < f[(s - 1) + 1])
      BY <1>6, <3>1
    <3> QED BY <1>1, <3>1, <3>2
  <2> QED BY <2>1, <2>2
<1>8. p < f[s] + c[s]
  BY <1>1, <1>6
<1> QED BY <1>6, <1>7, <1>8

----------------------------------------------------------------------------
(* The order in which a chain is read.                                      *)

(* The shape of a chain.  A range may be null only when it is empty.        *)
Chain ==
    /\ Len(total) > 0 /\ curr \in Segments
    /\ readIn \in Seq(Nat) /\ Len(readIn) = Len(total)
    /\ \A s \in Segments : readIn[s] <= total[s]
    /\ type \in {"table", "dynamic"} /\ entrySpan \in {1, 2}
    /\ type = "table" => Len(total) <= MaxLists
    /\ \A s \in null : total[s] = 0
    /\ type = "dynamic" => null = {}

(* Nothing is read before the enumeration is handed out, nor between calls. *)
Fresh ==
    building => /\ curr = 1 /\ ~reading /\ chunk = << >>
                /\ \A s \in Segments : readIn[s] = 0

Call == left \in Nat /\ (~reading => left = 0)

OInv == EInv /\ Chain /\ Fresh /\ Call /\ ReadInOrder

LEMMA BeforeIsSum ==
    ASSUME total \in Seq(Nat)
    PROVE  /\ IsSums(Sums(total), total)
           /\ \A s : Before(s) = Sums(total)[s]
BY SumsAddUp DEF Before

LEMMA BeforeValues ==
    ASSUME total \in Seq(Nat)
    PROVE  /\ Len(total) \in Nat /\ Before(1) = 0
           /\ \A s \in 1 .. Len(total) : total[s] \in Nat
           /\ \A s \in 1 .. Len(total) + 1 : Before(s) \in Nat
           /\ \A s \in 1 .. Len(total) : Before(s + 1) = Before(s) + total[s]
           /\ SumOf(total) = Before(Len(total) + 1)
<1> DEFINE f == Sums(total)
<1>1. IsSums(f, total) /\ \A s : Before(s) = f[s]
  BY BeforeIsSum
<1>2. SumOf(total) = f[Len(total) + 1]
  BY DEF SumOf
<1> HIDE DEF f
<1> QED BY <1>1, <1>2, SumsValues

LEMMA StopsAtNull ==
    ASSUME total \in Seq(Nat), null \subseteq Segments, NEW p
    PROVE  \/ StopsAt(p) = Len(total) + 1
           \/ StopsAt(p) \in null /\ Before(StopsAt(p)) <= p
<1> DEFINE stops == {s \in null : Before(s) <= p}
<1>1. Len(total) \in Nat
  OBVIOUS
<1>2. stops \subseteq Nat
  BY 1 .. Len(total) \subseteq Nat, Zenon DEF Segments
<1>3. CASE stops = {}
  BY <1>3 DEF StopsAt
<1>4. CASE stops # {}
  <2>1. Min(stops) \in stops
    BY <1>2, <1>4, MinIsMember, Zenon
  <2>2. StopsAt(p) = Min(stops)
    BY <1>4 DEF StopsAt
  <2> HIDE DEF StopsAt
  <2> QED BY <2>1, <2>2
<1> QED BY <1>3, <1>4

(* Where the walk of Reset leaves a segment, by where p is.                 *)
LEMMA ReadBeforeCases ==
    ASSUME OInv, NEW p \in Nat, NEW s \in Segments
    PROVE  /\ ReadBefore(p, s) \in Nat /\ ReadBefore(p, s) <= total[s]
           /\ s >= StopsAt(p) => ReadBefore(p, s) = readIn[s]
           /\ s < StopsAt(p) /\ Before(s) + total[s] <= p => ReadBefore(p, s) = total[s]
           /\ s < StopsAt(p) /\ p < Before(s) => ReadBefore(p, s) = 0
           /\ s < StopsAt(p) /\ Before(s) <= p /\ p < Before(s) + total[s] =>
                 ReadBefore(p, s) = p - Before(s)
<1>1. StopsAt(p) \in Nat
  BY StopsAtSegment DEF OInv, EInv
<1>2. total \in Seq(Nat) /\ readIn \in Seq(Nat) /\ Len(readIn) = Len(total)
  BY DEF OInv, EInv, Chain
<1>3. s \in 1 .. Len(total) /\ s \in Nat /\ total[s] \in Nat /\ readIn[s] \in Nat
      /\ readIn[s] <= total[s]
  BY <1>2 DEF OInv, EInv, Chain, Segments
<1>4. Before(s) \in Nat
  <2>1. s \in 1 .. Len(total) + 1
    BY <1>3
  <2> QED BY <1>2, <2>1, BeforeValues
<1> HIDE DEF StopsAt, Before
<1> QED BY <1>1, <1>3, <1>4 DEF ReadBefore

(* What Reset does to the counts.                                           *)
LEMMA ResetReads ==
    ASSUME OInv, NEW p \in Nat, Reset(p)
    PROVE  /\ readIn' \in Seq(Nat) /\ Len(readIn') = Len(total)
           /\ \A s \in Segments : readIn'[s] = ReadBefore(p, s) /\ readIn'[s] <= total[s]
<1>1. readIn' = [s \in Segments |-> ReadBefore(p, s)]
  BY DEF Reset
<1>2. \A s \in Segments : ReadBefore(p, s) \in Nat /\ ReadBefore(p, s) <= total[s]
  BY ReadBeforeCases
<1>3. readIn' \in [1 .. Len(total) -> Nat]
  BY <1>1, <1>2 DEF Segments
<1>4. Len(total) \in Nat
  BY DEF OInv, EInv
<1>5. readIn' \in Seq(Nat) /\ Len(readIn') = Len(total)
  BY <1>3, <1>4, FunctionIsSequence
<1> QED BY <1>1, <1>2, <1>5

(* Segments in front of another end where it begins, or before.             *)
LEMMA BeforeAscends ==
    ASSUME total \in Seq(Nat),
           NEW a \in 1 .. Len(total), NEW b \in 1 .. Len(total) + 1, a < b
    PROVE  Before(a) + total[a] <= Before(b)
<1> DEFINE f == Sums(total)
<1>1. IsSums(f, total) /\ Before(a) = f[a] /\ Before(b) = f[b]
  BY BeforeIsSum
<1> HIDE DEF f
<1>2. /\ Len(total) \in Nat /\ f[a + 1] = f[a] + total[a]
      /\ a + 1 \in Nat /\ b \in Nat /\ 1 <= a + 1 /\ a + 1 <= b /\ b <= Len(total) + 1
  BY <1>1, SumsValues
<1>3. f[a + 1] <= f[b]
  BY <1>1, <1>2, SumsAscend
<1> QED BY <1>1, <1>2, <1>3

(* No Reset breaks the order, not even one that fails at a null range, as   *)
(* long as a null range that is not the next one to be read is the last.    *)
LEMMA ResetKeepsOrder ==
    ASSUME OInv, MaxLists <= 3, NEW p \in Nat, Reset(p)
    PROVE  ReadInOrder' /\ curr' \in Segments
<1> DEFINE n == Len(total)
           k == StopsAt(p)
<1>1. /\ n \in Nat /\ Segments = 1 .. n /\ curr \in 1 .. n
      /\ total \in Seq(Nat) /\ null \subseteq 1 .. n
      /\ total' = total
  BY DEF OInv, EInv, Chain, Segments, Reset, fixed
<1>2. /\ \A s \in 1 .. n : total[s] \in Nat /\ readIn[s] \in Nat
      /\ \A s \in 1 .. n : readIn[s] <= total[s]
      /\ \A s \in null : total[s] = 0
  <2>1. readIn \in Seq(Nat) /\ Len(readIn) = n
    BY DEF OInv, Chain
  <2>2. \A s \in 1 .. n : readIn[s] \in Nat
    BY <1>1, <2>1
  <2> QED BY <1>1, <2>2 DEF OInv, Chain
<1>3. \A s \in 1 .. n : Before(s) \in Nat
  BY <1>1, BeforeValues
<1>4. /\ \A s \in 1 .. n : s >= k => readIn'[s] = readIn[s]
      /\ \A s \in 1 .. n : s < k /\ Before(s) + total[s] <= p => readIn'[s] = total[s]
      /\ \A s \in 1 .. n : s < k /\ p < Before(s) => readIn'[s] = 0
  <2>1. \A s \in 1 .. n : readIn'[s] = ReadBefore(p, s)
    BY <1>1, ResetReads
  <2> HIDE DEF k
  <2> QED BY <1>1, <2>1, ReadBeforeCases DEF k
<1>5. ReadInOrder
  BY DEF OInv
<1>6. SUFFICES /\ curr' \in 1 .. n
               /\ \A s \in 1 .. curr' - 1 : readIn'[s] = total[s]
               /\ \/ \A s \in curr' + 1 .. n : readIn'[s] = 0
                  \/ \A s \in 1 .. n : readIn'[s] = total[s]
  BY <1>1 DEF ReadInOrder, Segments
<1>7. CASE k = n + 1 /\ Holders(p) = {}
  <2>1. curr' = curr
    BY <1>7 DEF Reset
  <2>2. ~(p < Before(n + 1))
    <3>1. IsSums(Sums(total), total) /\ \A s : Before(s) = Sums(total)[s]
      BY <1>1, BeforeIsSum
    <3>2. \A s \in 1 .. n : ~(Before(s) <= p /\ p < Before(s) + total[s])
      BY <1>1, <1>7 DEF Holders
    <3> QED BY <1>1, <3>1, <3>2, SumsHold
  <2>3. ASSUME NEW s \in 1 .. n PROVE readIn'[s] = total[s]
    <3>1. Before(s) + total[s] <= Before(n + 1)
      BY <1>1, BeforeAscends
    <3>2. Before(s) + total[s] <= p
      <4>1. Before(n + 1) \in Nat
        BY <1>1, BeforeValues
      <4> HIDE DEF n
      <4> QED BY <1>2, <1>3, <2>2, <3>1, <4>1
    <3> HIDE DEF k, n
    <3> QED BY <1>1, <1>4, <1>7, <3>2
  <2> HIDE DEF n
  <2> QED BY <1>1, <2>1, <2>3
<1>8. CASE k = n + 1 /\ Holders(p) # {}
  <2> DEFINE h == curr'
  <2>1. h \in Holders(p)
    BY <1>1, <1>8 DEF Reset
  <2>2. h \in 1 .. n /\ Before(h) <= p /\ p < Before(h) + total[h]
    BY <1>1, <2>1 DEF Holders
  <2> HIDE DEF h
  <2>3. ASSUME NEW s \in 1 .. h - 1 PROVE readIn'[s] = total[s]
    <3>1. s \in 1 .. n /\ h \in 1 .. n + 1 /\ s < h /\ s < n + 1
      BY <1>1, <2>2
    <3>2. Before(s) + total[s] <= Before(h)
      BY <1>1, <3>1, BeforeAscends
    <3>3. Before(s) + total[s] <= p
      BY <1>2, <1>3, <2>2, <3>1, <3>2
    <3> HIDE DEF k, n
    <3> QED BY <1>4, <1>8, <3>1, <3>3
  <2>4. ASSUME NEW s \in h + 1 .. n PROVE readIn'[s] = 0
    <3>1. s \in 1 .. n /\ s \in 1 .. n + 1 /\ h < s /\ s < n + 1
      BY <1>1, <2>2
    <3>2. Before(h) + total[h] <= Before(s)
      BY <1>1, <2>2, <3>1, BeforeAscends
    <3>3. p < Before(s)
      BY <1>2, <1>3, <2>2, <3>1, <3>2
    <3> HIDE DEF k, n
    <3> QED BY <1>4, <1>8, <3>1, <3>3
  <2> QED BY <2>2, <2>3, <2>4 DEF h
<1>9. CASE k \in null /\ Before(k) <= p
  <2>1. k \in 1 .. n /\ total[k] = 0
    BY <1>1, <1>2, <1>9
  <2>2. curr' = curr
    <3>1. ~(k > n)
      <4> HIDE DEF k, n
      <4> QED BY <1>1, <2>1
    <3> QED BY <3>1 DEF Reset
  <2>3. ASSUME NEW s \in 1 .. n, s < k PROVE readIn'[s] = total[s]
    <3>1. Before(s) + total[s] <= Before(k)
      BY <1>1, <2>1, <2>3, BeforeAscends
    <3> HIDE DEF k, n
    <3> QED BY <1>2, <1>3, <1>4, <1>9, <2>1, <2>3, <3>1
  <2>4. n <= 3
    <3>1. type = "table"
      BY <1>9 DEF OInv, Chain
    <3>2. n <= MaxLists
      BY <3>1 DEF OInv, Chain
    <3> QED BY <1>1, <3>2, SizeAssumption DEF SizeAssumption
  <2>5. readIn[k] = 0
    <3> HIDE DEF k
    <3> QED BY <1>2, <2>1
  <2>6. \A s \in 1 .. curr - 1 : readIn[s] = total[s]
    BY <1>5 DEF ReadInOrder
  <2>7. \/ \A s \in curr + 1 .. n : readIn[s] = 0
        \/ \A s \in 1 .. n : readIn[s] = total[s]
    BY <1>5 DEF ReadInOrder, Segments
  <2> HIDE DEF k, n
  <2>8. \A s \in 1 .. n : s < k \/ s >= k
    BY <1>1, <2>1
  <2>9. \A s \in 1 .. curr - 1 : readIn'[s] = total[s]
    <3>1. \A s \in 1 .. curr - 1 : s \in 1 .. n
      BY <1>1
    <3> QED BY <1>4, <2>3, <2>6, <2>8, <3>1
  <2>10. CASE \A s \in 1 .. n : readIn[s] = total[s]
    BY <1>1, <1>4, <2>2, <2>3, <2>8, <2>9, <2>10
  <2>11. CASE (\A s \in curr + 1 .. n : readIn[s] = 0) /\ k <= curr + 1
    <3>1. \A s \in curr + 1 .. n : s \in 1 .. n /\ s >= k
      BY <1>1, <2>1, <2>11
    <3> QED BY <1>1, <1>4, <2>2, <2>9, <2>11, <3>1
  <2>12. CASE ~(k <= curr + 1)
    <3>1. k = 3 /\ n = 3
      BY <1>1, <2>1, <2>4, <2>12
    <3>2. \A s \in 1 .. n : s < k \/ s = k
      BY <3>1
    <3>3. \A s \in 1 .. n : readIn'[s] = total[s]
      BY <1>4, <2>1, <2>3, <2>5, <2>8, <3>2
    <3> QED BY <1>1, <2>2, <2>9, <3>3
  <2> QED BY <2>7, <2>10, <2>11, <2>12
<1>10. k = n + 1 \/ (k \in null /\ Before(k) <= p)
  BY <1>1, StopsAtNull, Zenon DEF Segments
<1> QED BY <1>7, <1>8, <1>9, <1>10

LEMMA OInit == Init => OInv
<1> SUFFICES ASSUME Init PROVE OInv
  OBVIOUS
<1>1. EInv
  BY EInit
<1>2. Len(total) \in Nat \ {0} /\ Segments = 1 .. Len(total)
  <2>1. CASE CreateTableEnum
    <3>1. PICK n \in 1 .. MaxLists : total \in [1 .. n -> 0 .. MaxRows]
      BY <2>1 DEF CreateTableEnum
    <3>2. n \in Nat \ {0} /\ Len(total) = n
      BY <3>1, SizeAssumption DEF SizeAssumption
    <3> QED BY <3>2 DEF Segments
  <2>2. CASE CreateDynamicEnum
    BY <2>2 DEF CreateDynamicEnum, Segments
  <2> QED BY <2>1, <2>2 DEF Init
<1>3. readIn \in Seq(Nat) /\ Len(readIn) = Len(total)
  <2>1. readIn \in [1 .. Len(total) -> Nat]
    BY <1>2 DEF Init
  <2> QED BY <1>2, <2>1, FunctionIsSequence
<1>4. \A s \in Segments : readIn[s] = 0 /\ total[s] \in Nat
  BY <1>1, <1>2 DEF Init, EInv
<1>5. Chain
  <2>1. \A s \in Segments : readIn[s] <= total[s]
    BY <1>4
  <2>2. Len(total) > 0 /\ curr \in Segments
    BY <1>2 DEF Init
  <2>3. CASE CreateTableEnum
    <3>1. PICK n \in 1 .. MaxLists : total \in [1 .. n -> 0 .. MaxRows]
      BY <2>3 DEF CreateTableEnum
    <3>2. Len(total) <= MaxLists
      BY <3>1, SizeAssumption DEF SizeAssumption
    <3>3. \A s \in null : total[s] = 0
      BY <2>3 DEF CreateTableEnum
    <3> QED BY <1>3, <2>1, <2>2, <2>3, <3>2, <3>3 DEF Chain, CreateTableEnum
  <2>4. CASE CreateDynamicEnum
    BY <1>3, <2>1, <2>2, <2>4 DEF Chain, CreateDynamicEnum
  <2> QED BY <2>3, <2>4 DEF Init
<1>6. Fresh
  BY <1>4 DEF Init, Fresh
<1>7. Call
  BY DEF Init, Call
<1>8. ReadInOrder
  BY <1>2, <1>4 DEF Init, ReadInOrder
<1> QED BY <1>1, <1>5, <1>6, <1>7, <1>8 DEF OInv

(* A token more at the end of the chain.                                    *)
LEMMA AddedToken ==
    ASSUME OInv, AddToDynamicEnum
    PROVE  LET n == Len(total)
           IN  /\ total' \in Seq(Nat) /\ readIn' \in Seq(Nat)
               /\ Len(total') = Len(readIn')
               /\ \A s \in 1 .. n - 1 : total'[s] = total[s]
               /\ \A s \in 1 .. Len(total') : readIn'[s] = 0
               /\ \/ Len(total') = n /\ total'[n] = total[n] + 1
                  \/ Len(total') = n + 1 /\ total'[n] = total[n] /\ total'[n + 1] = 1
<1> DEFINE n == Len(total)
<1>1. /\ total \in Seq(Nat) /\ readIn \in Seq(Nat) /\ n \in Nat \ {0}
      /\ Len(readIn) = n /\ \A s \in 1 .. n : readIn[s] = 0 /\ total[s] \in Nat
  BY DEF OInv, EInv, Chain, Fresh, AddToDynamicEnum, Segments
<1>2. CASE total[n] = PageSize
  <2>1. total' = Append(total, 1) /\ readIn' = Append(readIn, 0)
    BY <1>2 DEF AddToDynamicEnum
  <2>2. /\ Append(total, 1) \in Seq(Nat) /\ Len(Append(total, 1)) = n + 1
        /\ \A s \in 1 .. n : Append(total, 1)[s] = total[s]
        /\ Append(total, 1)[n + 1] = 1
    BY <1>1
  <2>3. /\ Append(readIn, 0) \in Seq(Nat) /\ Len(Append(readIn, 0)) = n + 1
        /\ \A s \in 1 .. n + 1 : Append(readIn, 0)[s] = 0
    BY <1>1
  <2> HIDE DEF n
  <2> QED BY <1>1, <2>1, <2>2, <2>3 DEF n
<1>3. CASE total[n] # PageSize
  <2> DEFINE t == [total EXCEPT ![n] = total[n] + 1]
  <2>1. total' = t /\ readIn' = readIn
    BY <1>3 DEF AddToDynamicEnum
  <2>2. \A s \in 1 .. n : t[s] = (IF s = n THEN total[n] + 1 ELSE total[s]) /\ t[s] \in Nat
    BY <1>1
  <2>3. t \in [1 .. n -> Nat]
    <3>1. DOMAIN t = 1 .. n
      <4>1. DOMAIN total = 1 .. n
        BY <1>1
      <4> QED BY <4>1
    <3>2. t = [s \in 1 .. n |-> t[s]]
      BY <3>1, Zenon
    <3> HIDE DEF t
    <3> QED BY <2>2, <3>2
  <2> HIDE DEF t
  <2>4. t \in Seq(Nat) /\ Len(t) = n
    BY <1>1, <2>3, FunctionIsSequence
  <2>5. /\ \A s \in 1 .. n - 1 : s \in 1 .. n /\ s # n
        /\ n \in 1 .. n
    BY <1>1
  <2> HIDE DEF n
  <2>6. t[n] = total[n] + 1 /\ \A s \in 1 .. n - 1 : t[s] = total[s]
    BY <2>2, <2>5
  <2> QED BY <1>1, <2>1, <2>4, <2>6 DEF n
<1> QED BY <1>2, <1>3

LEMMA OStepAdd == OInv /\ AddToDynamicEnum => (Chain /\ Fresh /\ Call /\ ReadInOrder)'
<1> SUFFICES ASSUME OInv, AddToDynamicEnum
             PROVE  (Chain /\ Fresh /\ Call /\ ReadInOrder)'
  OBVIOUS
<1> DEFINE n == Len(total)
           m == Len(total')
<1>1. /\ total' \in Seq(Nat) /\ readIn' \in Seq(Nat) /\ Len(readIn') = m
      /\ m \in Nat /\ \A s \in 1 .. m : readIn'[s] = 0 /\ total'[s] \in Nat
      /\ m = n \/ m = n + 1
  BY AddedToken
<1>2. n \in Nat \ {0}
  BY DEF OInv, EInv, Chain
<1>3. /\ curr = 1 /\ ~reading /\ chunk = << >> /\ left = 0
      /\ curr' = curr /\ left' = left /\ chunk' = chunk
      /\ type' = type /\ entrySpan' = entrySpan /\ null' = null
  BY DEF OInv, Fresh, Call, AddToDynamicEnum
<1>4. reading' = reading /\ ~reading'
  BY <1>3, Zenon DEF AddToDynamicEnum
<1>5. type = "dynamic" /\ null = {} /\ entrySpan \in {1, 2}
  <2>1. type # "table"
    BY DEF OInv, EInv, AddToDynamicEnum
  <2> QED BY <2>1 DEF OInv, Chain
<1> HIDE DEF n
<1>6. \A s \in 1 .. m : readIn'[s] <= total'[s]
  <2> HIDE DEF m
  <2> QED BY <1>1
<1>7. m > 0 /\ 1 \in 1 .. m
  BY <1>1, <1>2
<1>8. Chain'
  BY <1>1, <1>3, <1>5, <1>6, <1>7 DEF Chain, Segments
<1>9. Fresh'
  BY <1>1, <1>3, <1>4 DEF Fresh, Segments
<1>10. Call'
  BY <1>3, <1>4 DEF Call
<1>11. ReadInOrder'
  <2>1. 1 .. curr' - 1 = {} /\ \A s \in curr' + 1 .. m : s \in 1 .. m
    BY <1>1, <1>3
  <2> QED BY <1>1, <2>1 DEF ReadInOrder
<1> QED BY <1>8, <1>9, <1>10, <1>11

(* A unit that is read was left in its segment.                             *)
LEMMA UnitRead ==
    ASSUME OInv, ReadUnit
    PROVE  /\ readIn' \in Seq(Nat) /\ Len(readIn') = Len(total)
           /\ \A s \in Segments :
                 readIn'[s] = IF s = curr THEN readIn[s] + entrySpan ELSE readIn[s]
           /\ readIn[curr] + entrySpan <= total[curr]
           /\ readIn[curr] \in Nat /\ total[curr] \in Nat /\ entrySpan \in {1, 2}
<1> DEFINE n == Len(total)
           t == [readIn EXCEPT ![curr] = readIn[curr] + entrySpan]
<1>1. /\ readIn \in Seq(Nat) /\ Len(readIn) = n /\ n \in Nat /\ curr \in 1 .. n
      /\ entrySpan \in {1, 2} /\ total \in Seq(Nat) /\ Segments = 1 .. n
      /\ \A s \in 1 .. n : readIn[s] <= total[s]
  BY DEF OInv, EInv, Chain, Segments
<1>2. \A s \in 1 .. n : readIn[s] \in Nat /\ total[s] \in Nat
  BY <1>1
<1>3. readIn' = t
  BY DEF ReadUnit
<1>4. \A s \in 1 .. n : /\ t[s] = IF s = curr THEN readIn[s] + entrySpan ELSE readIn[s]
                        /\ t[s] \in Nat
  BY <1>1, <1>2
<1>5. DOMAIN t = 1 .. n
  <2>1. DOMAIN readIn = 1 .. n
    BY <1>1
  <2> QED BY <2>1
<1>6. t = [s \in 1 .. n |-> t[s]]
  BY <1>5, Zenon
<1> HIDE DEF t
<1>7. t \in [1 .. n -> Nat]
  BY <1>4, <1>6
<1>8. t \in Seq(Nat) /\ Len(t) = n
  BY <1>1, <1>7, FunctionIsSequence
<1>9. readIn[curr] + entrySpan <= total[curr]
  <2>1. /\ readIn[curr] \in Nat /\ total[curr] \in Nat /\ readIn[curr] <= total[curr]
        /\ readIn[curr] # total[curr]
        /\ (total[curr] - readIn[curr]) % entrySpan = 0
    BY <1>1, <1>2 DEF ReadUnit, SegmentRead
  <2>2. CASE entrySpan = 1
    BY <2>1, <2>2
  <2>3. CASE entrySpan = 2
    <3>1. (total[curr] - readIn[curr]) % 2 = 0
      BY <2>1, <2>3
    <3>2. \A x, y \in Nat : x <= y /\ x # y /\ (y - x) % 2 = 0 => x + 2 <= y
      OBVIOUS
    <3> QED BY <2>1, <2>3, <3>1, <3>2
  <2> QED BY <1>1, <2>2, <2>3
<1> QED BY <1>1, <1>2, <1>3, <1>4, <1>8, <1>9

LEMMA OStepUnit == OInv /\ ReadUnit => (Chain /\ Fresh /\ Call /\ ReadInOrder)'
<1> SUFFICES ASSUME OInv, ReadUnit
             PROVE  (Chain /\ Fresh /\ Call /\ ReadInOrder)'
  OBVIOUS
<1> DEFINE n == Len(total)
<1>1. /\ readIn' \in Seq(Nat) /\ Len(readIn') = n /\ Segments = 1 .. n
      /\ \A s \in 1 .. n :
            readIn'[s] = IF s = curr THEN readIn[s] + entrySpan ELSE readIn[s]
      /\ readIn[curr] + entrySpan <= total[curr]
      /\ readIn[curr] \in Nat /\ total[curr] \in Nat /\ entrySpan \in {1, 2}
  BY UnitRead DEF Segments
<1>2. /\ total' = total /\ curr' = curr /\ type' = type /\ entrySpan' = entrySpan
      /\ null' = null /\ left' = left - 1 /\ left > 0
  BY DEF ReadUnit, fixed
<1>3. building' = building /\ reading' = reading /\ reading
  BY Zenon DEF ReadUnit, fixed
<1>4. ~building'
  BY <1>3, Zenon DEF OInv, Fresh
<1>5. n \in Nat /\ n > 0 /\ curr \in 1 .. n
  BY <1>1 DEF OInv, EInv, Chain
<1>6. \A s \in 1 .. n : readIn'[s] <= total[s]
  <2>1. \A s \in 1 .. n : readIn[s] <= total[s]
    BY <1>1 DEF OInv, Chain
  <2> QED BY <1>1, <2>1
<1>7. Chain'
  BY <1>1, <1>2, <1>5, <1>6 DEF Chain, Segments, OInv
<1>8. Fresh'
  BY <1>4 DEF Fresh
<1>9. Call'
  <2>1. left' \in Nat
    BY <1>2 DEF OInv, Call
  <2> QED BY <1>3, <2>1 DEF Call
<1>10. ReadInOrder'
  <2>1. ReadInOrder /\ readIn[curr] # total[curr]
    BY <1>1 DEF OInv
  <2>2. /\ \A s \in 1 .. curr - 1 : readIn[s] = total[s] /\ s \in 1 .. n /\ s # curr
        /\ \A s \in curr + 1 .. n : readIn[s] = 0 /\ s \in 1 .. n /\ s # curr
    BY <1>1, <1>5, <2>1 DEF ReadInOrder
  <2>3. /\ \A s \in 1 .. curr - 1 : readIn'[s] = total[s]
        /\ \A s \in curr + 1 .. n : readIn'[s] = 0
    <3> HIDE DEF n
    <3> QED BY <1>1, <2>2
  <2> QED BY <1>2, <2>3 DEF ReadInOrder
<1> QED BY <1>7, <1>8, <1>9, <1>10

LEMMA OStepReset ==
    ASSUME OInv, MaxLists <= 3, NEW p \in Nat, Reset(p)
    PROVE  (Chain /\ Fresh /\ Call /\ ReadInOrder)'
<1>1. ReadInOrder' /\ curr' \in Segments
  BY ResetKeepsOrder
<1>2. /\ readIn' \in Seq(Nat) /\ Len(readIn') = Len(total)
      /\ \A s \in Segments : readIn'[s] <= total[s]
  BY ResetReads
<1>3. /\ total' = total /\ type' = type /\ entrySpan' = entrySpan
      /\ null' = null /\ left' = left
  BY DEF Reset, fixed
<1>4. building' = building /\ ~building /\ reading' = reading
  BY Zenon DEF Reset, fixed
<1>5. Segments' = Segments
  BY <1>3 DEF Segments
<1>6. Chain'
  BY <1>1, <1>2, <1>3, <1>5 DEF OInv, Chain
<1>7. Fresh'
  BY <1>4 DEF Fresh
<1>8. Call'
  BY <1>3, <1>4 DEF OInv, Call
<1> QED BY <1>1, <1>6, <1>7, <1>8

(* Steps that leave the counts of the chain alone, and stay in order.       *)
LEMMA OStepOther ==
    ASSUME OInv,
           \/ HandOut
           \/ \E n \in 0 .. MaxRead : ReadTokens(n)
           \/ NextSegment
           \/ Done
           \/ UNCHANGED vars
    PROVE  (Chain /\ Fresh /\ Call /\ ReadInOrder)'
<1> DEFINE n == Len(total)
<1>1. /\ total' = total /\ readIn' = readIn /\ type' = type /\ entrySpan' = entrySpan
      /\ null' = null
  BY DEF HandOut, ReadTokens, NextSegment, Done, fixed, vars
<1>2. Segments' = Segments /\ Segments = 1 .. n /\ n \in Nat
  BY <1>1 DEF Segments, OInv, EInv
<1>3. (Fresh /\ Call)'
  <2>1. CASE HandOut
    <3>1. ~building' /\ reading' = reading /\ left' = left
      BY <2>1, Zenon DEF HandOut
    <3> QED BY <3>1 DEF OInv, Fresh, Call
  <2>2. ASSUME NEW i \in 0 .. MaxRead, ReadTokens(i) PROVE (Fresh /\ Call)'
    <3>1. building' = building /\ ~building /\ reading' /\ left' = i
      BY <2>2, Zenon DEF ReadTokens, fixed
    <3>2. left' \in Nat
      BY <3>1, SizeAssumption DEF SizeAssumption
    <3> QED BY <3>1, <3>2 DEF Fresh, Call
  <2>3. CASE NextSegment
    <3>1. building' = building /\ reading /\ reading' = reading /\ left' = left
      BY <2>3, Zenon DEF NextSegment, fixed
    <3>2. ~building'
      BY <3>1, Zenon DEF OInv, Fresh
    <3> QED BY <3>1, <3>2 DEF OInv, Fresh, Call
  <2>4. CASE Done
    <3>1. building' = building /\ reading /\ left' = 0
      BY <2>4, Zenon DEF Done, fixed
    <3>2. ~building'
      BY <3>1, Zenon DEF OInv, Fresh
    <3> QED BY <3>1, <3>2 DEF Fresh, Call
  <2>5. CASE UNCHANGED vars
    <3>1. building' = building /\ reading' = reading /\ left' = left /\ chunk' = chunk
          /\ curr' = curr
      BY <2>5, Zenon DEF vars
    <3> QED BY <1>1, <1>2, <3>1 DEF OInv, Fresh, Call
  <2> QED BY <2>1, <2>2, <2>3, <2>4, <2>5
<1>4. CASE NextSegment
  <2>1. curr' = curr + 1 /\ curr < n /\ readIn[curr] = total[curr] /\ curr \in 1 .. n
    BY <1>2, <1>4 DEF NextSegment, SegmentRead, OInv, Chain
  <2>2. curr' \in 1 .. n
    BY <1>2, <2>1
  <2>3. Chain'
    BY <1>1, <1>2, <2>2 DEF OInv, Chain
  <2>4. ReadInOrder'
    <3>1. ReadInOrder
      BY DEF OInv
    <3>2. \A s \in 1 .. curr' - 1 : s = curr \/ s \in 1 .. curr - 1
      BY <1>2, <2>1
    <3>3. \A s \in curr' + 1 .. n : s \in curr + 1 .. n
      BY <1>2, <2>1
    <3> HIDE DEF n
    <3> QED BY <1>1, <1>2, <2>1, <3>1, <3>2, <3>3 DEF ReadInOrder, n
  <2> QED BY <1>3, <2>3, <2>4
<1>5. CASE ~NextSegment
  <2>1. curr' = curr
    BY <1>5 DEF HandOut, ReadTokens, Done, fixed, vars
  <2>2. Chain' /\ ReadInOrder'
    BY <1>1, <1>2, <2>1 DEF OInv, Chain, ReadInOrder
  <2> QED BY <1>3, <2>2
<1> QED BY <1>4, <1>5

LEMMA OStep == MaxLists <= 3 /\ OInv /\ [Next]_vars => OInv'
<1> SUFFICES ASSUME MaxLists <= 3, OInv, [Next]_vars PROVE OInv'
  OBVIOUS
<1>1. EInv'
  BY EStep DEF OInv
<1>2. (Chain /\ Fresh /\ Call /\ ReadInOrder)'
  <2>1. ASSUME NEW p \in 0 .. SumOf(total) + 1, Reset(p)
        PROVE  (Chain /\ Fresh /\ Call /\ ReadInOrder)'
    <3>1. total \in Seq(Nat)
      BY DEF OInv, EInv
    <3>2. SumOf(total) \in Nat
      <4>1. Len(total) + 1 \in 1 .. Len(total) + 1
        BY <3>1
      <4> QED BY <3>1, <4>1, BeforeValues
    <3> HIDE DEF SumOf
    <3>3. p \in Nat
      BY <3>2
    <3> QED BY <2>1, <3>3, OStepReset
  <2> QED BY <2>1, OStepAdd, OStepUnit, OStepOther DEF Next, ReadStep
<1> QED BY <1>1, <1>2 DEF OInv

(* Whatever positions are set between the chunks, nothing is left unread    *)
(* in front of _curr, and nothing behind it is read before it is.  A walk   *)
(* of Reset that fails at a null range needs the chain to be short for it;  *)
(* the code makes chains of at most two ranges.                             *)
THEOREM ChainsAreReadInOrder ==
    ASSUME MaxLists <= 3
    PROVE  Spec => []ReadInOrder
<1>1. OInv /\ [Next]_vars => OInv'
  BY OStep
<1>2. OInv => ReadInOrder
  BY DEF OInv
<1> QED BY OInit, <1>1, <1>2, PTL DEF Spec

(* The same of the callers that the other properties are about.             *)
THEOREM EvenChainsAreReadInOrder ==
    ASSUME MaxLists <= 3
    PROVE  EvenSpec => []ReadInOrder
<1>1. OInv /\ [EvenNext]_vars => OInv'
  <2>1. [EvenNext]_vars => [Next]_vars
    BY DEF EvenNext, Next
  <2> QED BY <2>1, OStep
<1>2. OInv => ReadInOrder
  BY DEF OInv
<1> QED BY OInit, <1>1, <1>2, PTL DEF EvenSpec

----------------------------------------------------------------------------
(* The entries of a chain as one sequence, and the position in it.          *)

(* The k-th entry of segment s is behind those of the segments before.      *)
EntriesFit ==
    /\ Entries \in Seq(Nat \X Nat) /\ Len(Entries) = SumOf(total)
    /\ SumOf(total) \in Nat
    /\ \A s \in Segments : \A k \in 1 .. total[s] :
          /\ Before(s) + k \in 1 .. SumOf(total)
          /\ Entries[Before(s) + k] = <<s, k>>
    /\ \A i \in 1 .. SumOf(total) :
          \E s \in Segments : \E k \in 1 .. total[s] : i = Before(s) + k

LEMMA EntriesInOrder == total \in Seq(Nat) => EntriesFit
<1> SUFFICES ASSUME total \in Seq(Nat) PROVE EntriesFit
  OBVIOUS
<1> DEFINE n == Len(total)
           all == SumOf(total)
           In(s, i) == Before(s) < i /\ i <= Before(s) + total[s]
           seg(i) == CHOOSE s \in Segments : In(s, i)
<1>1. /\ n \in Nat
      /\ Segments = 1 .. n
      /\ \A s \in 1 .. n : total[s] \in Nat /\ Before(s) \in Nat
      /\ all = Before(n + 1) /\ all \in Nat
  <2>1. n + 1 \in 1 .. n + 1
    OBVIOUS
  <2>2. /\ n \in Nat /\ all = Before(n + 1)
        /\ \A s \in 1 .. n : total[s] \in Nat
        /\ \A s \in 1 .. n + 1 : Before(s) \in Nat
    BY BeforeValues
  <2>3. \A s \in 1 .. n : s \in 1 .. n + 1
    BY <2>2
  <2> HIDE DEF n, all
  <2> QED BY <2>1, <2>2, <2>3 DEF Segments, n
<1>2. ASSUME NEW i \in 1 .. all PROVE \E s \in 1 .. n : In(s, i)
  <2>1. IsSums(Sums(total), total) /\ \A s : Before(s) = Sums(total)[s]
    BY BeforeIsSum
  <2>2. i - 1 \in Nat /\ i - 1 < Before(n + 1)
    BY <1>1
  <2>3. \E s \in 1 .. n : Before(s) <= i - 1 /\ i - 1 < Before(s) + total[s]
    BY <2>1, <2>2, SumsHold
  <2>4. PICK s \in 1 .. n : Before(s) <= i - 1 /\ i - 1 < Before(s) + total[s]
    BY <2>3
  <2>5. In(s, i)
    <3> HIDE DEF n, all
    <3> QED BY <1>1, <2>2, <2>4
  <2> QED BY <2>5
<1>3. ASSUME NEW i, NEW s \in 1 .. n, NEW r \in 1 .. n, i \in Nat, In(s, i), In(r, i)
      PROVE  s = r
  <2>1. ASSUME NEW a \in 1 .. n, NEW b \in 1 .. n, In(a, i), In(b, i), a < b PROVE FALSE
    <3>1. Before(a) + total[a] <= Before(b)
      <4>1. b \in 1 .. n + 1
        BY <1>1
      <4> QED BY <2>1, <4>1, BeforeAscends
    <3> HIDE DEF n
    <3> QED BY <1>1, <1>3, <2>1, <3>1
  <2>2. s < r \/ r < s \/ s = r
    BY <1>1
  <2> QED BY <1>3, <2>1, <2>2
<1>4. Entries = [i \in 1 .. all |-> <<seg(i), i - Before(seg(i))>>]
  BY DEF Entries
<1>5. ASSUME NEW i \in 1 .. all PROVE seg(i) \in 1 .. n /\ In(seg(i), i)
  <2>1. \E s \in Segments : In(s, i)
    BY <1>1, <1>2
  <2> HIDE DEF In
  <2>2. seg(i) \in Segments /\ In(seg(i), i)
    BY <2>1
  <2> QED BY <1>1, <2>2
<1> HIDE DEF seg
<1>6. Entries \in Seq(Nat \X Nat) /\ Len(Entries) = all
  <2>1. ASSUME NEW i \in 1 .. all PROVE <<seg(i), i - Before(seg(i))>> \in Nat \X Nat
    <3>1. seg(i) \in 1 .. n /\ Before(seg(i)) < i /\ i \in Nat
      BY <1>1, <1>5
    <3>2. Before(seg(i)) \in Nat
      BY <1>1, <3>1
    <3>3. seg(i) \in Nat /\ i - Before(seg(i)) \in Nat
      BY <1>1, <3>1, <3>2
    <3> QED BY <3>3
  <2> HIDE DEF all
  <2>2. Entries \in [1 .. all -> Nat \X Nat]
    BY <1>4, <2>1
  <2> QED BY <1>1, <2>2, FunctionIsSequence
<1>7. ASSUME NEW s \in 1 .. n, NEW k \in 1 .. total[s]
      PROVE  Before(s) + k \in 1 .. all /\ Entries[Before(s) + k] = <<s, k>>
  <2> DEFINE i == Before(s) + k
  <2>1. Before(s) \in Nat /\ total[s] \in Nat /\ k \in Nat
    BY <1>1
  <2>2. Before(s) + total[s] <= Before(n + 1)
    <3>1. n + 1 \in 1 .. n + 1 /\ s < n + 1
      BY <1>1
    <3> QED BY <3>1, BeforeAscends
  <2>3. i \in 1 .. all /\ i \in Nat /\ In(s, i) /\ i - Before(s) = k
    <3> HIDE DEF n, all
    <3> QED BY <1>1, <2>1, <2>2
  <2>4. seg(i) = s
    <3> HIDE DEF In, i
    <3> QED BY <1>3, <1>5, <2>3
  <2>5. Entries[i] = <<seg(i), i - Before(seg(i))>>
    <3> HIDE DEF i, all
    <3> QED BY <1>4, <2>3
  <2> HIDE DEF i
  <2>6. Entries[i] = <<s, k>>
    BY <2>3, <2>4, <2>5
  <2> QED BY <2>3, <2>6 DEF i
<1>8. ASSUME NEW i \in 1 .. all
      PROVE  \E s \in 1 .. n : \E k \in 1 .. total[s] : i = Before(s) + k
  <2>1. PICK s \in 1 .. n : In(s, i)
    BY <1>2
  <2> DEFINE k == i - Before(s)
  <2>2. Before(s) \in Nat /\ total[s] \in Nat /\ i \in Nat
    BY <1>1
  <2>3. k \in 1 .. total[s] /\ i = Before(s) + k
    <3> HIDE DEF n, all
    <3> QED BY <2>1, <2>2
  <2> HIDE DEF k
  <2> QED BY <2>3
<1> QED BY <1>1, <1>6, <1>7, <1>8 DEF EntriesFit

(* How many entries have been read, by where the chain is read.             *)
PositionFits ==
    /\ SumOf(readIn) \in Nat /\ SumOf(readIn) <= SumOf(total)
    /\ (\A s \in Segments : readIn[s] = 0) => SumOf(readIn) = 0
    /\ (\A s \in Segments : readIn[s] = total[s]) => SumOf(readIn) = SumOf(total)
    /\ (\A s \in curr + 1 .. Len(total) : readIn[s] = 0) =>
          SumOf(readIn) = Before(curr) + readIn[curr]

LEMMA PositionIsSum == OInv => PositionFits
<1> SUFFICES ASSUME OInv PROVE PositionFits
  OBVIOUS
<1> DEFINE n == Len(total)
           f == Sums(total)
           r == Sums(readIn)
<1>1. /\ total \in Seq(Nat) /\ readIn \in Seq(Nat) /\ Len(readIn) = n /\ n \in Nat
      /\ Segments = 1 .. n /\ curr \in 1 .. n
      /\ \A s \in 1 .. n : readIn[s] <= total[s]
  BY DEF OInv, EInv, Chain, Segments
<1>2. IsSums(f, total) /\ IsSums(r, readIn)
  BY <1>1, SumsAddUp
<1>3. SumOf(readIn) = r[n + 1] /\ SumOf(total) = f[n + 1] /\ Before(curr) = f[curr]
  BY <1>1 DEF SumOf, Before
<1> HIDE DEF f, r
<1>4. /\ \A s \in 1 .. n : readIn[s] \in Nat /\ total[s] \in Nat
      /\ \A s \in 1 .. n + 1 : r[s] \in Nat /\ f[s] \in Nat
      /\ \A s \in 1 .. n : r[s + 1] = r[s] + readIn[s]
      /\ r[1] = 0 /\ f[1] = 0
  <2>1. /\ \A s \in 1 .. n : total[s] \in Nat
        /\ \A s \in 1 .. n + 1 : f[s] \in Nat
        /\ f[1] = 0
    BY <1>1, <1>2, SumsValues
  <2>2. /\ \A s \in 1 .. n : readIn[s] \in Nat
        /\ \A s \in 1 .. n + 1 : r[s] \in Nat
        /\ \A s \in 1 .. n : r[s + 1] = r[s] + readIn[s]
        /\ r[1] = 0
    <3>1. /\ \A s \in 1 .. Len(readIn) : readIn[s] \in Nat
          /\ \A s \in 1 .. Len(readIn) + 1 : r[s] \in Nat
          /\ \A s \in 1 .. Len(readIn) : r[s + 1] = r[s] + readIn[s]
          /\ r[1] = 0
      BY <1>1, <1>2, SumsValues
    <3> QED BY <1>1, <3>1
  <2> QED BY <2>1, <2>2
<1>5. /\ (n + 1) - 1 = n /\ n + 1 \in Nat /\ 1 <= n + 1 /\ n + 1 \in 1 .. n + 1
      /\ n + 1 <= Len(total) + 1 /\ n + 1 <= Len(readIn) + 1
  BY <1>1
<1>6. r[n + 1] <= f[n + 1]
  <2>1. \A s \in 1 .. (n + 1) - 1 : readIn[s] <= total[s]
    BY <1>1, <1>5
  <2>2. r[n + 1] + f[1] <= f[n + 1] + r[1]
    <3>1. 1 \in Nat /\ 1 <= 1
      OBVIOUS
    <3> HIDE DEF n
    <3> QED BY <1>1, <1>2, <1>5, <2>1, <3>1, SumsCompare, Zenon
  <2>3. r[n + 1] \in Nat /\ f[n + 1] \in Nat
    BY <1>4, <1>5
  <2> QED BY <1>4, <2>2, <2>3
<1>7. ASSUME \A s \in 1 .. n : readIn[s] = 0 PROVE r[n + 1] = 0
  <2>1. \A s \in 1 .. (n + 1) - 1 : readIn[s] = 0
    BY <1>5, <1>7
  <2>2. r[1] = r[n + 1]
    <3> HIDE DEF n
    <3> QED BY <1>1, <1>2, <1>5, <2>1, SumsAscend
  <2> QED BY <1>4, <2>2
<1>8. ASSUME \A s \in 1 .. n : readIn[s] = total[s] PROVE r[n + 1] = f[n + 1]
  <2>1. \A s \in 1 .. (n + 1) - 1 : readIn[s] = total[s]
    BY <1>5, <1>8
  <2> HIDE DEF n
  <2> QED BY <1>1, <1>2, <1>5, <2>1, SumsAgree
<1>9. ASSUME \A s \in curr + 1 .. n : readIn[s] = 0
      PROVE  r[n + 1] = f[curr] + readIn[curr]
  <2>1. \A s \in 1 .. curr - 1 : readIn[s] = total[s]
    BY DEF OInv, ReadInOrder
  <2>2. /\ curr \in Nat /\ 1 <= curr /\ curr <= Len(total) + 1 /\ curr <= Len(readIn) + 1
        /\ curr + 1 \in Nat /\ 1 <= curr + 1 /\ curr + 1 <= n + 1
    BY <1>1
  <2>3. r[curr] = f[curr]
    <3> HIDE DEF n
    <3> QED BY <1>1, <1>2, <2>1, <2>2, SumsAgree
  <2>4. \A s \in curr + 1 .. (n + 1) - 1 : readIn[s] = 0
    BY <1>5, <1>9
  <2>5. r[curr + 1] = r[n + 1]
    <3> HIDE DEF n
    <3> QED BY <1>1, <1>2, <1>5, <2>2, <2>4, SumsAscend
  <2> QED BY <1>1, <1>4, <2>3, <2>5
<1>10. r[n + 1] \in Nat
  BY <1>4, <1>5
<1> QED BY <1>1, <1>3, <1>6, <1>7, <1>8, <1>9, <1>10 DEF PositionFits

(* Reset to p leaves the entries behind p, in every chain and for every p.  *)
LEMMA ResetLeavesTheRest ==
    ASSUME OInv, NEW p \in 0 .. SumOf(total) + 1, Reset(p), StopsAt(p) > Len(total)
    PROVE  {i \in 1 .. Len(Entries) : Entries[i][2] > readIn'[Entries[i][1]]}
               = p + 1 .. Len(Entries)
<1> DEFINE all == Len(Entries)
           n == Len(total)
<1>1. total \in Seq(Nat) /\ Segments = 1 .. n /\ n \in Nat
      /\ \A s \in 1 .. n : total[s] \in Nat
  BY DEF OInv, EInv, Segments
<1>2. EntriesFit
  BY <1>1, EntriesInOrder
<1>3. all \in Nat /\ all = SumOf(total) /\ p \in Nat
  BY <1>2 DEF EntriesFit
<1>4. \A s \in 1 .. n : Before(s) \in Nat
  BY <1>1, BeforeValues
<1>5. StopsAt(p) = n + 1
  <2>1. null \subseteq 1 .. n
    BY <1>1 DEF OInv, EInv
  <2>2. StopsAt(p) = n + 1 \/ StopsAt(p) \in null
    BY <1>1, <2>1, StopsAtNull, Zenon
  <2> DEFINE k == StopsAt(p)
  <2>3. k > n /\ (k = n + 1 \/ k \in 1 .. n)
    BY <2>1, <2>2, Zenon
  <2> HIDE DEF k, n
  <2>4. k = n + 1
    BY <1>1, <2>3
  <2> QED BY <2>4 DEF k
<1> HIDE DEF all
<1>6. ASSUME NEW i \in 1 .. all
      PROVE  Entries[i][2] > readIn'[Entries[i][1]] <=> i > p
  <2>1. PICK s \in 1 .. n : \E k \in 1 .. total[s] : i = Before(s) + k
    BY <1>1, <1>2, <1>3 DEF EntriesFit
  <2>2. PICK k \in 1 .. total[s] : i = Before(s) + k
    BY <2>1
  <2>3. Entries[i] = <<s, k>>
    BY <1>1, <1>2, <2>2 DEF EntriesFit
  <2>4. /\ s < StopsAt(p) /\ s \in Segments
        /\ Before(s) \in Nat /\ total[s] \in Nat /\ k \in 1 .. total[s]
    BY <1>1, <1>4, <1>5
  <2>5. readIn'[s] = ReadBefore(p, s)
    BY <1>3, <2>4, ResetReads
  <2>6. /\ Before(s) + total[s] <= p => readIn'[s] = total[s]
        /\ p < Before(s) => readIn'[s] = 0
        /\ Before(s) <= p /\ p < Before(s) + total[s] => readIn'[s] = p - Before(s)
    BY <1>3, <2>4, <2>5, ReadBeforeCases
  <2>7. k > readIn'[s] <=> i > p
    <3> HIDE DEF Before, StopsAt
    <3>1. CASE Before(s) + total[s] <= p
      BY <1>3, <2>2, <2>4, <2>6, <3>1
    <3>2. CASE p < Before(s)
      BY <1>3, <2>2, <2>4, <2>6, <3>2
    <3>3. CASE Before(s) <= p /\ p < Before(s) + total[s]
      BY <1>3, <2>2, <2>4, <2>6, <3>3
    <3> QED BY <1>3, <2>4, <3>1, <3>2, <3>3
  <2> QED BY <2>3, <2>7
<1>7. \A i : i \in p + 1 .. all <=> i \in 1 .. all /\ i > p
  BY <1>3
<1> QED BY <1>6, <1>7 DEF all

LEMMA ResetsReach ==
    OInv /\ [Next]_vars =>
        [\A p \in 0 .. SumOf(total) + 1 :
            Reset(p) /\ StopsAt(p) > Len(total) =>
               {i \in 1 .. Len(Entries) : Entries[i][2] > readIn'[Entries[i][1]]}
                   = p + 1 .. Len(Entries)]_vars
BY ResetLeavesTheRest

(* The position that a caller sets is the one the next call reads from.     *)
THEOREM PositionsAreReached ==
    ASSUME MaxLists <= 3
    PROVE  Spec => ResetReachesPosition
<1>1. OInv /\ [Next]_vars => OInv'
  BY OStep
<1> QED BY OInit, <1>1, ResetsReach, PTL DEF Spec, ResetReachesPosition

(* The same of the callers that the other properties are about.             *)
THEOREM EvenPositionsAreReached ==
    ASSUME MaxLists <= 3
    PROVE  EvenSpec => ResetReachesPosition
<1>1. [EvenNext]_vars => [Next]_vars
  BY DEF EvenNext, Next
<1>2. OInv /\ [Next]_vars => OInv'
  BY OStep
<1> QED BY OInit, <1>1, <1>2, ResetsReach, PTL DEF EvenSpec, ResetReachesPosition

----------------------------------------------------------------------------
(* The chain implements one sequence that is read in chunks.                *)

LEMMA EntriesFitNext == (total \in Seq(Nat))' => EntriesFit'
BY EntriesInOrder, PTL

LEMMA PositionFitsNext == OInv' => PositionFits'
BY PositionIsSum, PTL

(* The entries depend on the totals alone.                                  *)
LEMMA EntriesKept ==
    ASSUME total' = total
    PROVE  Entries' = Entries /\ SumOf(total)' = SumOf(total) /\ Segments' = Segments
           /\ \A s : Before(s)' = Before(s)
BY DEF Entries, Segments, SumOf, Before, Sums

(* A token more makes the sequence longer by one, and keeps what it had.    *)
LEMMA TokenExtendsEntries ==
    ASSUME OInv, AddToDynamicEnum
    PROVE  /\ Len(Entries') = Len(Entries) + 1
           /\ Entries = SubSeq(Entries', 1, Len(Entries))
<1> DEFINE n == Len(total)
           m == Len(total')
           f == Sums(total)
           g == Sums(total')
           all == SumOf(total)
<1>1. /\ total \in Seq(Nat) /\ n \in Nat \ {0} /\ Segments = 1 .. n
      /\ \A s \in 1 .. n : total[s] \in Nat
  BY DEF OInv, EInv, Chain, Segments
<1>2. /\ total' \in Seq(Nat)
      /\ \A s \in 1 .. n - 1 : total'[s] = total[s]
      /\ \/ m = n /\ total'[n] = total[n] + 1
         \/ m = n + 1 /\ total'[n] = total[n] /\ total'[n + 1] = 1
  BY AddedToken
<1>3. EntriesFit /\ EntriesFit'
  BY <1>1, <1>2, EntriesInOrder, EntriesFitNext
<1>4. /\ IsSums(f, total) /\ IsSums(g, total')
      /\ \A s : Before(s) = f[s] /\ Before(s)' = g[s]
      /\ all = f[n + 1] /\ SumOf(total)' = g[m + 1]
  BY <1>1, <1>2, SumsAddUp DEF Before, SumOf
<1> HIDE DEF f, g
<1>5. /\ \A s \in 1 .. n + 1 : f[s] \in Nat
      /\ \A s \in 1 .. n : f[s + 1] = f[s] + total[s]
  BY <1>1, <1>4, SumsValues
<1>6. /\ m \in Nat
      /\ \A s \in 1 .. m + 1 : g[s] \in Nat
      /\ \A s \in 1 .. m : g[s + 1] = g[s] + total'[s]
  BY <1>2, <1>4, SumsValues
<1>7. m >= n
  <2> HIDE DEF m, n
  <2> QED BY <1>1, <1>2
<1>8. ASSUME NEW s \in 1 .. n PROVE g[s] = f[s]
  <2>1. /\ s \in Nat /\ 1 <= s /\ s <= Len(total) + 1 /\ s <= Len(total') + 1
        /\ \A i \in 1 .. s - 1 : i \in 1 .. n - 1
    <3>1. s \in Nat /\ 1 <= s /\ s <= n + 1 /\ s <= m + 1
      <4> HIDE DEF m, n
      <4> QED BY <1>1, <1>6, <1>7
    <3> QED BY <1>1, <3>1
  <2>2. \A i \in 1 .. s - 1 : total[i] = total'[i]
    BY <1>2, <2>1
  <2>3. f[s] = g[s]
    BY <1>1, <1>2, <1>4, <2>1, <2>2, SumsAgree
  <2> QED BY <2>3
<1>9. g[m + 1] = f[n + 1] + 1
  <2> HIDE DEF m, n
  <2>1. /\ n \in 1 .. n /\ n \in 1 .. m /\ g[n] = f[n] /\ f[n] \in Nat /\ total[n] \in Nat
        /\ f[n + 1] = f[n] + total[n] /\ g[n + 1] = g[n] + total'[n]
    <3>1. n \in 1 .. n /\ n \in 1 .. m /\ n \in 1 .. n + 1
      BY <1>1, <1>6, <1>7
    <3> QED BY <1>1, <1>5, <1>6, <1>8, <3>1
  <2>2. CASE m = n /\ total'[n] = total[n] + 1
    BY <2>1, <2>2
  <2>3. CASE m = n + 1 /\ total'[n] = total[n] /\ total'[n + 1] = 1
    <3>1. n + 1 \in 1 .. m
      BY <1>1, <2>3
    <3>2. g[(n + 1) + 1] = g[n + 1] + 1
      BY <1>6, <2>3, <3>1
    <3> QED BY <2>1, <2>3, <3>2
  <2> QED BY <1>2, <2>2, <2>3
<1>10. /\ Entries \in Seq(Nat \X Nat) /\ Len(Entries) = all /\ all \in Nat
       /\ Entries' \in Seq(Nat \X Nat) /\ Len(Entries') = all + 1
  <2>1. /\ Entries \in Seq(Nat \X Nat) /\ Len(Entries) = all /\ all \in Nat
    BY <1>3 DEF EntriesFit
  <2>2. Entries' \in Seq(Nat \X Nat) /\ Len(Entries') = SumOf(total)'
    BY <1>3 DEF EntriesFit
  <2>3. SumOf(total)' = all + 1
    BY <1>4, <1>9
  <2> HIDE DEF all
  <2> QED BY <2>1, <2>2, <2>3
<1>11. ASSUME NEW i \in 1 .. all PROVE Entries'[i] = Entries[i]
  <2>1. PICK s \in 1 .. n : \E k \in 1 .. total[s] : i = Before(s) + k
    BY <1>1, <1>3 DEF EntriesFit
  <2>2. PICK k \in 1 .. total[s] : i = Before(s) + k
    BY <2>1
  <2>3. Entries[i] = <<s, k>>
    BY <1>1, <1>3, <2>2 DEF EntriesFit
  <2>4. total'[s] >= total[s] /\ total[s] \in Nat /\ total'[s] \in Nat /\ s \in 1 .. m
    <3> HIDE DEF m, n
    <3>1. s = n \/ s \in 1 .. n - 1
      BY <1>1
    <3>2. total'[s] = total[s] \/ total'[s] = total[s] + 1
      BY <1>1, <1>2, <3>1
    <3> QED BY <1>1, <1>6, <1>7, <3>2
  <2>5. k \in 1 .. total'[s]
    BY <2>4
  <2>6. Before(s)' = Before(s)
    BY <1>4, <1>8
  <2>7. s \in Segments'
    BY <2>4 DEF Segments
  <2>8. \A r \in Segments' : \A j \in 1 .. total'[r] : Entries'[Before(r)' + j] = <<r, j>>
    BY <1>3 DEF EntriesFit
  <2>9. Entries'[Before(s)' + k] = <<s, k>>
    BY <2>5, <2>7, <2>8
  <2> QED BY <2>2, <2>3, <2>6, <2>9
<1> HIDE DEF all
<1>12. /\ SubSeq(Entries', 1, all) \in Seq(Nat \X Nat)
       /\ Len(SubSeq(Entries', 1, all)) = all
       /\ \A i \in 1 .. all : SubSeq(Entries', 1, all)[i] = Entries'[i]
  <2>1. /\ 1 \in Int /\ all \in Int
        /\ \A i \in 1 .. all : Entries'[i] \in Nat \X Nat
    <3>1. \A i \in 1 .. all : i \in 1 .. Len(Entries')
      BY <1>10
    <3> QED BY <1>10, <3>1, ElementOfSeq
  <2>2. /\ SubSeq(Entries', 1, all) \in Seq(Nat \X Nat)
        /\ Len(SubSeq(Entries', 1, all)) = IF 1 <= all THEN all - 1 + 1 ELSE 0
        /\ \A i \in 1 .. all - 1 + 1 : SubSeq(Entries', 1, all)[i] = Entries'[1 + i - 1]
    BY <2>1, SubSeqProperties
  <2>3. \A i \in 1 .. all : i \in 1 .. all - 1 + 1 /\ 1 + i - 1 = i
    BY <1>10
  <2>4. (IF 1 <= all THEN all - 1 + 1 ELSE 0) = all
    BY <1>10
  <2> QED BY <2>2, <2>3, <2>4
<1>13. Entries = SubSeq(Entries', 1, all)
  BY <1>10, <1>11, <1>12, SeqEqual
<1> QED BY <1>10, <1>13

(* A unit that is read is what the sequence has at the position.            *)
LEMMA UnitDelivers == OInv /\ OInv' /\ ReadUnit => Stream!Deliver
<1> SUFFICES ASSUME OInv, OInv', ReadUnit PROVE Stream!Deliver
  OBVIOUS
<1> DEFINE n == Len(total)
           pos == SumOf(readIn)
           x == readIn[curr]
           b == Before(curr)
<1>1. /\ total \in Seq(Nat) /\ n \in Nat /\ Segments = 1 .. n /\ curr \in 1 .. n
      /\ total' = total /\ curr' = curr /\ entrySpan' = entrySpan
      /\ left > 0 /\ left' = left - 1
  BY DEF OInv, EInv, Chain, Segments, ReadUnit, fixed
<1>2. /\ \A s \in 1 .. n :
            readIn'[s] = IF s = curr THEN readIn[s] + entrySpan ELSE readIn[s]
      /\ x + entrySpan <= total[curr]
      /\ x \in Nat /\ total[curr] \in Nat /\ entrySpan \in {1, 2}
  BY UnitRead DEF Segments
<1>3. EntriesFit
  BY <1>1, EntriesInOrder
<1>4. \A s \in curr + 1 .. n : readIn[s] = 0 /\ readIn'[s] = 0
  <2>1. ReadInOrder /\ x # total[curr]
    BY <1>2 DEF OInv
  <2>2. \A s \in curr + 1 .. n : readIn[s] = 0 /\ s \in 1 .. n /\ s # curr
    BY <1>1, <2>1 DEF ReadInOrder
  <2> HIDE DEF n
  <2> QED BY <1>2, <2>2
<1>5. pos = b + x
  BY <1>4, PositionIsSum DEF PositionFits
<1>6. pos' = b + (x + entrySpan)
  <2>1. PositionFits'
    BY PositionFitsNext
  <2>2. \A s \in curr' + 1 .. Len(total') : readIn'[s] = 0
    BY <1>1, <1>4
  <2>3. pos' = Before(curr)' + readIn'[curr']
    BY <2>1, <2>2 DEF PositionFits
  <2>4. Before(curr)' = b
    BY <1>1, EntriesKept DEF Before
  <2>5. readIn'[curr'] = x + entrySpan
    BY <1>1, <1>2
  <2> QED BY <2>3, <2>4, <2>5
<1>7. /\ Entries \in Seq(Nat \X Nat) /\ Len(Entries) \in Nat
      /\ \A k \in 1 .. total[curr] : /\ b + k \in 1 .. Len(Entries)
                                     /\ Entries[b + k] = <<curr, k>>
  BY <1>1, <1>3 DEF EntriesFit
<1>8. b \in Nat
  <2>1. curr \in 1 .. n + 1
    BY <1>1
  <2> QED BY <1>1, <2>1, BeforeValues
<1>9. chunk' = chunk \o UnitAt(curr)
  BY DEF ReadUnit
<1>10. UnitAt(curr) = [k \in 1 .. entrySpan |-> <<curr, x + k>>]
  <2>1. (IF type = "table" THEN current[curr] ELSE readIn[curr]) = x
    BY DEF OInv, EInv, CursorsAgree
  <2> QED BY <2>1 DEF UnitAt
<1> HIDE DEF pos, x, b, n
<1>11. pos \in Nat /\ pos + 1 \in Int /\ pos + entrySpan \in Int /\ pos < Len(Entries)
       /\ pos' = pos + entrySpan /\ pos + 1 <= pos + entrySpan
       /\ (pos + entrySpan) - (pos + 1) + 1 = entrySpan
       /\ pos + entrySpan <= Len(Entries)
  <2>1. x + entrySpan \in 1 .. total[curr]
    BY <1>2
  <2>2. b + (x + entrySpan) \in 1 .. Len(Entries)
    BY <1>7, <2>1
  <2> QED BY <1>2, <1>5, <1>6, <1>7, <1>8, <2>2
<1>12. UnitAt(curr) = SubSeq(Entries, pos + 1, pos + entrySpan)
  <2> DEFINE u == UnitAt(curr)
             w == SubSeq(Entries, pos + 1, pos + entrySpan)
  <2>1. \A i \in pos + 1 .. pos + entrySpan : Entries[i] \in Nat \X Nat
    <3>1. \A i \in pos + 1 .. pos + entrySpan : i \in 1 .. Len(Entries)
      BY <1>2, <1>7, <1>11
    <3> QED BY <1>7, <3>1, ElementOfSeq
  <2>2. /\ w \in Seq(Nat \X Nat)
        /\ Len(w) = entrySpan
        /\ \A k \in 1 .. entrySpan : w[k] = Entries[(pos + 1) + k - 1]
    <3>1. /\ w \in Seq(Nat \X Nat)
          /\ Len(w) = IF pos + 1 <= pos + entrySpan
                      THEN (pos + entrySpan) - (pos + 1) + 1 ELSE 0
          /\ \A k \in 1 .. (pos + entrySpan) - (pos + 1) + 1 :
                w[k] = Entries[(pos + 1) + k - 1]
      BY <1>11, <2>1, SubSeqProperties
    <3> HIDE DEF w
    <3> QED BY <1>11, <3>1, Zenon
  <2>3. u \in Seq(Nat \X Nat) /\ Len(u) = entrySpan
    <3>1. u \in [1 .. entrySpan -> Nat \X Nat]
      <4>1. curr \in Nat /\ \A k \in 1 .. entrySpan : x + k \in Nat
        BY <1>1, <1>2
      <4> QED BY <1>10, <4>1
    <3> HIDE DEF u
    <3> QED BY <1>2, <3>1, FunctionIsSequence
  <2>4. ASSUME NEW k \in 1 .. entrySpan PROVE u[k] = w[k]
    <3>1. /\ x + k \in 1 .. total[curr] /\ (pos + 1) + k - 1 = b + (x + k)
      BY <1>2, <1>5, <1>8, <1>11
    <3>2. w[k] = <<curr, x + k>>
      <4> HIDE DEF w
      <4>1. Entries[b + (x + k)] = <<curr, x + k>>
        BY <1>7, <3>1
      <4> QED BY <2>2, <3>1, <4>1
    <3>3. u[k] = <<curr, x + k>>
      BY <1>10
    <3> QED BY <3>2, <3>3
  <2> HIDE DEF u, w
  <2>5. u = w
    BY <2>2, <2>3, <2>4, SeqEqual
  <2> QED BY <2>5 DEF u, w
<1>13. Entries' = Entries
  BY <1>1, EntriesKept
<1> QED BY <1>1, <1>9, <1>11, <1>12, <1>13 DEF Stream!Deliver, pos

LEMMA StreamInit == Init => Stream!Init
<1> SUFFICES ASSUME Init PROVE Stream!Init
  OBVIOUS
<1>1. OInv
  BY OInit
<1>2. EntriesFit
  BY <1>1, EntriesInOrder DEF OInv, EInv
<1>3. \A s \in Segments : readIn[s] = 0
  BY DEF Init
<1>4. SumOf(readIn) = 0
  BY <1>1, <1>3, PositionIsSum DEF PositionFits
<1>5. left = 0 /\ chunk = << >> /\ entrySpan \in {1, 2}
  BY <1>1 DEF Init, OInv, Chain
<1> QED BY <1>2, <1>4, <1>5 DEF Stream!Init, EntriesFit

LEMMA StreamStep ==
    OInv /\ OInv' /\ [Next]_vars => [Stream!Next]_(Stream!vars)
<1> SUFFICES ASSUME OInv, OInv', [Next]_vars
             PROVE  Stream!Next \/ UNCHANGED Stream!vars
  OBVIOUS
<1> DEFINE pos == SumOf(readIn)
<1>1. CASE AddToDynamicEnum
  <2>1. /\ chunk = << >> /\ left = 0 /\ \A s \in Segments : readIn[s] = 0
        /\ chunk' = chunk /\ left' = left /\ entrySpan' = entrySpan
    BY <1>1 DEF OInv, Fresh, Call, AddToDynamicEnum
  <2>2. pos = 0
    BY <2>1, PositionIsSum DEF PositionFits
  <2>3. pos' = 0
    <3>1. \A s \in Segments' : readIn'[s] = 0
      <4>1. \A s \in 1 .. Len(total') : readIn'[s] = 0
        BY <1>1, AddedToken
      <4> QED BY <4>1 DEF Segments
    <3> QED BY <3>1, PositionFitsNext DEF PositionFits
  <2>4. /\ Len(Entries') = Len(Entries) + 1
        /\ Entries = SubSeq(Entries', 1, Len(Entries))
    BY <1>1, TokenExtendsEntries
  <2> HIDE DEF pos
  <2>5. Stream!Collect
    BY <2>1, <2>2, <2>3, <2>4 DEF Stream!Collect, pos
  <2> QED BY <2>5 DEF Stream!Next
<1>2. CASE HandOut
  <2>1. /\ total' = total /\ readIn' = readIn /\ left' = left /\ chunk' = chunk
        /\ entrySpan' = entrySpan
    BY <1>2 DEF HandOut
  <2>2. Entries' = Entries /\ pos' = pos
    BY <2>1, EntriesKept DEF SumOf
  <2> QED BY <2>1, <2>2 DEF Stream!vars
<1>3. ASSUME NEW n \in 0 .. MaxRead, ReadTokens(n) PROVE Stream!Next
  <2>1. /\ total' = total /\ readIn' = readIn /\ left' = n /\ chunk' = << >>
        /\ entrySpan' = entrySpan
    BY <1>3 DEF ReadTokens, fixed
  <2>2. Entries' = Entries /\ pos' = pos
    BY <2>1, EntriesKept DEF SumOf
  <2>3. left = 0
    BY <1>3 DEF OInv, Call, ReadTokens
  <2>4. left' \in Nat
    BY <2>1, SizeAssumption DEF SizeAssumption
  <2>5. Stream!Read
    BY <2>1, <2>2, <2>3, <2>4 DEF Stream!Read
  <2> QED BY <2>5 DEF Stream!Next
<1>4. CASE NextSegment
  <2>1. /\ total' = total /\ readIn' = readIn /\ left' = left /\ chunk' = chunk
        /\ entrySpan' = entrySpan
    BY <1>4 DEF NextSegment, fixed
  <2>2. Entries' = Entries /\ pos' = pos
    BY <2>1, EntriesKept DEF SumOf
  <2> QED BY <2>1, <2>2 DEF Stream!vars
<1>5. CASE ReadUnit
  BY <1>5, UnitDelivers DEF Stream!Next
<1>6. CASE Done
  <2>1. /\ total' = total /\ readIn' = readIn /\ left' = 0 /\ chunk' = chunk
        /\ entrySpan' = entrySpan
    BY <1>6 DEF Done, fixed
  <2>2. Entries' = Entries /\ pos' = pos
    BY <2>1, EntriesKept DEF SumOf
  <2>3. CASE left = 0
    BY <2>1, <2>2, <2>3 DEF Stream!vars
  <2>4. CASE left # 0
    <3>1. readIn[curr] = total[curr] /\ curr = Len(total)
      BY <1>6, <2>4 DEF Done, SegmentRead
    <3>2. \A s \in Segments : readIn[s] = total[s]
      <4>1. Len(total) \in Nat
        BY DEF OInv, EInv
      <4>2. \A s \in Segments : s = curr \/ s \in 1 .. curr - 1
        BY <3>1, <4>1 DEF Segments
      <4> QED BY <3>1, <4>2 DEF OInv, ReadInOrder
    <3>3. pos = SumOf(total)
      BY <3>2, PositionIsSum DEF PositionFits
    <3>4. Len(Entries) = SumOf(total)
      BY EntriesInOrder DEF OInv, EInv, EntriesFit
    <3> HIDE DEF pos
    <3>5. Stream!Return
      BY <2>1, <2>2, <3>3, <3>4 DEF Stream!Return, pos
    <3> QED BY <3>5 DEF Stream!Next
  <2> QED BY <2>3, <2>4
<1>7. ASSUME NEW p, Reset(p) PROVE Stream!Next
  <2>1. total' = total /\ left' = left /\ chunk' = chunk /\ entrySpan' = entrySpan
    BY <1>7 DEF Reset, fixed
  <2>2. left = 0
    BY <1>7 DEF OInv, Call, Reset
  <2>3. Entries' = Entries /\ SumOf(total)' = SumOf(total)
    BY <2>1, EntriesKept
  <2>4. pos' \in Nat /\ pos' <= SumOf(total)
    BY <2>3, PositionFitsNext DEF PositionFits
  <2>5. Len(Entries) = SumOf(total) /\ SumOf(total) \in Nat
    BY EntriesInOrder DEF OInv, EInv, EntriesFit
  <2> HIDE DEF pos
  <2>6. pos' \in 0 .. Len(Entries)
    BY <2>4, <2>5
  <2>7. Stream!Reset
    BY <2>1, <2>2, <2>3, <2>6 DEF Stream!Reset, pos
  <2> QED BY <2>7 DEF Stream!Next
<1>8. CASE UNCHANGED vars
  <2>1. /\ total' = total /\ readIn' = readIn /\ left' = left /\ chunk' = chunk
        /\ entrySpan' = entrySpan
    BY <1>8 DEF vars
  <2>2. Entries' = Entries /\ pos' = pos
    BY <2>1, EntriesKept DEF SumOf
  <2> QED BY <2>1, <2>2 DEF Stream!vars
<1> QED BY <1>1, <1>2, <1>3, <1>4, <1>5, <1>6, <1>7, <1>8 DEF Next, ReadStep

(* An enumeration is one sequence that is read in chunks: no call skips an  *)
(* entry or reads one twice, over the ends of segments and after any Reset, *)
(* and a call reads less than it might only at the end of the sequence.     *)
THEOREM ChainsAreStreams ==
    ASSUME MaxLists <= 3
    PROVE  Spec => ImplementsTokenStream
<1>1. OInv /\ [Next]_vars => OInv'
  BY OStep
<1> QED BY OInit, <1>1, StreamInit, StreamStep, PTL
        DEF Spec, ImplementsTokenStream, Stream!Spec

(* The same of the callers that the other properties are about.             *)
THEOREM EvenChainsAreStreams ==
    ASSUME MaxLists <= 3
    PROVE  EvenSpec => ImplementsTokenStream
<1>1. [EvenNext]_vars => [Next]_vars
  BY DEF EvenNext, Next
<1>2. OInv /\ [Next]_vars => OInv'
  BY OStep
<1> QED BY OInit, <1>1, <1>2, StreamInit, StreamStep, PTL
        DEF EvenSpec, ImplementsTokenStream, Stream!Spec
=============================================================================
