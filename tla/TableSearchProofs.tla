-------------------------- MODULE TableSearchProofs --------------------------
(***************************************************************************)
(* The searches over a column are right for every sorted column: the       *)
(* recursive function Probe is well defined, and what md_bsearch,          *)
(* md_lsearch and mdtable_bsearch_closest return follows from it.          *)
(*                                                                         *)
(* Recursion is handled by least counterexamples: if some window, or some  *)
(* bound on the size of windows, fails then a smallest one does.           *)
(*                                                                         *)
(* The first part is for other proofs as well: what the operators of the   *)
(* community modules on sequences and sets of numbers compute, and         *)
(* induction on an interval.                                               *)
(***************************************************************************)
EXTENDS TableSearch, SequencesExt, SequenceTheorems, WellFoundedInduction, TLAPS
----------------------------------------------------------------------------
(* Sequences, least and greatest members, induction.                        *)

(* Inserting moves the elements from r on by one place.                     *)
LEMMA InsertAtProperties ==
    ASSUME NEW S, NEW s, NEW r, NEW e,
           s \in Seq(S), r \in 1 .. Len(s) + 1, e \in S
    PROVE  /\ InsertAt(s, r, e) \in Seq(S)
           /\ Len(InsertAt(s, r, e)) = Len(s) + 1
           /\ \A i \in 1 .. Len(s) + 1 :
                 InsertAt(s, r, e)[i] = IF i < r THEN s[i]
                                        ELSE IF i = r THEN e ELSE s[i - 1]
<1> DEFINE before == SubSeq(s, 1, r - 1)
           after  == SubSeq(s, r, Len(s))
           front  == before \o <<e>>
<1>1. Len(s) \in Nat /\ r \in Nat \ {0} /\ \A i \in 1 .. Len(s) : s[i] \in S
  BY LenProperties, ElementOfSeq
<1>2. /\ before \in Seq(S) /\ Len(before) = r - 1
      /\ \A i \in 1 .. r - 1 : before[i] = s[i]
  <2>1. 1 \in Int /\ r - 1 \in Int /\ \A i \in 1 .. r - 1 : s[i] \in S
    BY <1>1
  <2>2. /\ before \in Seq(S)
        /\ Len(before) = IF 1 <= r - 1 THEN (r - 1) - 1 + 1 ELSE 0
        /\ \A i \in 1 .. (r - 1) - 1 + 1 : before[i] = s[1 + i - 1]
    BY <2>1, SubSeqProperties
  <2>3. \A i \in 1 .. r - 1 : i \in 1 .. (r - 1) - 1 + 1 /\ 1 + i - 1 = i
    BY <1>1
  <2> HIDE DEF before
  <2>4. Len(before) = r - 1
    BY <1>1, <2>2
  <2>5. \A i \in 1 .. r - 1 : before[i] = s[i]
    BY <2>2, <2>3
  <2> QED BY <2>2, <2>4, <2>5
<1>3. /\ after \in Seq(S) /\ Len(after) = Len(s) - r + 1
      /\ \A i \in 1 .. Len(s) - r + 1 : after[i] = s[r + i - 1]
  <2>1. r \in Int /\ Len(s) \in Int /\ \A i \in r .. Len(s) : s[i] \in S
    BY <1>1
  <2>2. /\ after \in Seq(S)
        /\ Len(after) = IF r <= Len(s) THEN Len(s) - r + 1 ELSE 0
        /\ \A i \in 1 .. Len(s) - r + 1 : after[i] = s[r + i - 1]
    BY <2>1, SubSeqProperties
  <2> HIDE DEF after
  <2> QED BY <1>1, <2>2
<1>4. <<e>> \in Seq(S) /\ Len(<<e>>) = 1 /\ <<e>>[1] = e
  OBVIOUS
<1> HIDE DEF before, after
<1>5. /\ front \in Seq(S) /\ Len(front) = r
      /\ \A i \in 1 .. r : front[i] = IF i < r THEN s[i] ELSE e
  <2>1. /\ front \in Seq(S)
        /\ Len(front) = Len(before) + Len(<<e>>)
        /\ \A i \in 1 .. Len(before) + Len(<<e>>) :
              front[i] = IF i <= Len(before) THEN before[i] ELSE <<e>>[i - Len(before)]
    BY <1>2, <1>4, ConcatProperties
  <2> HIDE DEF front
  <2> QED BY <1>1, <1>2, <1>4, <2>1
<1> HIDE DEF front
<1>6. /\ front \o after \in Seq(S)
      /\ Len(front \o after) = Len(front) + Len(after)
      /\ \A i \in 1 .. Len(front) + Len(after) :
            (front \o after)[i] = IF i <= Len(front) THEN front[i]
                                  ELSE after[i - Len(front)]
  BY <1>3, <1>5, ConcatProperties
<1>7. InsertAt(s, r, e) = front \o after
  BY DEF InsertAt, front, before, after
<1>8. Len(front) + Len(after) = Len(s) + 1
  BY <1>1, <1>3, <1>5
<1>9. ASSUME NEW i \in 1 .. Len(s) + 1
      PROVE  (front \o after)[i] = IF i < r THEN s[i]
                                   ELSE IF i = r THEN e ELSE s[i - 1]
  <2>1. CASE i <= r
    BY <1>1, <1>5, <1>6, <1>8, <2>1
  <2>2. CASE i > r
    <3>1. i - r \in 1 .. Len(s) - r + 1 /\ r + (i - r) - 1 = i - 1
      BY <1>1, <2>2
    <3>2. after[i - r] = s[i - 1]
      BY <1>3, <3>1
    <3> QED BY <1>1, <1>5, <1>6, <1>8, <2>2, <3>2
  <2>3. i <= r \/ i > r
    BY <1>1
  <2> QED BY <2>1, <2>2, <2>3
<1> QED BY <1>6, <1>7, <1>8, <1>9

(* The same as a predicate, for proofs that carry it around as one fact.     *)
InsertsOne(S, s, r, e) ==
    /\ InsertAt(s, r, e) \in Seq(S)
    /\ Len(InsertAt(s, r, e)) = Len(s) + 1
    /\ \A i \in 1 .. Len(s) + 1 :
          InsertAt(s, r, e)[i] = IF i < r THEN s[i]
                                 ELSE IF i = r THEN e ELSE s[i - 1]

LEMMA InsertAtInserts ==
    ASSUME NEW S, NEW s, NEW r, NEW e,
           s \in Seq(S), r \in 1 .. Len(s) + 1, e \in S
    PROVE  InsertsOne(S, s, r, e)
BY InsertAtProperties DEF InsertsOne

(* A set of natural numbers has a least element.                            *)
LEMMA MinIsMember ==
    ASSUME NEW T, T \subseteq Nat, T # {}
    PROVE  Min(T) \in T /\ \A y \in T : Min(T) <= y
<1>1. PICK x \in T : \A y \in T : ~ (<<y, x>> \in OpToRel(<, Nat))
  BY NatLessThanWellFounded, WFMin
<1>2. \A y \in T : x <= y
  <2> SUFFICES ASSUME NEW y \in T PROVE x <= y
    OBVIOUS
  <2>1. <<y, x>> \in Nat \X Nat
    OBVIOUS
  <2>2. ~(y < x)
    BY <1>1, <2>1 DEF OpToRel
  <2> QED BY <2>2
<1> QED BY <1>2 DEF Min

(* A bounded set of natural numbers has a greatest element.                 *)
LEMMA MaxIsMember ==
    ASSUME NEW T, NEW b \in Nat, T \subseteq 0 .. b, T # {}
    PROVE  Max(T) \in T /\ \A y \in T : Max(T) >= y
<1> DEFINE D == {b - y : y \in T}
<1>1. D \subseteq Nat /\ D # {}
  <2>1. \A y \in T : b - y \in Nat
    OBVIOUS
  <2> QED BY <2>1
<1>2. PICK x \in D : \A y \in D : ~ (<<y, x>> \in OpToRel(<, Nat))
  BY <1>1, NatLessThanWellFounded, WFMin
<1>3. PICK m \in T : x = b - m
  OBVIOUS
<1>4. \A y \in T : m >= y
  <2> SUFFICES ASSUME NEW y \in T PROVE m >= y
    OBVIOUS
  <2>1. b - y \in D /\ <<b - y, x>> \in Nat \X Nat
    BY <1>1, <1>2
  <2>2. ~(b - y < x)
    BY <1>2, <2>1 DEF OpToRel
  <2> QED BY <1>3, <2>2
<1> QED BY <1>3, <1>4 DEF Max

(* A function on 1 .. n is a sequence of length n.                          *)
LEMMA FunctionIsSequence ==
    ASSUME NEW S, NEW n \in Nat, NEW f \in [1 .. n -> S]
    PROVE  f \in Seq(S) /\ Len(f) = n
OBVIOUS

(* A bounded sequence is a sequence within its bound.                       *)
LEMMA BoundedSequences ==
    ASSUME NEW S, NEW n \in Nat, NEW s \in BoundedSeq(S, n)
    PROVE  s \in Seq(S) /\ Len(s) <= n
<1>1. PICK m \in 0 .. n : s \in [1 .. m -> S]
  BY DEF BoundedSeq, SeqOf
<1> QED BY <1>1, FunctionIsSequence

(* Inserting a value that is not there keeps a sequence without repetitions. *)
LEMMA InsertKeepsDistinct ==
    ASSUME NEW n, NEW s, NEW r,
           n \in Nat, s \in Seq(1 .. n), Len(s) = n, r \in 1 .. n + 1,
           \A i, j \in 1 .. n : s[i] = s[j] => i = j
    PROVE  \A i, j \in 1 .. n + 1 :
              InsertAt(s, r, n + 1)[i] = InsertAt(s, r, n + 1)[j] => i = j
<1> DEFINE S == 1 .. n + 1
           e == n + 1
<1>1. s \in Seq(S) /\ r \in 1 .. Len(s) + 1 /\ e \in S
  <2>1. 1 .. n \subseteq 1 .. n + 1
    OBVIOUS
  <2> QED BY <2>1, SeqMonotonic
<1> HIDE DEF S, e
<1>2. /\ InsertAt(s, r, e) \in Seq(S)
      /\ Len(InsertAt(s, r, e)) = Len(s) + 1
      /\ \A i \in 1 .. Len(s) + 1 : InsertAt(s, r, e)[i] = IF i < r THEN s[i]
                                           ELSE IF i = r THEN e ELSE s[i - 1]
  BY ONLY <1>1, InsertAtProperties
<1> DEFINE t == InsertAt(s, r, n + 1)
<1>3. \A i \in 1 .. n + 1 : t[i] = IF i < r THEN s[i]
                                   ELSE IF i = r THEN n + 1 ELSE s[i - 1]
  BY <1>2 DEF e
<1>4. \A i \in 1 .. n : s[i] \in 1 .. n
  BY ElementOfSeq
<1> HIDE DEF t
<1> DEFINE old(i) == IF i < r THEN i ELSE i - 1
<1>5. \A i \in 1 .. n + 1 : i # r => old(i) \in 1 .. n
  OBVIOUS
<1>6. \A i \in 1 .. n + 1 : i # r => t[i] = s[old(i)]
  BY <1>3
<1>7. \A i, j \in 1 .. n + 1 : i # r /\ j # r /\ old(i) = old(j) => i = j
  OBVIOUS
<1>8. t[r] = n + 1
  BY <1>3
<1> HIDE DEF old
<1>9. \A i \in 1 .. n + 1 : i # r => t[i] # n + 1
  BY <1>5, <1>6, <1>4
<1>10. ASSUME NEW i \in 1 .. n + 1, NEW j \in 1 .. n + 1, t[i] = t[j]
      PROVE  i = j
  <2>1. CASE i # r /\ j # r
    <3>1. s[old(i)] = s[old(j)] /\ old(i) \in 1 .. n /\ old(j) \in 1 .. n
      BY <1>5, <1>6, <1>10, <2>1
    <3> QED BY <1>7, <2>1, <3>1
  <2>2. CASE i = r \/ j = r
    BY <1>8, <1>9, <1>10, <2>2
  <2> QED BY <2>1, <2>2
<1> QED BY <1>10 DEF t

(* What holds at 0, and at k + 1 where it holds at k, holds up to n.        *)
LEMMA IntervalInduction ==
    ASSUME NEW n \in Nat, NEW G, 0 \in G,
           \A k \in 0 .. n - 1 : k \in G => k + 1 \in G
    PROVE  \A k \in 0 .. n : k \in G
<1> DEFINE bad == {k \in 0 .. n : k \notin G}
<1> SUFFICES ASSUME bad # {} PROVE FALSE
  OBVIOUS
<1>1. bad \subseteq Nat
  OBVIOUS
<1>2. Min(bad) \in bad /\ \A y \in bad : Min(bad) <= y
  BY <1>1, MinIsMember
<1> DEFINE m == Min(bad)
<1>3. m \in 0 .. n /\ m \notin G /\ \A y \in bad : m <= y
  BY <1>2
<1> HIDE DEF m
<1>4. m # 0
  BY <1>3
<1>5. m - 1 \in 0 .. n - 1 /\ m - 1 \in 0 .. n /\ ~(m <= m - 1) /\ (m - 1) + 1 = m
  BY <1>3, <1>4
<1>6. m - 1 \in G
  BY <1>3, <1>5
<1> QED BY <1>3, <1>5, <1>6

(* What f reaches from a by m steps in X.                                   *)
IsRun(f, m, X, a, step) ==
    /\ f \in [0 .. m -> X]
    /\ f[0] = a
    /\ \A k \in 1 .. m : f[k] = step[k][f[k - 1]]

(* Steps 1 .. n can be taken one after the other.                           *)
LEMMA Iterates ==
    ASSUME NEW X, NEW n \in Nat, NEW a \in X, NEW step \in [1 .. n -> [X -> X]]
    PROVE  \E f : IsRun(f, n, X, a, step)
<1> DEFINE G == {m \in 0 .. n : \E f : IsRun(f, m, X, a, step)}
<1>1. 0 \in G
  <2> DEFINE f == [k \in 0 .. 0 |-> a]
  <2>1. f \in [0 .. 0 -> X] /\ f[0] = a /\ \A k \in 1 .. 0 : FALSE
    OBVIOUS
  <2> HIDE DEF f
  <2>2. IsRun(f, 0, X, a, step)
    BY <2>1 DEF IsRun
  <2> QED BY <2>2
<1>2. ASSUME NEW m \in 0 .. n - 1, m \in G PROVE m + 1 \in G
  <2>1. PICK f : IsRun(f, m, X, a, step)
    BY <1>2
  <2> DEFINE g == [k \in 0 .. m + 1 |-> IF k = m + 1 THEN step[m + 1][f[m]] ELSE f[k]]
  <2>2. m + 1 \in 1 .. n /\ f[m] \in X /\ step[m + 1] \in [X -> X]
    BY <2>1 DEF IsRun
  <2>3. step[m + 1][f[m]] \in X
    BY <2>2
  <2>4. \A k \in 0 .. m : g[k] = f[k] /\ g[k] \in X
    BY <2>1 DEF IsRun
  <2>5. g[m + 1] = step[m + 1][f[m]]
    BY <2>2
  <2>6. g = [k \in 0 .. m + 1 |-> g[k]]
    OBVIOUS
  <2> HIDE DEF g
  <2>7. g \in [0 .. m + 1 -> X]
    <3>1. ASSUME NEW k \in 0 .. m + 1 PROVE g[k] \in X
      <4>1. CASE k = m + 1
        BY <2>3, <2>5, <4>1
      <4>2. CASE k # m + 1
        <5>1. k \in 0 .. m
          BY <1>2, <4>2
        <5> QED BY <2>4, <5>1
      <4> QED BY <4>1, <4>2
    <3> QED BY <2>6, <3>1
  <2>8. ASSUME NEW k \in 1 .. m + 1 PROVE g[k] = step[k][g[k - 1]]
    <3>1. CASE k = m + 1
      <4>1. k - 1 \in 0 .. m /\ k - 1 = m
        BY <1>2, <3>1
      <4> QED BY <2>4, <2>5, <3>1, <4>1
    <3>2. CASE k # m + 1
      <4>1. k \in 1 .. m /\ k \in 0 .. m /\ k - 1 \in 0 .. m
        BY <1>2, <3>2
      <4> QED BY <2>1, <2>4, <4>1 DEF IsRun
    <3> QED BY <3>1, <3>2
  <2>9. g[0] = a
    BY <2>1, <2>4 DEF IsRun
  <2>10. IsRun(g, m + 1, X, a, step) /\ m + 1 \in 0 .. n
    BY <1>2, <2>7, <2>8, <2>9 DEF IsRun
  <2> QED BY <2>10
<1>3. n \in G
  <2> HIDE DEF G
  <2>1. \A k \in 0 .. n : k \in G
    BY <1>1, <1>2, IntervalInduction
  <2> QED BY <2>1
<1> QED BY <1>3

(* Numbers of which none is below the one before are in order.              *)
LEMMA NeighboursAscend ==
    ASSUME NEW s \in Seq(Nat), \A i \in 2 .. Len(s) : s[i - 1] <= s[i]
    PROVE  \A i, j \in 1 .. Len(s) : i <= j => s[i] <= s[j]
<1> SUFFICES ASSUME NEW i \in 1 .. Len(s) PROVE \A j \in i .. Len(s) : s[i] <= s[j]
  OBVIOUS
<1> DEFINE n == Len(s)
           G == {d \in 0 .. n - i : s[i] <= s[i + d]}
<1>1. n \in Nat /\ \A j \in 1 .. n : s[j] \in Nat
  OBVIOUS
<1>2. 0 \in G
  BY <1>1
<1>3. ASSUME NEW d \in 0 .. (n - i) - 1, d \in G PROVE d + 1 \in G
  <2>1. i + d \in 1 .. n /\ i + (d + 1) \in 2 .. n /\ (i + (d + 1)) - 1 = i + d
        /\ d + 1 \in 0 .. n - i /\ i + (d + 1) \in 1 .. n
    BY <1>1, <1>3
  <2>2. s[i + d] <= s[i + (d + 1)] /\ s[i] <= s[i + d]
    BY <1>3, <2>1
  <2> QED BY <1>1, <2>1, <2>2
<1>4. \A d \in 0 .. n - i : d \in G
  <2>1. n - i \in Nat
    BY <1>1
  <2> HIDE DEF G
  <2> QED BY <1>2, <1>3, <2>1, IntervalInduction
<1> SUFFICES ASSUME NEW j \in i .. n PROVE s[i] <= s[j]
  OBVIOUS
<1>5. j - i \in 0 .. n - i /\ i + (j - i) = j
  BY <1>1
<1> QED BY <1>4, <1>5
----------------------------------------------------------------------------
(* The searches.                                                            *)

(* One turn of the loop in window w, where f tells how the loop goes on.    *)
Turn(f, col, key, w) ==
    LET row == w[1] + w[2] \div 2
        res == col_compare(key, col[row])
    IN  IF w[2] = 0 THEN [row |-> w[1], res |-> 0]
        ELSE IF res = 0 \/ w[2] = 1 THEN [row |-> row, res |-> res]
        ELSE IF res < 0 THEN f[<<w[1], w[2] \div 2>>]
        ELSE f[<<row, w[2] - w[2] \div 2>>]

LEMMA ProbeIsChosen ==
    ASSUME NEW col, NEW key
    PROVE  Probe(col, key) = CHOOSE f : f = [w \in Windows(col) |-> Turn(f, col, key, w)]
BY DEF Probe, Turn

(* The loop goes on in a smaller window of the column, or stops.            *)
LEMMA SmallerWindows ==
    ASSUME NEW col, Len(col) \in Nat, NEW w \in Windows(col), w[2] > 1
    PROVE  /\ <<w[1], w[2] \div 2>> \in Windows(col)
           /\ <<w[1] + w[2] \div 2, w[2] - w[2] \div 2>> \in Windows(col)
           /\ w[2] \div 2 \in 1 .. w[2] - 1
           /\ w[2] - w[2] \div 2 \in 1 .. w[2] - 1
<1> DEFINE n == Len(col)
           b == w[1]
           c == w[2]
<1>1. b \in 1 .. n /\ c \in 2 .. n /\ b + c <= n + 1
  BY DEF Windows
<1> HIDE DEF b, c
<1>2. c \div 2 \in 1 .. c - 1 /\ c - c \div 2 \in 1 .. c - 1
  BY <1>1
<1> HIDE DEF n
<1>3. /\ b \in 1 .. n /\ c \div 2 \in 0 .. n /\ b + c \div 2 <= n + 1
      /\ b + c \div 2 \in 1 .. n /\ c - c \div 2 \in 0 .. n
      /\ (b + c \div 2) + (c - c \div 2) <= n + 1
  <2>1. n \in Nat
    BY DEF n
  <2> QED BY <1>1, <1>2, <2>1
<1>4. \A x \in 1 .. n, y \in 0 .. n : x + y <= n + 1 => <<x, y>> \in Windows(col)
  BY DEF Windows, n
<1>5. <<b, c \div 2>> \in Windows(col)
  BY <1>3, <1>4
<1>6. <<b + c \div 2, c - c \div 2>> \in Windows(col)
  BY <1>3, <1>4
<1> QED BY <1>2, <1>5, <1>6 DEF b, c

(* f solves the recursion for the windows of at most `bound' rows.          *)
Solution(f, col, key, bound) ==
    f = [w \in {v \in Windows(col) : v[2] <= bound} |-> Turn(f, col, key, w)]

(* Up to every bound on the size of the windows there is a solution.        *)
LEMMA ProbeApproximations ==
    ASSUME NEW col, NEW key, Len(col) \in Nat, NEW bound \in Nat
    PROVE  \E f : Solution(f, col, key, bound)
<1> DEFINE D(k) == {v \in Windows(col) : v[2] <= k}
           Solved(k) == \E f : f = [w \in D(k) |-> Turn(f, col, key, w)]
           bad == {k \in Nat : ~Solved(k)}
<1>1. Solved(0)
  <2> DEFINE f == [w \in D(0) |-> [row |-> w[1], res |-> 0]]
  <2>1. \A w \in D(0) : w[2] = 0
    BY DEF Windows
  <2>2. \A w \in D(0) : Turn(f, col, key, w) = [row |-> w[1], res |-> 0]
    BY <2>1 DEF Turn
  <2> HIDE DEF D
  <2>3. f = [w \in D(0) |-> Turn(f, col, key, w)]
    BY <2>2
  <2> QED BY <2>3
<1>2. ASSUME NEW k \in Nat, Solved(k) PROVE Solved(k + 1)
  <2>1. PICK g : g = [w \in D(k) |-> Turn(g, col, key, w)]
    BY <1>2
  <2> DEFINE f == [w \in D(k + 1) |-> Turn(g, col, key, w)]
  <2>2. D(k) \subseteq D(k + 1)
    BY DEF Windows
  <2>3. \A v \in D(k) : g[v] = f[v]
    <3> SUFFICES ASSUME NEW v \in D(k) PROVE g[v] = f[v]
      OBVIOUS
    <3>1. g[v] = Turn(g, col, key, v)
      <4> HIDE DEF D
      <4> QED BY <2>1
    <3>2. v \in D(k + 1)
      BY <2>2
    <3> HIDE DEF D
    <3> QED BY <3>1, <3>2
  <2>4. ASSUME NEW w \in D(k + 1) PROVE Turn(g, col, key, w) = Turn(f, col, key, w)
    <3>1. CASE w[2] > 1
      <4>1. w \in Windows(col) /\ w[2] <= k + 1 /\ w[2] \in Int
        BY DEF Windows
      <4>2. /\ <<w[1], w[2] \div 2>> \in D(k)
            /\ <<w[1] + w[2] \div 2, w[2] - w[2] \div 2>> \in D(k)
        <5> DEFINE x == w[2] \div 2
                   y == w[2] - w[2] \div 2
        <5>1. <<w[1], x>> \in Windows(col) /\ x \in 1 .. w[2] - 1
          BY <3>1, <4>1, SmallerWindows
        <5>2. <<w[1] + x, y>> \in Windows(col) /\ y \in 1 .. w[2] - 1
          BY <3>1, <4>1, SmallerWindows
        <5> HIDE DEF x, y
        <5>3. x <= k /\ y <= k
          BY <4>1, <5>1, <5>2
        <5> HIDE DEF D
        <5>4. <<w[1], x>> \in D(k) /\ <<w[1] + x, y>> \in D(k)
          BY <5>1, <5>2, <5>3 DEF D
        <5> QED BY <5>4 DEF x, y
      <4>3. /\ g[<<w[1], w[2] \div 2>>] = f[<<w[1], w[2] \div 2>>]
            /\ g[<<w[1] + w[2] \div 2, w[2] - w[2] \div 2>>]
                  = f[<<w[1] + w[2] \div 2, w[2] - w[2] \div 2>>]
        <5> HIDE DEF f, D
        <5> QED BY <2>3, <4>2
      <4> HIDE DEF f, D
      <4> QED BY <4>3, Zenon DEF Turn
    <3>2. CASE ~(w[2] > 1)
      <4>1. w[2] = 0 \/ w[2] = 1
        BY <3>2 DEF Windows
      <4> HIDE DEF f, D
      <4> QED BY <4>1 DEF Turn
    <3> QED BY <3>1, <3>2
  <2>5. f = [w \in D(k + 1) |-> Turn(f, col, key, w)]
    <3> HIDE DEF D
    <3> QED BY <2>4
  <2> QED BY <2>5
<1> HIDE DEF Solved
<1>3. bad = {}
  <2> SUFFICES ASSUME bad # {} PROVE FALSE
    OBVIOUS
  <2> DEFINE k == Min(bad)
  <2>1. k \in bad /\ \A j \in bad : k <= j
    BY MinIsMember
  <2> HIDE DEF k
  <2>2. k # 0
    BY <1>1, <2>1
  <2>3. k - 1 \in Nat /\ Solved(k - 1)
    BY <2>1, <2>2
  <2>4. Solved((k - 1) + 1) /\ (k - 1) + 1 = k
    BY <1>2, <2>1, <2>3
  <2> QED BY <2>1, <2>4
<1> QED BY <1>3 DEF Solved, Solution

(* Probe satisfies its recursion.                                           *)
LEMMA ProbeTurns ==
    ASSUME NEW col, NEW key, Len(col) \in Nat
    PROVE  \A w \in Windows(col) :
              Probe(col, key)[w] = Turn(Probe(col, key), col, key, w)
<1> DEFINE D == {v \in Windows(col) : v[2] <= Len(col)}
<1>1. D = Windows(col)
  BY DEF Windows
<1>2. \E f : f = [w \in D |-> Turn(f, col, key, w)]
  <2>1. PICK f : Solution(f, col, key, Len(col))
    BY ProbeApproximations
  <2> QED BY <2>1 DEF Solution
<1> HIDE DEF D
<1>3. Probe(col, key) = [w \in Windows(col) |-> Turn(Probe(col, key), col, key, w)]
  BY <1>1, <1>2, ProbeIsChosen
<1> DEFINE p == Probe(col, key)
<1>4. p = [w \in Windows(col) |-> Turn(p, col, key, w)]
  BY <1>3
<1> HIDE DEF p
<1> QED BY <1>4 DEF p

(* Below Half the wrapped difference is the difference.                     *)
LEMMA CompareIsExact ==
    ASSUME NEW a \in 0 .. Half - 1, NEW b \in 0 .. Half - 1
    PROVE  col_compare(a, b) = a - b
BY HalfAssumption DEF col_compare, Wrapped

(* What the loop finds in a window of an ascending column: a row with the   *)
(* key, or, if no row of the window has it, the last row that is smaller,   *)
(* or the first row of the window when all of them are larger.              *)
HitOrNeighbour(col, key, w, hit) ==
    LET window == w[1] .. w[1] + w[2] - 1
    IN  /\ hit.row \in window
        /\ hit.res = key - col[hit.row]
        /\ hit.res < 0 => hit.row = w[1]
        /\ hit.res # 0 => \A r \in window : r > hit.row => col[r] > key

LEMMA ProbeFinds ==
    ASSUME NEW col \in Seq(0 .. Half - 1), NEW key \in 0 .. Half - 1, Ascending(col),
           NEW w \in Windows(col), w[2] > 0
    PROVE  HitOrNeighbour(col, key, w, Probe(col, key)[w])
<1> DEFINE n == Len(col)
           p == Probe(col, key)
           Good(v) == HitOrNeighbour(col, key, v, p[v])
           bad == {v[2] : v \in {u \in Windows(col) : u[2] > 0 /\ ~Good(u)}}
<1>1. /\ n \in Nat
      /\ \A r \in 1 .. n : col[r] \in 0 .. Half - 1 /\ col[r] \in Int
      /\ key \in Int
      /\ \A i, j \in 1 .. n : i <= j => col[i] <= col[j]
  BY HalfAssumption DEF Ascending
<1>2. \A v \in Windows(col) : p[v] = Turn(p, col, key, v)
  BY <1>1, ProbeTurns
<1>3. ASSUME NEW v \in Windows(col), v[2] > 0,
             \A u \in Windows(col) : u[2] > 0 /\ u[2] < v[2] => Good(u)
      PROVE  Good(v)
  <2> DEFINE b == v[1]
             c == v[2]
             mid == b + c \div 2
             res == col_compare(key, col[mid])
             low == <<b, c \div 2>>
             high == <<mid, c - c \div 2>>
  <2>1. b \in 1 .. n /\ c \in 1 .. n /\ b + c <= n + 1
    BY <1>3 DEF Windows
  <2>2. mid \in b .. b + c - 1 /\ mid \in 1 .. n
    <3> HIDE DEF b, c, n
    <3> QED BY <1>1, <2>1
  <2>3. res = key - col[mid]
    <3> HIDE DEF mid, n
    <3> QED BY <1>1, <2>2, CompareIsExact
  <2>4. p[v] = IF res = 0 \/ c = 1 THEN [row |-> mid, res |-> res]
               ELSE IF res < 0 THEN p[low] ELSE p[high]
    <3>1. p[v] = Turn(p, col, key, v)
      BY <1>2
    <3>2. v[2] # 0
      BY <1>3
    <3> HIDE DEF p
    <3> QED BY <3>1, <3>2 DEF Turn
  <2>5. CASE res = 0 \/ c = 1
    <3>1. p[v] = [row |-> mid, res |-> res]
      BY <2>4, <2>5
    <3>2. p[v].row = mid /\ p[v].res = res
      BY <3>1
    <3>3. res < 0 => mid = b
      <4> HIDE DEF res, p
      <4> QED BY <2>1, <2>5
    <3>4. res # 0 => \A r \in b .. b + c - 1 : r > mid => col[r] > key
      <4> HIDE DEF res, p
      <4> QED BY <2>1, <2>5
    <3> HIDE DEF p, mid, res
    <3> QED BY <2>2, <2>3, <3>2, <3>3, <3>4 DEF HitOrNeighbour
  <2>6. CASE res # 0 /\ c > 1
    <3>1. /\ low \in Windows(col) /\ high \in Windows(col)
          /\ c \div 2 \in 1 .. c - 1 /\ c - c \div 2 \in 1 .. c - 1
      BY <1>1, <2>6, SmallerWindows
    <3>2. low[1] = b /\ low[2] = c \div 2 /\ high[1] = mid /\ high[2] = c - c \div 2
      OBVIOUS
    <3>3. mid + (c - c \div 2) = b + c /\ mid = b + c \div 2
      <4> HIDE DEF b, c
      <4> QED BY <2>1
    <3>4. Good(low) /\ Good(high)
      <4> HIDE DEF Good, low, high, mid, c, b
      <4>1. low[2] > 0 /\ low[2] < v[2] /\ high[2] > 0 /\ high[2] < v[2]
        BY <2>1, <3>1, <3>2 DEF c
      <4> QED BY <1>3, <3>1, <4>1
    <3> HIDE DEF low, high
    <3>5. CASE res < 0
      <4>1. p[v] = p[low]
        <5> HIDE DEF res, p
        <5> QED BY <2>4, <2>6, <3>5
      <4>2. \A r \in mid .. b + c - 1 : col[r] > key
        <5> HIDE DEF b, c, n, p
        <5>1. key < col[mid]
          BY <1>1, <2>2, <2>3, <3>5
        <5> HIDE DEF mid, res
        <5> QED BY <1>1, <2>1, <2>2, <5>1
      <4>3. /\ p[low].row \in b .. mid - 1
            /\ p[low].res = key - col[p[low].row]
            /\ p[low].res < 0 => p[low].row = b
            /\ p[low].res # 0 => \A r \in b .. mid - 1 : r > p[low].row => col[r] > key
        <5>1. HitOrNeighbour(col, key, low, p[low])
          BY <3>4
        <5> HIDE DEF p, b, c, mid
        <5>2. low[1] + low[2] - 1 = mid - 1
          BY <2>1, <2>2, <3>2, <3>3
        <5> QED BY <3>2, <5>1, <5>2 DEF HitOrNeighbour
      <4> DEFINE h == p[low]
      <4>4. /\ h.row \in b .. b + c - 1
            /\ h.res = key - col[h.row]
            /\ h.res < 0 => h.row = b
            /\ h.res # 0 => \A r \in b .. b + c - 1 : r > h.row => col[r] > key
        <5> HIDE DEF p, b, c, mid, res, n
        <5>1. \A r \in b .. b + c - 1 : r \in b .. mid - 1 \/ r \in mid .. b + c - 1
          BY <2>1, <2>2
        <5> QED BY <2>1, <2>2, <4>2, <4>3, <5>1
      <4> HIDE DEF h, p
      <4> QED BY <4>1, <4>4 DEF HitOrNeighbour, h
    <3>6. CASE ~(res < 0)
      <4>1. p[v] = p[high]
        <5> HIDE DEF res, p
        <5> QED BY <2>4, <2>6, <3>6
      <4>2. col[mid] < key
        <5> HIDE DEF mid, n, p
        <5> QED BY <1>1, <2>2, <2>3, <2>6, <3>6
      <4>3. /\ p[high].row \in mid .. b + c - 1
            /\ p[high].res = key - col[p[high].row]
            /\ p[high].res < 0 => p[high].row = mid
            /\ p[high].res # 0 => \A r \in mid .. b + c - 1 : r > p[high].row => col[r] > key
        <5>1. HitOrNeighbour(col, key, high, p[high])
          BY <3>4
        <5> HIDE DEF p, b, c, mid
        <5>2. high[1] + high[2] - 1 = b + c - 1
          BY <2>1, <2>2, <3>2, <3>3
        <5> QED BY <3>2, <5>1, <5>2 DEF HitOrNeighbour
      <4> DEFINE h == p[high]
      <4>4. ~(h.res < 0)
        <5> HIDE DEF b, c, mid, p, n
        <5> QED BY <1>1, <2>2, <4>2, <4>3
      <4>5. /\ h.row \in b .. b + c - 1
            /\ h.res # 0 => \A r \in b .. b + c - 1 : r > h.row => col[r] > key
        <5> HIDE DEF p, b, c, mid, res, n
        <5>1. h.row \in b .. b + c - 1
          BY <2>1, <2>2, <4>3
        <5>2. ASSUME NEW r \in b .. b + c - 1, r > h.row PROVE r \in mid .. b + c - 1
          BY <2>1, <2>2, <4>3, <5>2
        <5> QED BY <4>3, <5>1, <5>2
      <4>6. h.res = key - col[h.row]
        BY <4>3
      <4> HIDE DEF h, p
      <4> QED BY <4>1, <4>4, <4>5, <4>6 DEF HitOrNeighbour, h
    <3> QED BY <3>5, <3>6
  <2>7. (res = 0 \/ c = 1) \/ (res # 0 /\ c > 1)
    <3> HIDE DEF b, c, res
    <3> QED BY <2>1
  <2> QED BY <2>5, <2>6, <2>7
<1> HIDE DEF Good
<1>4. bad = {}
  <2> SUFFICES ASSUME bad # {} PROVE FALSE
    OBVIOUS
  <2>1. bad \subseteq Nat
    BY DEF Windows
  <2>2. Min(bad) \in bad /\ \A j \in bad : Min(bad) <= j
    BY <2>1, MinIsMember
  <2>3. PICK v \in Windows(col) : v[2] > 0 /\ ~Good(v) /\ \A j \in bad : v[2] <= j
    BY <2>2
  <2>4. ASSUME NEW u \in Windows(col), u[2] > 0, u[2] < v[2] PROVE Good(u)
    <3> SUFFICES ASSUME ~Good(u) PROVE FALSE
      OBVIOUS
    <3>1. u[2] \in bad /\ v[2] <= u[2] /\ u[2] \in Int /\ v[2] \in Int
      BY <2>3, <2>4 DEF Windows
    <3> QED BY <2>4, <3>1
  <2> QED BY <1>3, <2>3, <2>4
<1> QED BY <1>4 DEF Good

(* md_bsearch: a row with the key from `first' on, or NULL if there is none *)
(* (search.template.h:16-46).                                               *)
THEOREM BinarySearchFinds ==
    ASSUME NEW col \in Seq(0 .. Half - 1), NEW key \in 0 .. Half - 1, Ascending(col),
           NEW first \in 1 .. Len(col)
    PROVE  LET r == md_bsearch(key, col, first)
           IN  IF r = 0 THEN \A s \in first .. Len(col) : col[s] # key
               ELSE r \in first .. Len(col) /\ col[r] = key
<1> DEFINE n == Len(col)
           w == <<first, n - first + 1>>
           hit == Probe(col, key)[w]
<1>1. /\ n \in Nat /\ key \in Int
      /\ \A r \in 1 .. n : col[r] \in Int
      /\ \A i, j \in 1 .. n : i <= j => col[i] <= col[j]
  BY HalfAssumption DEF Ascending
<1>2. w \in Windows(col) /\ w[2] > 0 /\ w[1] = first /\ w[1] + w[2] - 1 = n
  <2> HIDE DEF n
  <2> QED BY <1>1 DEF Windows, n
<1>3. HitOrNeighbour(col, key, w, hit)
  BY <1>2, ProbeFinds
<1> HIDE DEF w, hit
<1>4. /\ hit.row \in first .. n
      /\ hit.res = key - col[hit.row]
      /\ hit.res < 0 => hit.row = first
      /\ hit.res # 0 => \A r \in first .. n : r > hit.row => col[r] > key
  BY <1>2, <1>3 DEF HitOrNeighbour
<1>5. md_bsearch(key, col, first) = IF hit.res = 0 THEN hit.row ELSE 0
  BY DEF md_bsearch, hit, w
<1> HIDE DEF n
<1>6. ASSUME hit.res # 0, NEW s \in first .. n PROVE col[s] # key
  <2>1. CASE s > hit.row
    BY <1>1, <1>4, <1>6, <2>1
  <2>2. CASE s <= hit.row
    BY <1>1, <1>4, <1>6, <2>2
  <2> QED BY <1>4, <2>1, <2>2
<1>7. hit.res = 0 => col[hit.row] = key /\ hit.row # 0
  BY <1>1, <1>4
<1> QED BY <1>4, <1>5, <1>6, <1>7 DEF n

(* mdtable_bsearch_closest: on a miss the sign tells whether the whole      *)
(* column is larger, with row 1, or the row is the last smaller one         *)
(* (search.template.h:71-107).                                              *)
THEOREM ClosestFinds ==
    ASSUME NEW col \in Seq(0 .. Half - 1), NEW key \in 0 .. Half - 1, Ascending(col),
           col # << >>
    PROVE  LET hit == mdtable_bsearch_closest(key, col)
           IN  /\ hit.row \in 1 .. Len(col)
               /\ hit.res = key - col[hit.row]
               /\ hit.res < 0 => hit.row = 1
               /\ hit.res # 0 => \A r \in 1 .. Len(col) : r > hit.row => col[r] > key
<1> DEFINE n == Len(col)
           w == <<1, n>>
           hit == Probe(col, key)[w]
<1>1. n \in Nat \ {0}
  BY EmptySeq
<1>2. w \in Windows(col) /\ w[2] > 0 /\ w[1] = 1 /\ w[1] + w[2] - 1 = n
  <2> HIDE DEF n
  <2> QED BY <1>1 DEF Windows, n
<1>3. HitOrNeighbour(col, key, w, hit)
  BY <1>2, ProbeFinds
<1>4. mdtable_bsearch_closest(key, col) = hit
  BY DEF mdtable_bsearch_closest
<1> HIDE DEF w, hit
<1> QED BY <1>2, <1>3, <1>4 DEF HitOrNeighbour

(* md_lsearch: the first row with the key from `first' on, sorted or not    *)
(* (search.template.h:48-66).                                               *)
THEOREM LinearSearchFinds ==
    ASSUME NEW col \in Seq(0 .. Half - 1), NEW key \in 0 .. Half - 1,
           NEW first \in 1 .. Len(col)
    PROVE  LET r == md_lsearch(key, col, first)
           IN  IF r = 0 THEN \A s \in first .. Len(col) : col[s] # key
               ELSE /\ r \in first .. Len(col) /\ col[r] = key
                    /\ \A s \in first .. r - 1 : col[s] # key
<1> DEFINE n == Len(col)
           hits == {r \in first .. n : col_compare(key, col[r]) = 0}
<1>1. n \in Nat /\ key \in Int /\ \A r \in first .. n : col[r] \in 0 .. Half - 1 /\ col[r] \in Int
  BY HalfAssumption
<1>2. hits = {r \in first .. n : col[r] = key}
  <2> HIDE DEF n
  <2>1. \A r \in first .. n : col_compare(key, col[r]) = key - col[r]
    BY <1>1, CompareIsExact
  <2> QED BY <1>1, <2>1
<1>3. md_lsearch(key, col, first) = IF hits = {} THEN 0 ELSE Min(hits)
  BY DEF md_lsearch
<1>4. hits # {} => Min(hits) \in hits /\ \A y \in hits : Min(hits) <= y
  <2>1. hits \subseteq Nat
    OBVIOUS
  <2> HIDE DEF hits
  <2> QED BY <2>1, MinIsMember
<1> HIDE DEF hits
<1> DEFINE m == Min(hits)
<1> HIDE DEF m
<1>5. hits # {} => m \in hits /\ \A y \in hits : m <= y
  BY <1>4 DEF m
<1>6. md_lsearch(key, col, first) = IF hits = {} THEN 0 ELSE m
  BY <1>3 DEF m
<1> HIDE DEF n
<1> QED BY <1>1, <1>2, <1>5, <1>6 DEF n
==============================================================================
