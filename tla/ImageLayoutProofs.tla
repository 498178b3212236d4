-------------------------- MODULE ImageLayoutProofs --------------------------
(***************************************************************************)
(* The memory of tables and the widths of their columns, for any tables,   *)
(* columns and heaps, of a caller under which only deltas change widths.   *)
(*                                                                         *)
(* The argument: columns that refer to tables never change, as the tables  *)
(* stay within two bytes; columns that refer to a heap change together,    *)
(* with its flag.  So a row has the size a reader works out, and a copy,   *)
(* cell by cell, of rows into another layout fills just the memory that    *)
(* layout needs.  Of TableSearchProofs only the first part is used.        *)
(***************************************************************************)
EXTENDS ImageLayout, TableSearchProofs, FiniteSetTheorems
----------------------------------------------------------------------------
(* Numbers.                                                                 *)

LEMMA Division ==
    ASSUME NEW v \in Nat, NEW d \in Nat \ {0}
    PROVE  v % d \in 0 .. d - 1 /\ v \div d \in Nat
OBVIOUS

LEMMA ProductOrder ==
    ASSUME NEW a \in Nat, NEW b \in Nat, NEW d \in Nat
    PROVE  /\ a * d \in Nat
           /\ a <= b => a * d <= b * d
           /\ (a + 1) * d = a * d + d
OBVIOUS

LEMMA Quotient ==
    ASSUME NEW v \in Nat, NEW n \in Nat, NEW d \in Nat \ {0}, n * d <= v
    PROVE  n <= v \div d
OBVIOUS
----------------------------------------------------------------------------
(* Rows and their sizes.                                                    *)

Halves == 0 .. Max16

Wide(wide) == {c \in DOMAIN wide : wide[c]}

LEMMA Max16IsNumber == Max16 \in Nat /\ Max16 + 1 \in Nat \ {0}
<1>1. Max16 \in Nat
  BY LayoutAssumption, Zenon
<1> QED BY <1>1

LEMMA RowSizeFacts ==
    ASSUME NEW wide \in Seq(BOOLEAN)
    PROVE  /\ IsFiniteSet(Wide(wide))
           /\ RowSize(wide) = Len(wide) + Cardinality(Wide(wide))
           /\ Cardinality(Wide(wide)) \in Nat
           /\ RowSize(wide) \in Nat
           /\ Len(wide) \in Nat /\ DOMAIN wide = 1 .. Len(wide)
           /\ RowSize(wide) >= Len(wide)
<1>1. Len(wide) \in Nat /\ DOMAIN wide = 1 .. Len(wide)
  OBVIOUS
<1>2. IsFiniteSet(1 .. Len(wide))
  BY <1>1, FS_Interval
<1>3. Wide(wide) \in SUBSET (1 .. Len(wide))
  BY <1>1 DEF Wide
<1>4. IsFiniteSet(Wide(wide))
  BY <1>2, <1>3, FS_Subset
<1>5. Cardinality(Wide(wide)) \in Nat
  BY <1>4, FS_CardinalityType
<1>6. RowSize(wide) = Len(wide) + Cardinality(Wide(wide))
  BY DEF RowSize, Wide
<1> QED BY <1>1, <1>4, <1>5, <1>6

(* Rows of the same size are laid out alike, if columns only widen or only  *)
(* narrow ("we can't end up at the same size with changed column sizes",    *)
(* editor.c:300).                                                           *)
LEMMA SameSizeSameWidths ==
    ASSUME NEW wide \in Seq(BOOLEAN), NEW wide2 \in Seq(BOOLEAN), Len(wide) = Len(wide2),
           Wide(wide) \subseteq Wide(wide2) \/ Wide(wide2) \subseteq Wide(wide),
           RowSize(wide) = RowSize(wide2)
    PROVE  wide = wide2
<1>1. Cardinality(Wide(wide)) = Cardinality(Wide(wide2))
  <2> DEFINE a == Cardinality(Wide(wide))
             b == Cardinality(Wide(wide2))
  <2>1. a \in Nat /\ b \in Nat /\ Len(wide) \in Nat /\ Len(wide) + a = Len(wide) + b
    BY RowSizeFacts
  <2> HIDE DEF a, b
  <2>2. a = b
    BY <2>1
  <2> QED BY <2>2 DEF a, b
<1>2. Wide(wide) = Wide(wide2)
  BY <1>1, RowSizeFacts, FS_Subset
<1>3. DOMAIN wide = 1 .. Len(wide) /\ DOMAIN wide2 = 1 .. Len(wide)
  BY RowSizeFacts
<1>4. \A c \in 1 .. Len(wide) : wide[c] \in BOOLEAN /\ wide2[c] \in BOOLEAN
  OBVIOUS
<1>5. \A c \in 1 .. Len(wide) : wide[c] = wide2[c]
  <2> SUFFICES ASSUME NEW c \in 1 .. Len(wide) PROVE wide[c] = wide2[c]
    OBVIOUS
  <2>1. wide[c] <=> wide2[c]
    BY <1>2, <1>3 DEF Wide
  <2> QED BY <1>4, <2>1, Zenon
<1>6. wide = [c \in 1 .. Len(wide) |-> wide[c]] /\ wide2 = [c \in 1 .. Len(wide) |-> wide2[c]]
  OBVIOUS
<1> QED BY <1>5, <1>6, Zenon

LEMMA OffsetFacts ==
    ASSUME NEW wide \in Seq(BOOLEAN)
    PROVE  Offsets(wide) \in Seq(Nat) /\ Len(Offsets(wide)) = Len(wide)
<1>1. Len(wide) \in Nat /\ DOMAIN wide = 1 .. Len(wide)
  BY RowSizeFacts
<1>2. ASSUME NEW c \in 1 .. Len(wide) PROVE RowSize(SubSeq(wide, 1, c - 1)) \in Nat
  <2> DEFINE before == SubSeq(wide, 1, c - 1)
  <2>1. before \in Seq(BOOLEAN)
    <3>1. \A i \in 1 .. c - 1 : wide[i] \in BOOLEAN
      <4>1. \A i \in 1 .. c - 1 : i \in 1 .. Len(wide)
        BY <1>1
      <4>2. \A i \in 1 .. Len(wide) : wide[i] \in BOOLEAN
        OBVIOUS
      <4> QED BY <4>1, <4>2
    <3>2. 1 \in Int /\ c - 1 \in Int
      BY <1>1
    <3> QED BY <3>1, <3>2, SubSeqProperties
  <2> HIDE DEF before
  <2>2. RowSize(before) \in Nat
    BY <2>1, RowSizeFacts
  <2> QED BY <2>2 DEF before
<1> DEFINE f == [c \in 1 .. Len(wide) |-> RowSize(SubSeq(wide, 1, c - 1))]
<1>3. Offsets(wide) = f
  BY <1>1 DEF Offsets
<1>4. f \in [1 .. Len(wide) -> Nat]
  BY <1>2
<1> HIDE DEF f
<1> QED BY <1>1, <1>3, <1>4, FunctionIsSequence
----------------------------------------------------------------------------
(* Sequences of sequences, one after the other.                             *)

(* What FlattenSeq makes of the first i of them, for each i.                *)
Flattens(f, seqs, n) ==
    f = [i \in 1 .. n |-> IF i = 1 THEN seqs[i] ELSE f[i - 1] \o seqs[i]]

LEMMA FlatteningExists ==
    ASSUME NEW seqs, NEW n \in Nat
    PROVE  \E f : Flattens(f, seqs, n)
<1> DEFINE G == {k \in 0 .. n : \E f : Flattens(f, seqs, k)}
           Next1(f, i) == IF i = 1 THEN seqs[i] ELSE f[i - 1] \o seqs[i]
<1>1. \A f, k : Flattens(f, seqs, k) <=> f = [i \in 1 .. k |-> Next1(f, i)]
  BY DEF Flattens
<1>2. \A f, g : \A i \in Nat : (i = 1 \/ f[i - 1] = g[i - 1]) => Next1(f, i) = Next1(g, i)
  OBVIOUS
<1> HIDE DEF Next1
<1>3. 0 \in G
  <2> DEFINE f == [i \in 1 .. 0 |-> seqs[i]]
  <2>1. \A i \in 1 .. 0 : seqs[i] = Next1(f, i)
    OBVIOUS
  <2>2. f = [i \in 1 .. 0 |-> Next1(f, i)]
    BY <2>1
  <2> HIDE DEF f
  <2>3. Flattens(f, seqs, 0)
    BY <1>1, <2>2, Zenon
  <2>4. 0 \in 0 .. n
    OBVIOUS
  <2> QED BY <2>3, <2>4
<1>4. ASSUME NEW k \in 0 .. n - 1, k \in G PROVE k + 1 \in G
  <2>1. PICK f : f = [i \in 1 .. k |-> Next1(f, i)]
    BY <1>1, <1>4
  <2> DEFINE g == [i \in 1 .. k + 1 |-> Next1(f, i)]
  <2>2. \A i \in 1 .. k : f[i] = Next1(f, i)
    BY <2>1
  <2>3. \A i \in 1 .. k : g[i] = Next1(f, i)
    OBVIOUS
  <2>4. \A i \in 1 .. k : f[i] = g[i]
    BY <2>2, <2>3
  <2>5. \A i \in 1 .. k + 1 : i \in Nat /\ (i = 1 \/ i - 1 \in 1 .. k)
    OBVIOUS
  <2>6. \A i \in 1 .. k + 1 : i = 1 \/ f[i - 1] = g[i - 1]
    BY <2>4, <2>5
  <2>7. \A i \in 1 .. k + 1 : Next1(f, i) = Next1(g, i)
    BY <1>2, <2>5, <2>6
  <2>8. g = [i \in 1 .. k + 1 |-> Next1(g, i)]
    BY <2>7
  <2> HIDE DEF g
  <2>9. k + 1 \in 0 .. n
    OBVIOUS
  <2> QED BY <1>1, <2>8, <2>9
<1>5. n \in G
  <2> HIDE DEF G
  <2>1. \A k \in 0 .. n : k \in G
    BY <1>3, <1>4, IntervalInduction
  <2> QED BY <2>1
<1> QED BY <1>5

(* The length is the sum of the lengths, here given as a function.          *)
LEMMA FlattenSeqLength ==
    ASSUME NEW S, NEW seqs \in Seq(Seq(S)), NEW size \in [0 .. Len(seqs) -> Nat],
           size[0] = 0, \A i \in 1 .. Len(seqs) : size[i] = size[i - 1] + Len(seqs[i])
    PROVE  FlattenSeq(seqs) \in Seq(S) /\ Len(FlattenSeq(seqs)) = size[Len(seqs)]
<1> DEFINE n == Len(seqs)
<1>1. n \in Nat /\ \A i \in 1 .. n : seqs[i] \in Seq(S)
  OBVIOUS
<1>2. CASE n = 0
  <2>1. seqs = << >>
    BY <1>2, EmptySeq
  <2> QED BY <1>2, <2>1 DEF FlattenSeq
<1>3. CASE n # 0
  <2> DEFINE flatten == CHOOSE f : Flattens(f, seqs, n)
  <2>1. Flattens(flatten, seqs, n)
    BY <1>1, FlatteningExists
  <2>2. FlattenSeq(seqs) = flatten[n]
    BY <1>3 DEF FlattenSeq, Flattens
  <2> HIDE DEF flatten
  <2> DEFINE G == {k \in 0 .. n :
                    k = 0 \/ (flatten[k] \in Seq(S) /\ Len(flatten[k]) = size[k])}
  <2>3. 0 \in G
    <3>1. 0 \in 0 .. n
      BY <1>1
    <3> QED BY <3>1
  <2>4. ASSUME NEW k \in 0 .. n - 1, k \in G PROVE k + 1 \in G
    <3> DEFINE j == k + 1
    <3>1. /\ j \in 1 .. n /\ j \in 0 .. n /\ j - 1 = k
          /\ flatten[j] = IF j = 1 THEN seqs[j] ELSE flatten[k] \o seqs[j]
      <4>1. j \in 1 .. n /\ j \in 0 .. n /\ j - 1 = k
        BY <1>1
      <4> HIDE DEF j
      <4>2. flatten = [i \in 1 .. n |-> IF i = 1 THEN seqs[i] ELSE flatten[i - 1] \o seqs[i]]
        BY <2>1 DEF Flattens
      <4>3. flatten[j] = IF j = 1 THEN seqs[j] ELSE flatten[j - 1] \o seqs[j]
        BY <4>1, <4>2
      <4> QED BY <4>1, <4>3
    <3>2. size[j] = size[k] + Len(seqs[j]) /\ seqs[j] \in Seq(S) /\ Len(seqs[j]) \in Nat
      BY <1>1, <3>1
    <3>3. CASE k = 0
      <4>1. j = 1 /\ size[k] = 0
        BY <3>3
      <4>2. flatten[j] = seqs[j] /\ size[j] = Len(seqs[j])
        BY <3>1, <3>2, <4>1
      <4> QED BY <3>1, <3>2, <4>2
    <3>4. CASE k # 0
      <4>1. flatten[k] \in Seq(S) /\ Len(flatten[k]) = size[k] /\ j # 1
        BY <2>4, <3>4
      <4>2. flatten[j] = flatten[k] \o seqs[j]
        BY <3>1, <4>1
      <4>3. flatten[k] \o seqs[j] \in Seq(S)
            /\ Len(flatten[k] \o seqs[j]) = Len(flatten[k]) + Len(seqs[j])
        BY <3>2, <4>1, ConcatProperties
      <4> QED BY <3>1, <3>2, <4>1, <4>2, <4>3
    <3> QED BY <3>3, <3>4
  <2>5. n \in G
    <3> HIDE DEF G
    <3>1. \A k \in 0 .. n : k \in G
      BY <1>1, <2>3, <2>4, IntervalInduction
    <3> QED BY <1>1, <3>1
  <2> QED BY <1>3, <2>2, <2>5
<1> QED BY <1>2, <1>3
----------------------------------------------------------------------------
(* Cells and columns.                                                       *)

LEMMA CellsFacts ==
    ASSUME NEW wide \in BOOLEAN, NEW v \in Nat
    PROVE  Cells(wide, v) \in Seq(Halves) /\ Len(Cells(wide, v)) = IF wide THEN 2 ELSE 1
<1> DEFINE d == Max16 + 1
<1>1. d \in Nat \ {0} /\ Max16 \in Nat
  BY Max16IsNumber
<1>2. v % d \in 0 .. d - 1 /\ v \div d \in Nat
  BY <1>1, Division
<1>3. (v \div d) % d \in 0 .. d - 1
  BY <1>1, <1>2, Division
<1>4. Low(v) \in Halves /\ High(v) \in Halves
  BY <1>1, <1>2, <1>3 DEF Low, High, Halves
<1>5. /\ <<Low(v), High(v)>> \in Seq(Halves) /\ Len(<<Low(v), High(v)>>) = 2
      /\ <<Low(v)>> \in Seq(Halves) /\ Len(<<Low(v)>>) = 1
  BY <1>4
<1>6. CASE wide
  BY <1>5, <1>6 DEF Cells
<1>7. CASE ~wide
  BY <1>5, <1>7 DEF Cells
<1> QED BY <1>6, <1>7

LEMMA NumberFacts ==
    ASSUME NEW data \in Seq(Halves), NEW p, NEW wide
    PROVE  Number(data, p, wide) \in Nat
<1>1. \A q : CellAt(data, q) \in Nat
  <2> SUFFICES ASSUME NEW q PROVE CellAt(data, q) \in Nat
    OBVIOUS
  <2>1. CASE q \in DOMAIN data
    <3>1. data[q] \in Halves
      BY <2>1
    <3> QED BY <2>1, <3>1 DEF CellAt, Halves
  <2>2. CASE q \notin DOMAIN data
    BY <2>2 DEF CellAt
  <2> QED BY <2>1, <2>2
<1> DEFINE low == CellAt(data, p)
           high == CellAt(data, p + 1)
<1>2. low \in Nat /\ high \in Nat /\ Max16 + 1 \in Nat
  BY <1>1, Max16IsNumber
<1>3. Number(data, p, wide) = low + IF wide THEN (Max16 + 1) * high ELSE 0
  BY DEF Number
<1> HIDE DEF low, high
<1>4. (Max16 + 1) * high \in Nat
  BY <1>2, ProductOrder
<1> QED BY <1>2, <1>3, <1>4

TableRecords ==
    [rows : Nat, wide : Seq(BOOLEAN), offset : Seq(Nat), data : Seq(Halves),
     capacity : Nat, adding : BOOLEAN]

(* Table tc is tb with other contents, perhaps in a copy.                   *)
Keeps(tb, tc) ==
    /\ tc \in TableRecords
    /\ tc.rows = tb.rows /\ tc.wide = tb.wide /\ tc.offset = tb.offset
    /\ tc.adding = tb.adding
    /\ Len(tc.data) = Len(tb.data)
    /\ tc.capacity \in {tb.capacity, Len(tb.data)}

LEMMA PlaceIsNumber ==
    ASSUME NEW tb \in TableRecords, NEW r \in Nat \ {0}, NEW c \in 1 .. Len(tb.offset)
    PROVE  Place(tb, r, c) \in Nat
<1>1. tb.wide \in Seq(BOOLEAN) /\ tb.offset \in Seq(Nat)
  BY DEF TableRecords
<1>2. RowSize(tb.wide) \in Nat /\ tb.offset[c] \in Nat /\ r - 1 \in Nat
  BY <1>1, RowSizeFacts
<1>3. (r - 1) * RowSize(tb.wide) \in Nat
  BY <1>2, ProductOrder
<1> QED BY <1>2, <1>3 DEF Place

LEMMA WriteKeeps ==
    ASSUME NEW tb \in TableRecords, NEW r \in Nat \ {0}, NEW c \in 1 .. Len(tb.offset),
           Len(tb.wide) = Len(tb.offset), NEW v \in Nat
    PROVE  Keeps(tb, write_column_data(tb, r, c, v))
<1> DEFINE cells == Cells(tb.wide[c], v)
           p == Place(tb, r, c)
           n == Len(tb.data)
           data == [q \in DOMAIN tb.data |->
                       IF q \in p .. p + Len(cells) - 1 THEN cells[q - p + 1] ELSE tb.data[q]]
           capacity == IF tb.capacity = 0 THEN n ELSE tb.capacity
           tc == write_column_data(tb, r, c, v)
<1>1. /\ tb.wide \in Seq(BOOLEAN) /\ tb.offset \in Seq(Nat) /\ tb.data \in Seq(Halves)
      /\ tb.capacity \in Nat
  BY DEF TableRecords
<1>2. p \in Nat
  BY PlaceIsNumber
<1>3. cells \in Seq(Halves)
  <2>1. tb.wide[c] \in BOOLEAN
    BY <1>1
  <2> QED BY <2>1, CellsFacts
<1>4. n \in Nat /\ DOMAIN tb.data = 1 .. n /\ \A q \in 1 .. n : tb.data[q] \in Halves
  BY <1>1
<1>5. tc = [tb EXCEPT !.capacity = capacity, !.data = data]
  BY DEF write_column_data
<1> HIDE DEF p, cells
<1>6. data \in [1 .. n -> Halves]
  <2> SUFFICES ASSUME NEW q \in 1 .. n PROVE data[q] \in Halves
    BY <1>4
  <2>1. CASE q \in p .. p + Len(cells) - 1
    <3>1. q - p + 1 \in 1 .. Len(cells)
      BY <1>2, <1>3, <2>1
    <3>2. cells[q - p + 1] \in Halves
      BY <1>3, <3>1
    <3> QED BY <1>4, <2>1, <3>2
  <2>2. CASE q \notin p .. p + Len(cells) - 1
    BY <1>4, <2>2
  <2> QED BY <2>1, <2>2
<1>7. data \in Seq(Halves) /\ Len(data) = n
  <2> HIDE DEF data, n
  <2> QED BY <1>4, <1>6, FunctionIsSequence
<1>8. capacity \in Nat /\ capacity \in {tb.capacity, n}
  BY <1>1, <1>4
<1> HIDE DEF data, capacity, tc, n
<1>9. tc \in TableRecords
  BY <1>5, <1>7, <1>8 DEF TableRecords
<1>10. /\ tc.rows = tb.rows /\ tc.wide = tb.wide /\ tc.offset = tb.offset
       /\ tc.adding = tb.adding /\ tc.data = data /\ tc.capacity = capacity
  BY <1>5 DEF TableRecords
<1>11. Keeps(tb, tc)
  BY <1>7, <1>8, <1>9, <1>10 DEF Keeps, n
<1> QED BY <1>11 DEF tc

LEMMA KeepsReflexive ==
    ASSUME NEW tb \in TableRecords
    PROVE  Keeps(tb, tb)
BY DEF Keeps

LEMMA KeepsTransitive ==
    ASSUME NEW tb, NEW tc, NEW td, Keeps(tb, tc), Keeps(tc, td)
    PROVE  Keeps(tb, td)
BY DEF Keeps
----------------------------------------------------------------------------
(* Columns that refer to tables.                                            *)

LEMMA ColumnFacts ==
    ASSUME NEW t \in Tables
    PROVE  /\ Len(Columns[t]) \in Nat \ {0}
           /\ DOMAIN Columns[t] = 1 .. Len(Columns[t])
           /\ \A c \in 1 .. Len(Columns[t]) : IsColumn(Columns[t][c], t)
<1>1. /\ Columns[t] \in Seq(Range(Columns[t])) \ {<< >>}
      /\ \A c \in DOMAIN Columns[t] : IsColumn(Columns[t][c], t)
  BY LayoutAssumption, Zenon
<1>2. Len(Columns[t]) \in Nat /\ DOMAIN Columns[t] = 1 .. Len(Columns[t])
  BY <1>1
<1>3. Len(Columns[t]) # 0
  BY <1>1, EmptySeq
<1> QED BY <1>1, <1>2, <1>3

LEMMA IndexFacts ==
    ASSUME NEW t \in Tables, NEW c \in 1 .. Len(Columns[t]), Columns[t][c].kind = "index"
    PROVE  /\ Columns[t][c].of \in Seq(Tables \ {t})
           /\ Len(Columns[t][c].of) <= 2^Columns[t][c].bits
           /\ 2^Columns[t][c].bits \in 1 .. Max16
           /\ 2^Columns[t][c].bits \in Nat \ {0}
<1>1. IsColumn(Columns[t][c], t)
  BY ColumnFacts
<1> DEFINE bits == 2^Columns[t][c].bits
<1>2. /\ Columns[t][c].of \in Seq(Tables \ {t}) /\ Len(Columns[t][c].of) <= bits
      /\ bits \in 1 .. Max16
  BY <1>1 DEF IsColumn
<1> HIDE DEF bits
<1>3. bits \in Nat \ {0}
  BY <1>2, Max16IsNumber
<1> QED BY <1>2, <1>3 DEF bits

LEMMA TagFacts ==
    ASSUME NEW u \in Tables, NEW c \in 1 .. Len(Columns[u]), Columns[u][c].kind = "index",
           NEW t \in Range(Columns[u][c].of)
    PROVE  /\ Tag(Columns[u][c], t) \in Nat
           /\ Tag(Columns[u][c], t) + 1 <= 2^Columns[u][c].bits
<1> DEFINE of == Columns[u][c].of
           i == CHOOSE k \in DOMAIN of : of[k] = t
           bits == 2^Columns[u][c].bits
<1>1. of \in Seq(Tables \ {u}) /\ Len(of) <= bits /\ bits \in Nat
  BY IndexFacts
<1> HIDE DEF of, bits
<1>2. DOMAIN of = 1 .. Len(of) /\ Len(of) \in Nat
  BY <1>1
<1>3. i \in DOMAIN of
  <2>1. \E k \in DOMAIN of : of[k] = t
    BY DEF Range, of
  <2> QED BY <2>1, Zenon
<1>4. Tag(Columns[u][c], t) = i - 1
  BY DEF Tag, of
<1> HIDE DEF i
<1>5. i - 1 \in Nat /\ (i - 1) + 1 <= bits
  BY <1>1, <1>2, <1>3
<1> QED BY <1>4, <1>5 DEF bits

(* A composed reference to row n fits where one to row n + 1 with the       *)
(* lowest tag does.                                                         *)
LEMMA ComposedFacts ==
    ASSUME NEW u \in Tables, NEW c \in 1 .. Len(Columns[u]), Columns[u][c].kind = "index",
           NEW t \in Range(Columns[u][c].of), NEW n \in Nat
    PROVE  /\ compose_coded_index(Columns[u][c], t, n) \in Nat
           /\ compose_coded_index(Columns[u][c], t, n) + 1 <= (n + 1) * 2^Columns[u][c].bits
<1> DEFINE tag == Tag(Columns[u][c], t)
           bits == 2^Columns[u][c].bits
           number == compose_coded_index(Columns[u][c], t, n)
<1>1. tag \in Nat /\ tag + 1 <= bits /\ bits \in Nat
  BY TagFacts, IndexFacts
<1>2. number = n * bits + tag
  BY DEF compose_coded_index
<1> HIDE DEF tag, bits, number
<1>3. n * bits \in Nat /\ (n + 1) * bits = n * bits + bits
  BY <1>1, ProductOrder
<1>4. number \in Nat /\ number + 1 <= (n + 1) * bits
  BY <1>1, <1>2, <1>3
<1> QED BY <1>4 DEF bits, number

(* The layout of the columns of u.                                          *)
Fits(u, tb) ==
    /\ tb \in TableRecords
    /\ Len(tb.wide) = Len(Columns[u]) /\ Len(tb.offset) = Len(Columns[u])

LEMMA FitsKept ==
    ASSUME NEW u, NEW tb, NEW tc, Fits(u, tb), Keeps(tb, tc)
    PROVE  Fits(u, tc)
BY DEF Fits, Keeps

LEMMA ReadIsNumber ==
    ASSUME NEW tb \in TableRecords, NEW r, NEW c
    PROVE  read_column_data(tb, r, c) \in Nat
<1>1. tb.data \in Seq(Halves)
  BY DEF TableRecords
<1> QED BY <1>1, NumberFacts DEF read_column_data

LEMMA TokenRow ==
    ASSUME NEW u \in Tables, NEW c \in 1 .. Len(Columns[u]), Columns[u][c].kind = "index",
           NEW tb \in TableRecords, NEW r
    PROVE  TokenAt(tb, u, r, c)[2] \in Nat
<1> DEFINE n == read_column_data(tb, r, c)
           bits == 2^Columns[u][c].bits
           of == Columns[u][c].of
<1>1. n \in Nat /\ bits \in Nat \ {0}
  BY ReadIsNumber, IndexFacts
<1>2. TokenAt(tb, u, r, c) = IF n % bits < Len(of) THEN <<of[(n % bits) + 1], n \div bits>>
                             ELSE <<"none", 0>>
  BY DEF TokenAt
<1> HIDE DEF n, bits, of
<1>3. n \div bits \in Nat
  BY <1>1, Division
<1>4. CASE n % bits < Len(of)
  BY <1>2, <1>3, <1>4
<1>5. CASE ~(n % bits < Len(of))
  BY <1>2, <1>5
<1> QED BY <1>4, <1>5

LEMMA ShiftReferenceKeeps ==
    ASSUME NEW u \in Tables, NEW c \in 1 .. Len(Columns[u]), Columns[u][c].kind = "index",
           NEW t \in Range(Columns[u][c].of), NEW tb, Fits(u, tb), NEW r \in Nat \ {0}, NEW first
    PROVE  Keeps(tb, ShiftReference(tb, u, r, c, t, first))
<1> DEFINE to == TokenAt(tb, u, r, c)
           number == compose_coded_index(Columns[u][c], t, to[2] + 1)
           tc == ShiftReference(tb, u, r, c, t, first)
<1>1. tb \in TableRecords /\ Len(tb.wide) = Len(tb.offset) /\ c \in 1 .. Len(tb.offset)
  BY DEF Fits
<1>2. to[2] + 1 \in Nat
  <2>1. to[2] \in Nat
    BY <1>1, TokenRow
  <2> HIDE DEF to
  <2> QED BY <2>1
<1>3. number \in Nat
  <2> DEFINE n == to[2] + 1
  <2> HIDE DEF n
  <2> SUFFICES compose_coded_index(Columns[u][c], t, n) \in Nat
    BY DEF n
  <2>1. n \in Nat
    BY <1>2 DEF n
  <2> QED BY <2>1, ComposedFacts
<1>4. tc = IF to[1] = t /\ to[2] >= first THEN write_column_data(tb, r, c, number) ELSE tb
  BY DEF ShiftReference
<1> HIDE DEF to, number, tc
<1>5. Keeps(tb, write_column_data(tb, r, c, number)) /\ Keeps(tb, tb)
  BY <1>1, <1>3, WriteKeeps, KeepsReflexive
<1>6. Keeps(tb, tc)
  BY <1>4, <1>5, Zenon
<1> QED BY <1>6 DEF tc

(* One reference after the other is shifted.                                *)
LEMMA ShiftColumnKeeps ==
    ASSUME NEW u \in Tables, NEW c \in 1 .. Len(Columns[u]), Columns[u][c].kind = "index",
           NEW t \in Range(Columns[u][c].of), NEW tb, Fits(u, tb), NEW first
    PROVE  Keeps(tb, update_shifted_row_references(tb, u, c, t, first))
<1> DEFINE X == {x \in TableRecords : Keeps(tb, x)}
           n == tb.rows
           Reached(r) == \A s \in 1 .. r : TokenAt(tb, u, s, c)[1] # "none"
           Step(x, r) == IF Reached(r) THEN ShiftReference(x, u, r, c, t, first) ELSE x
           step == [r \in 1 .. n |-> [x \in X |-> Step(x, r)]]
           Shifts(f) == f = [r \in 0 .. n |-> IF r = 0 THEN tb ELSE Step(f[r - 1], r)]
           shifted == CHOOSE f : Shifts(f)
<1>1. tb \in TableRecords /\ n \in Nat
  BY DEF Fits, TableRecords
<1>2. ASSUME NEW x \in X, NEW r \in 1 .. n PROVE Step(x, r) \in X
  <2>1. Fits(u, x) /\ Keeps(tb, x)
    BY FitsKept
  <2>2. r \in Nat \ {0}
    BY <1>1
  <2>3. Keeps(x, ShiftReference(x, u, r, c, t, first)) /\ Keeps(x, x)
    BY <2>1, <2>2, ShiftReferenceKeeps, KeepsReflexive
  <2>4. Keeps(x, Step(x, r))
    <3> HIDE DEF Reached
    <3> QED BY <2>3, Zenon
  <2> HIDE DEF Step
  <2>5. Keeps(tb, Step(x, r))
    BY <2>1, <2>4, KeepsTransitive
  <2> QED BY <2>5 DEF Keeps
<1>3. tb \in X
  BY <1>1, KeepsReflexive
<1>4. update_shifted_row_references(tb, u, c, t, first) = shifted[n]
  BY DEF update_shifted_row_references
<1> HIDE DEF X, Step, n
<1>5. step \in [1 .. n -> [X -> X]]
  BY <1>2
<1>6. PICK f : IsRun(f, n, X, tb, step)
  <2> HIDE DEF step
  <2> QED BY <1>1, <1>3, <1>5, Iterates
<1>7. Shifts(f)
  <2>1. f = [r \in 0 .. n |-> f[r]] /\ f[0] = tb /\ \A r \in 0 .. n : f[r] \in X
    BY <1>6 DEF IsRun
  <2>2. ASSUME NEW r \in 0 .. n PROVE f[r] = IF r = 0 THEN tb ELSE Step(f[r - 1], r)
    <3>1. CASE r = 0
      BY <2>1, <3>1
    <3>2. CASE r # 0
      <4>1. r \in 1 .. n /\ r - 1 \in 0 .. n
        BY <1>1, <3>2
      <4>2. f[r] = step[r][f[r - 1]] /\ f[r - 1] \in X
        BY <1>6, <2>1, <4>1 DEF IsRun
      <4> QED BY <3>2, <4>1, <4>2
    <3> QED BY <3>1, <3>2
  <2> QED BY <2>1, <2>2, Zenon
<1>8. Shifts(shifted)
  <2> HIDE DEF Shifts
  <2> QED BY <1>7, Zenon
<1> HIDE DEF shifted
<1> DEFINE G == {r \in 0 .. n : shifted[r] \in X}
<1>9. 0 \in G
  BY <1>1, <1>3, <1>8
<1>10. ASSUME NEW k \in 0 .. n - 1, k \in G PROVE k + 1 \in G
  <2> DEFINE r == k + 1
  <2>1. r \in 1 .. n /\ r \in 0 .. n /\ r # 0 /\ r - 1 = k
    BY <1>1
  <2> HIDE DEF r
  <2>2. shifted[r] = Step(shifted[r - 1], r)
    BY <1>8, <2>1
  <2>3. shifted[r] \in X
    BY <1>2, <1>10, <2>1, <2>2
  <2> QED BY <2>1, <2>3 DEF r
<1>11. n \in G
  <2> HIDE DEF G
  <2>1. \A k \in 0 .. n : k \in G
    BY <1>1, <1>9, <1>10, IntervalInduction
  <2> QED BY <1>1, <2>1
<1>12. shifted[n] \in X
  BY <1>11
<1> HIDE DEF Shifts
<1> QED BY <1>4, <1>12 DEF X

LEMMA WhatRefers ==
    ASSUME NEW u \in Tables, NEW c \in 1 .. Len(Columns[u])
    PROVE  /\ \A t \in Tables : RefersTo(Columns[u][c], t) =>
                 Columns[u][c].kind = "index" /\ t \in Range(Columns[u][c].of) /\ t # u
           /\ \A h \in Heaps : RefersTo(Columns[u][c], h) =>
                 Columns[u][c].kind = "heap" /\ Columns[u][c].of = h
<1> DEFINE col == Columns[u][c]
<1>1. Tables \cap Heaps = {}
  BY LayoutAssumption, Zenon
<1>2. col.kind = "heap" => col.of \in Heaps
  <2>1. IsColumn(col, u)
    BY ColumnFacts
  <2> HIDE DEF col
  <2> QED BY <2>1 DEF IsColumn
<1>3. col.kind = "index" => Range(col.of) \subseteq Tables \ {u}
  <2>1. col.kind = "index" => col.of \in Seq(Tables \ {u})
    BY IndexFacts
  <2>2. \A s \in Seq(Tables \ {u}) : Range(s) \subseteq Tables \ {u}
    BY DEF Range
  <2> QED BY <2>1, <2>2
<1> HIDE DEF col
<1>4. \A t \in Tables : RefersTo(col, t) => col.kind = "index" /\ t \in Range(col.of) /\ t # u
  BY <1>1, <1>2, <1>3 DEF RefersTo
<1>5. \A h \in Heaps : RefersTo(col, h) => col.kind = "heap" /\ col.of = h
  BY <1>1, <1>3 DEF RefersTo
<1> QED BY <1>4, <1>5 DEF col

(* One column after the other is shifted.                                   *)
LEMMA ShiftTableKeeps ==
    ASSUME NEW u \in Tables, NEW t \in Tables, NEW first, Exists(u), Fits(u, tables[u]),
           set_column_size_for_max_row_count(tables[u], u, t, tables[u].rows + 1) = tables[u]
    PROVE  Keeps(tables[u], update_table_references_for_shifted_rows(u, t, first))
<1> DEFINE tb == tables[u]
           X == {x \in TableRecords : Keeps(tb, x)}
           n == Len(Columns[u])
           Step(x, c) == IF RefersTo(Columns[u][c], t)
                         THEN update_shifted_row_references(x, u, c, t, first) ELSE x
           step == [c \in 1 .. n |-> [x \in X |-> Step(x, c)]]
           Shifts(f) == f = [c \in 0 .. n |-> IF c = 0 THEN tb ELSE Step(f[c - 1], c)]
           shifted == CHOOSE f : Shifts(f)
<1>1. tb \in TableRecords /\ n \in Nat
  BY ColumnFacts DEF Fits
<1>2. ASSUME NEW x \in X, NEW c \in 1 .. n PROVE Step(x, c) \in X
  <2>1. Fits(u, x) /\ Keeps(tb, x)
    BY FitsKept
  <2>2. CASE ~RefersTo(Columns[u][c], t)
    BY <2>2
  <2>3. CASE RefersTo(Columns[u][c], t)
    <3> DEFINE y == update_shifted_row_references(x, u, c, t, first)
    <3>1. Columns[u][c].kind = "index" /\ t \in Range(Columns[u][c].of)
      BY <2>3, WhatRefers
    <3>2. Keeps(x, y)
      BY <2>1, <3>1, ShiftColumnKeeps
    <3>3. Step(x, c) = y
      BY <2>3
    <3> HIDE DEF y, Step
    <3>4. Keeps(tb, y)
      BY <2>1, <3>2, KeepsTransitive
    <3> QED BY <3>3, <3>4 DEF Keeps
  <2> QED BY <2>2, <2>3
<1>3. tb \in X
  BY <1>1, KeepsReflexive
<1>4. update_table_references_for_shifted_rows(u, t, first) = shifted[n]
  BY DEF update_table_references_for_shifted_rows
<1> HIDE DEF X, Step, n, tb
<1>5. step \in [1 .. n -> [X -> X]]
  BY <1>2
<1>6. PICK f : IsRun(f, n, X, tb, step)
  <2> HIDE DEF step
  <2> QED BY <1>1, <1>3, <1>5, Iterates
<1>7. Shifts(f)
  <2>1. f = [c \in 0 .. n |-> f[c]] /\ f[0] = tb /\ \A c \in 0 .. n : f[c] \in X
    BY <1>6 DEF IsRun
  <2>2. ASSUME NEW c \in 0 .. n PROVE f[c] = IF c = 0 THEN tb ELSE Step(f[c - 1], c)
    <3>1. CASE c = 0
      BY <2>1, <3>1
    <3>2. CASE c # 0
      <4>1. c \in 1 .. n /\ c - 1 \in 0 .. n
        BY <1>1, <3>2
      <4>2. f[c] = step[c][f[c - 1]] /\ f[c - 1] \in X
        BY <1>6, <2>1, <4>1 DEF IsRun
      <4> QED BY <3>2, <4>1, <4>2
    <3> QED BY <3>1, <3>2
  <2> QED BY <2>1, <2>2, Zenon
<1>8. Shifts(shifted)
  <2> HIDE DEF Shifts
  <2> QED BY <1>7, Zenon
<1> HIDE DEF shifted
<1> DEFINE G == {c \in 0 .. n : shifted[c] \in X}
<1>9. 0 \in G
  BY <1>1, <1>3, <1>8
<1>10. ASSUME NEW k \in 0 .. n - 1, k \in G PROVE k + 1 \in G
  <2> DEFINE c == k + 1
  <2>1. c \in 1 .. n /\ c \in 0 .. n /\ c # 0 /\ c - 1 = k
    BY <1>1
  <2> HIDE DEF c
  <2>2. shifted[c] = Step(shifted[c - 1], c)
    BY <1>8, <2>1
  <2>3. shifted[c] \in X
    BY <1>2, <1>10, <2>1, <2>2
  <2> QED BY <2>1, <2>3 DEF c
<1>11. n \in G
  <2> HIDE DEF G
  <2>1. \A k \in 0 .. n : k \in G
    BY <1>1, <1>9, <1>10, IntervalInduction
  <2> QED BY <1>1, <2>1
<1>12. shifted[n] \in X
  BY <1>11
<1> HIDE DEF Shifts
<1> QED BY <1>4, <1>12 DEF X, tb
----------------------------------------------------------------------------
(* Copying rows into another layout.                                        *)

(* The cells of a number for each column make up a row.                     *)
LEMMA CellsOfRow ==
    ASSUME NEW to \in Seq(BOOLEAN), NEW value, \A c \in 1 .. Len(to) : value[c] \in Nat
    PROVE  LET row == FlattenSeq([c \in 1 .. Len(to) |-> Cells(to[c], value[c])])
           IN  row \in Seq(Halves) /\ Len(row) = RowSize(to)
<1> DEFINE n == Len(to)
           wide(i) == {c \in 1 .. i : to[c]}
           size == [i \in 0 .. n |-> i + Cardinality(wide(i))]
           seqs == [c \in 1 .. n |-> Cells(to[c], value[c])]
<1>1. /\ n \in Nat /\ DOMAIN to = 1 .. n /\ Len(to) = n
      /\ \A c \in 1 .. n : to[c] \in BOOLEAN
  BY RowSizeFacts
<1>4. \A c \in 1 .. n : /\ Cells(to[c], value[c]) \in Seq(Halves)
                        /\ Len(Cells(to[c], value[c])) = IF to[c] THEN 2 ELSE 1
  BY <1>1, CellsFacts
<1>5. /\ seqs \in Seq(Seq(Halves)) /\ Len(seqs) = n
      /\ \A c \in 1 .. n : Len(seqs[c]) = IF to[c] THEN 2 ELSE 1
  <2>1. seqs \in [1 .. n -> Seq(Halves)]
    BY <1>4
  <2>2. \A c \in 1 .. n : Len(seqs[c]) = IF to[c] THEN 2 ELSE 1
    BY <1>4
  <2> HIDE DEF seqs, n
  <2> QED BY <1>1, <2>1, <2>2, FunctionIsSequence
<1>6. \A i \in 0 .. n : IsFiniteSet(wide(i)) /\ Cardinality(wide(i)) \in Nat
  <2> SUFFICES ASSUME NEW i \in 0 .. n
               PROVE  IsFiniteSet(wide(i)) /\ Cardinality(wide(i)) \in Nat
    OBVIOUS
  <2>1. IsFiniteSet(1 .. i) /\ wide(i) \in SUBSET (1 .. i)
    BY <1>1, FS_Interval
  <2> HIDE DEF wide
  <2> QED BY <2>1, FS_Subset, FS_CardinalityType
<1>7. ASSUME NEW i \in 1 .. n
      PROVE  Cardinality(wide(i)) = Cardinality(wide(i - 1)) + IF to[i] THEN 1 ELSE 0
  <2>1. i - 1 \in 0 .. n /\ i \notin wide(i - 1)
    BY <1>1
  <2>2. CASE to[i]
    <3>1. wide(i) = wide(i - 1) \cup {i}
      BY <1>1, <2>2
    <3> HIDE DEF wide
    <3> QED BY <1>6, <2>1, <2>2, <3>1, FS_AddElement
  <2>3. CASE ~to[i]
    <3>1. wide(i) = wide(i - 1)
      <4>1. \A c : c \in 1 .. i <=> c \in 1 .. i - 1 \/ c = i
        BY <1>1
      <4> QED BY <2>3, <4>1
    <3> HIDE DEF wide
    <3> QED BY <1>6, <2>1, <2>3, <3>1
  <2> QED BY <2>2, <2>3
<1>8. wide(0) = {} /\ Cardinality(wide(0)) = 0
  <2>1. wide(0) = {}
    OBVIOUS
  <2> HIDE DEF wide
  <2> QED BY <2>1, FS_EmptySet
<1>9. wide(n) = Wide(to)
  BY <1>1 DEF Wide
<1> HIDE DEF wide, seqs, n
<1>10. size \in [0 .. n -> Nat] /\ size[0] = 0
  BY <1>1, <1>6, <1>8
<1>11. ASSUME NEW i \in 1 .. n PROVE size[i] = size[i - 1] + Len(seqs[i])
  <2>1. i \in 0 .. n /\ i - 1 \in 0 .. n
    BY <1>1
  <2>2. /\ size[i] = i + Cardinality(wide(i))
        /\ size[i - 1] = (i - 1) + Cardinality(wide(i - 1))
    BY <2>1
  <2>3. Len(seqs[i]) = IF to[i] THEN 2 ELSE 1
    BY <1>5
  <2>4. Cardinality(wide(i)) \in Nat /\ Cardinality(wide(i - 1)) \in Nat
    BY <1>6, <2>1
  <2> QED BY <1>1, <1>7, <2>2, <2>3, <2>4
<1>12. size[n] = RowSize(to)
  BY <1>1, <1>9, RowSizeFacts
<1> HIDE DEF size
<1>13. FlattenSeq(seqs) \in Seq(Halves) /\ Len(FlattenSeq(seqs)) = size[Len(seqs)]
  BY <1>5, <1>10, <1>11, FlattenSeqLength
<1> QED BY <1>5, <1>12, <1>13 DEF seqs, n

(* The copy of a row fills a row of the new layout.                         *)
LEMMA CopiedRow ==
    ASSUME NEW data \in Seq(Halves), NEW r, NEW from \in Seq(BOOLEAN), NEW to \in Seq(BOOLEAN),
           Len(to) = Len(from)
    PROVE  /\ copy_row(data, r, from, to) \in Seq(Halves)
           /\ Len(copy_row(data, r, from, to)) = RowSize(to)
<1> DEFINE n == Len(to)
           value == [c \in 1 .. n |->
               Number(data, (r - 1) * RowSize(from) + Offsets(from)[c] + 1, from[c])]
<1>1. DOMAIN from = 1 .. n
  BY RowSizeFacts
<1>2. copy_row(data, r, from, to) = FlattenSeq([c \in 1 .. n |-> Cells(to[c], value[c])])
  BY <1>1 DEF copy_row
<1>3. \A c \in 1 .. n : value[c] \in Nat
  BY NumberFacts
<1> HIDE DEF value
<1> QED BY <1>2, <1>3, CellsOfRow

(* So do the copies of n rows fill n rows.                                  *)
LEMMA CopiedRows ==
    ASSUME NEW data \in Seq(Halves), NEW n \in Nat, NEW from \in Seq(BOOLEAN),
           NEW to \in Seq(BOOLEAN), Len(to) = Len(from)
    PROVE  LET copy == FlattenSeq([r \in 1 .. n |-> copy_row(data, r, from, to)])
           IN  copy \in Seq(Halves) /\ Len(copy) = n * RowSize(to)
<1> DEFINE seqs == [r \in 1 .. n |-> copy_row(data, r, from, to)]
           d == RowSize(to)
           size == [i \in 0 .. n |-> i * d]
<1>1. d \in Nat
  BY RowSizeFacts
<1>2. \A r \in 1 .. n : copy_row(data, r, from, to) \in Seq(Halves)
                        /\ Len(copy_row(data, r, from, to)) = d
  BY CopiedRow
<1> HIDE DEF d
<1>3. seqs \in Seq(Seq(Halves)) /\ Len(seqs) = n /\ \A r \in 1 .. n : Len(seqs[r]) = d
  <2>1. seqs \in [1 .. n -> Seq(Halves)] /\ \A r \in 1 .. n : Len(seqs[r]) = d
    BY <1>2
  <2> HIDE DEF seqs
  <2> QED BY <2>1, FunctionIsSequence
<1> HIDE DEF seqs
<1>4. size \in [0 .. n -> Nat] /\ size[0] = 0 /\ size[n] = n * d
  <2>1. \A i \in 0 .. n : i * d \in Nat
    BY <1>1, ProductOrder
  <2>2. 0 * d = 0
    BY <1>1
  <2> QED BY <2>1, <2>2
<1>5. ASSUME NEW i \in 1 .. n PROVE size[i] = size[i - 1] + Len(seqs[i])
  <2>1. i - 1 \in Nat /\ i \in 0 .. n /\ i - 1 \in 0 .. n /\ (i - 1) + 1 = i
    OBVIOUS
  <2>2. ((i - 1) + 1) * d = (i - 1) * d + d
    BY <1>1, <2>1, ProductOrder
  <2>3. size[i] = i * d /\ size[i - 1] = (i - 1) * d
    BY <2>1
  <2> HIDE DEF size
  <2> QED BY <1>3, <2>1, <2>2, <2>3
<1> HIDE DEF size
<1>6. FlattenSeq(seqs) \in Seq(Halves) /\ Len(FlattenSeq(seqs)) = size[Len(seqs)]
  BY <1>3, <1>4, <1>5, FlattenSeqLength
<1> QED BY <1>3, <1>4, <1>6 DEF seqs, d
----------------------------------------------------------------------------
(* Tables in memory.                                                        *)

IsTable(t, tb) ==
    /\ tb \in TableRecords
    /\ tb.rows <= MaxRows[t]
    /\ tb.rows = 0 => tb = NoTable
    /\ tb.rows # 0 => Fits(t, tb)
    /\ Len(tb.data) = tb.rows * RowSize(tb.wide)
    /\ tb.capacity > 0 => Len(tb.data) <= tb.capacity

(* The width of column c while references to tables are within two bytes.   *)
Layout(t, c, flags) ==
    CASE Columns[t][c].kind = "constant" -> FALSE
      [] Columns[t][c].kind = "heap" -> Columns[t][c].of \in flags
      [] Columns[t][c].kind = "index" -> minimal

LaidOut(t, tb, flags) ==
    tb.rows # 0 => \A c \in 1 .. Len(Columns[t]) : tb.wide[c] = Layout(t, c, flags)

LEMMA NoTableIsTable ==
    ASSUME NEW t \in Tables
    PROVE  IsTable(t, NoTable) /\ \A flags : LaidOut(t, NoTable, flags)
<1>1. MaxRows[t] \in Nat
  BY LayoutAssumption, Zenon
<1>2. NoTable \in TableRecords /\ NoTable.rows = 0 /\ Len(NoTable.data) = 0 /\ NoTable.capacity = 0
      /\ NoTable.wide = << >>
  BY DEF NoTable, TableRecords
<1>3. RowSize(<< >>) \in Nat
  <2>1. << >> \in Seq(BOOLEAN)
    OBVIOUS
  <2> QED BY <2>1, RowSizeFacts
<1>4. 0 * RowSize(<< >>) = 0
  BY <1>3
<1>5. IsTable(t, NoTable)
  BY <1>1, <1>2, <1>4 DEF IsTable
<1>6. \A flags : LaidOut(t, NoTable, flags)
  BY <1>2 DEF LaidOut
<1> QED BY <1>5, <1>6

(* A table that exists has rows.                                            *)
LEMMA ExistingTable ==
    ASSUME NEW t \in Tables, IsTable(t, tables[t])
    PROVE  /\ Exists(t) <=> tables[t].rows # 0
           /\ ~Exists(t) => tables[t] = NoTable
           /\ Exists(t) => Fits(t, tables[t])
<1>1. tables[t].rows \in Nat /\ tables[t].capacity \in Nat
  BY DEF IsTable, TableRecords
<1>2. NoTable.rows = 0 /\ NoTable.capacity = 0
  BY DEF NoTable
<1> QED BY <1>1, <1>2 DEF IsTable, Exists

(* Writing and copying keep what a table is.                                *)
LEMMA KeptTable ==
    ASSUME NEW t \in Tables, NEW tb, NEW tc, IsTable(t, tb), tb.rows # 0, Keeps(tb, tc)
    PROVE  /\ IsTable(t, tc)
           /\ \A flags : LaidOut(t, tb, flags) => LaidOut(t, tc, flags)
<1>1. Fits(t, tb) /\ tb.rows \in Nat /\ tb.capacity \in Nat /\ Len(tb.data) \in Nat
  BY DEF IsTable, TableRecords
<1>2. Fits(t, tc)
  BY <1>1, FitsKept
<1>3. /\ tc \in TableRecords /\ tc.rows = tb.rows /\ tc.wide = tb.wide
      /\ Len(tc.data) = Len(tb.data) /\ tc.capacity \in {tb.capacity, Len(tb.data)}
  BY DEF Keeps
<1>4. tc.capacity > 0 => Len(tc.data) <= tc.capacity
  BY <1>1, <1>3 DEF IsTable
<1>5. IsTable(t, tc)
  BY <1>2, <1>3, <1>4 DEF IsTable
<1>6. \A flags : LaidOut(t, tb, flags) => LaidOut(t, tc, flags)
  BY <1>3 DEF LaidOut
<1> QED BY <1>5, <1>6

(* Columns have room for as many rows as before, in the widths asked for.   *)
LEMMA ResizedTable ==
    ASSUME NEW t \in Tables, NEW tb, IsTable(t, tb), tb.rows # 0, NEW what, NEW count,
           NEW wide \in Seq(BOOLEAN), Len(wide) = Len(tb.wide),
           \A c \in 1 .. Len(tb.wide) : ResizedWidth(tb, t, c, what, count) = wide[c],
           Wide(tb.wide) \subseteq Wide(wide) \/ Wide(wide) \subseteq Wide(tb.wide)
    PROVE  LET tc == set_column_size_for_max_row_count(tb, t, what, count)
           IN  /\ IsTable(t, tc)
               /\ tc.rows = tb.rows /\ tc.wide = wide /\ tc.adding = tb.adding
               /\ wide = tb.wide => tc = tb
<1> DEFINE tc == set_column_size_for_max_row_count(tb, t, what, count)
           n == tb.rows
           old == RowSize(tb.wide)
           new == RowSize(wide)
           held == IF tb.capacity > 0 THEN tb.capacity ELSE Len(tb.data)
           data == FlattenSeq([r \in 1 .. n |-> copy_row(tb.data, r, tb.wide, wide)])
           capacity == (held \div old) * new
           resized == [tb EXCEPT !.wide = wide, !.data = data, !.capacity = capacity]
<1>1. /\ tb \in TableRecords /\ n \in Nat \ {0} /\ tb.wide \in Seq(BOOLEAN)
      /\ tb.data \in Seq(Halves) /\ tb.capacity \in Nat /\ Fits(t, tb)
      /\ Len(tb.data) = n * old /\ Len(tb.data) \in Nat
      /\ (tb.capacity > 0 => Len(tb.data) <= tb.capacity)
  BY DEF IsTable, TableRecords
<1>2. Len(tb.wide) \in Nat \ {0} /\ DOMAIN tb.wide = 1 .. Len(tb.wide)
  BY <1>1, ColumnFacts DEF Fits
<1>3. old \in Nat \ {0} /\ new \in Nat
  <2>1. old \in Nat /\ old >= Len(tb.wide) /\ new \in Nat
    BY <1>1, RowSizeFacts
  <2> HIDE DEF old, new
  <2> QED BY <1>2, <2>1
<1>4. [c \in DOMAIN tb.wide |-> ResizedWidth(tb, t, c, what, count)] = wide
  <2>1. DOMAIN wide = 1 .. Len(tb.wide) /\ wide = [c \in 1 .. Len(tb.wide) |-> wide[c]]
    BY RowSizeFacts
  <2> QED BY <1>2, <2>1, Zenon
<1>5. tc = IF new = old THEN tb ELSE resized
  BY <1>4 DEF set_column_size_for_max_row_count
<1>6. wide = tb.wide => tc = tb
  <2> HIDE DEF resized, tc
  <2> QED BY <1>5, Zenon
<1>7. CASE new = old
  <2>1. wide = tb.wide
    BY <1>1, <1>7, SameSizeSameWidths
  <2> HIDE DEF resized, tc
  <2> QED BY <1>5, <1>7, <2>1 DEF tc
<1>8. CASE new # old
  <2>1. data \in Seq(Halves) /\ Len(data) = n * new
    BY <1>1, CopiedRows
  <2>2. held \in Nat /\ n * old <= held
    BY <1>1
  <2> HIDE DEF held, data, old, new
  <2>3. held \div old \in Nat /\ n <= held \div old
    BY <1>1, <1>3, <2>2, Division, Quotient
  <2>4. capacity \in Nat /\ n * new <= capacity
    BY <1>1, <1>3, <2>3, ProductOrder
  <2> HIDE DEF capacity
  <2>5. tc = resized
    BY <1>5, <1>8
  <2>6. /\ resized \in TableRecords
        /\ resized.rows = n /\ resized.wide = wide /\ resized.adding = tb.adding
        /\ resized.offset = tb.offset /\ resized.data = data /\ resized.capacity = capacity
    BY <1>1, <2>1, <2>4 DEF TableRecords
  <2> HIDE DEF resized, n
  <2>7. Fits(t, resized)
    BY <1>1, <2>6 DEF Fits
  <2>8. IsTable(t, resized)
    BY <1>1, <2>1, <2>4, <2>6, <2>7 DEF IsTable, new, n
  <2> QED BY <1>6, <2>5, <2>6, <2>8 DEF tc, n
<1> QED BY <1>7, <1>8
----------------------------------------------------------------------------
(* Layouts.                                                                 *)

(* These rows can be referred to in two bytes.                              *)
InTwoBytes(counts) ==
    \A t \in Tables : \A c \in 1 .. Len(Columns[t]) :
        Columns[t][c].kind = "index" =>
            \A u \in Range(Columns[t][c].of) : ~(counts[u] * 2^Columns[t][c].bits > Max16)

LEMMA LayoutFacts ==
    ASSUME NEW t \in Tables, minimal \in BOOLEAN, NEW counts, InTwoBytes(counts), NEW flags
    PROVE  LET wide == initialize_table_details(t, counts, flags)
           IN  /\ wide \in Seq(BOOLEAN) /\ Len(wide) = Len(Columns[t])
               /\ \A c \in 1 .. Len(Columns[t]) : wide[c] = Layout(t, c, flags)
<1> DEFINE wide == initialize_table_details(t, counts, flags)
           n == Len(Columns[t])
           Width(c) == CASE Columns[t][c].kind = "constant" -> FALSE
                         [] Columns[t][c].kind = "heap" -> Columns[t][c].of \in flags
                         [] Columns[t][c].kind = "index" ->
                               minimal \/ \E u \in Range(Columns[t][c].of) :
                                             counts[u] * 2^Columns[t][c].bits > Max16
<1>1. n \in Nat /\ DOMAIN Columns[t] = 1 .. n
  BY ColumnFacts
<1>2. wide = [c \in 1 .. n |-> Width(c)]
  BY <1>1 DEF initialize_table_details
<1>3. ASSUME NEW c \in 1 .. n PROVE Width(c) = Layout(t, c, flags) /\ Width(c) \in BOOLEAN
  <2>1. \/ Columns[t][c].kind = "constant"
        \/ Columns[t][c].kind = "heap"
        \/ Columns[t][c].kind = "index"
    <3>1. IsColumn(Columns[t][c], t)
      BY ColumnFacts
    <3> QED BY <3>1 DEF IsColumn
  <2>2. CASE Columns[t][c].kind = "constant"
    <3>1. Width(c) = FALSE /\ Layout(t, c, flags) = FALSE
      BY <2>2 DEF Layout
    <3> HIDE DEF Width
    <3> QED BY <3>1
  <2>3. CASE Columns[t][c].kind = "heap"
    <3>1. Columns[t][c].kind # "constant"
      BY <2>3
    <3>2. Width(c) = (Columns[t][c].of \in flags) /\ Layout(t, c, flags) = (Columns[t][c].of \in flags)
      BY <2>3, <3>1 DEF Layout
    <3>3. (Columns[t][c].of \in flags) \in BOOLEAN
      OBVIOUS
    <3> HIDE DEF Width
    <3> QED BY <3>2, <3>3
  <2>4. CASE Columns[t][c].kind = "index"
    <3> DEFINE Many == \E u \in Range(Columns[t][c].of) :
                          counts[u] * 2^Columns[t][c].bits > Max16
    <3>1. Columns[t][c].kind # "constant" /\ Columns[t][c].kind # "heap"
      BY <2>4
    <3>2. Width(c) = (minimal \/ Many) /\ Layout(t, c, flags) = minimal
      BY <2>4, <3>1 DEF Layout
    <3>3. ~Many
      BY <2>4 DEF InTwoBytes
    <3> HIDE DEF Many, Width
    <3>4. (minimal \/ Many) = minimal
      BY <3>3, Zenon
    <3> QED BY <3>2, <3>4
  <2> QED BY <2>1, <2>2, <2>3, <2>4
<1> HIDE DEF Width, wide
<1>4. wide \in [1 .. n -> BOOLEAN] /\ \A c \in 1 .. n : wide[c] = Layout(t, c, flags)
  BY <1>2, <1>3
<1>5. wide \in Seq(BOOLEAN) /\ Len(wide) = n
  <2> HIDE DEF n
  <2> QED BY <1>1, <1>4, FunctionIsSequence
<1> QED BY <1>4, <1>5 DEF wide

(* A table is laid out as a reader of the image lays it out.                *)
LEMMA SameLayout ==
    ASSUME NEW t \in Tables, minimal \in BOOLEAN, NEW counts, InTwoBytes(counts), NEW flags,
           NEW tb, IsTable(t, tb), tb.rows # 0, LaidOut(t, tb, flags)
    PROVE  tb.wide = initialize_table_details(t, counts, flags)
<1> DEFINE wide == initialize_table_details(t, counts, flags)
           n == Len(Columns[t])
<1>1. wide \in Seq(BOOLEAN) /\ Len(wide) = n /\ \A c \in 1 .. n : wide[c] = Layout(t, c, flags)
  BY LayoutFacts
<1>2. tb.wide \in Seq(BOOLEAN) /\ Len(tb.wide) = n
  BY DEF IsTable, Fits, TableRecords
<1>3. \A c \in 1 .. n : tb.wide[c] = Layout(t, c, flags)
  BY DEF LaidOut
<1> HIDE DEF wide
<1>4. wide = [c \in 1 .. n |-> wide[c]] /\ tb.wide = [c \in 1 .. n |-> tb.wide[c]]
  BY <1>1, <1>2
<1>5. \A c \in 1 .. n : wide[c] = tb.wide[c]
  BY <1>1, <1>3, Zenon
<1>6. tb.wide = wide
  BY <1>4, <1>5, Zenon
<1> QED BY <1>6 DEF wide
----------------------------------------------------------------------------
(* Tables once a heap has grown.                                            *)

(* The flags fit the heap, and are as they were for the others.             *)
FlagsFit(h, count, flags, flags2) ==
    /\ h \in flags2 <=> count > Max16
    /\ \A g \in Heaps \ {h} : g \in flags2 <=> g \in flags

LEMMA HeapWidth ==
    ASSUME NEW t \in Tables, NEW tb, NEW c \in 1 .. Len(Columns[t]), NEW h \in Heaps, NEW count
    PROVE  ResizedWidth(tb, t, c, h, count) =
              IF Columns[t][c].kind = "heap" /\ Columns[t][c].of = h THEN count > Max16
              ELSE tb.wide[c]
<1>1. RefersTo(Columns[t][c], h) <=> Columns[t][c].kind = "heap" /\ Columns[t][c].of = h
  BY WhatRefers DEF RefersTo
<1>2. CASE RefersTo(Columns[t][c], h)
  <2>1. Columns[t][c].kind = "heap" /\ Columns[t][c].kind # "index"
    BY <1>1, <1>2
  <2>2. ResizedWidth(tb, t, c, h, count) = (count > Max16 \/ FALSE)
    BY <1>2, <2>1 DEF ResizedWidth
  <2> QED BY <1>1, <1>2, <2>2
<1>3. CASE ~RefersTo(Columns[t][c], h)
  BY <1>1, <1>3 DEF ResizedWidth
<1> QED BY <1>2, <1>3

LEMMA ResizedForHeap ==
    ASSUME NEW t \in Tables, NEW tb, IsTable(t, tb), tb.rows # 0, minimal \in BOOLEAN,
           NEW flags, LaidOut(t, tb, flags),
           NEW h \in Heaps, NEW count, NEW flags2, FlagsFit(h, count, flags, flags2)
    PROVE  LET tc == set_column_size_for_max_row_count(tb, t, h, count)
           IN  /\ IsTable(t, tc) /\ LaidOut(t, tc, flags2)
               /\ tc.rows = tb.rows /\ tc.adding = tb.adding
<1> DEFINE tc == set_column_size_for_max_row_count(tb, t, h, count)
           n == Len(Columns[t])
           wide == [c \in 1 .. n |-> Layout(t, c, flags2)]
           Of(c) == Columns[t][c].kind = "heap" /\ Columns[t][c].of = h
<1>1. n \in Nat /\ tb.wide \in Seq(BOOLEAN) /\ Len(tb.wide) = n
  BY ColumnFacts DEF IsTable, Fits, TableRecords
<1>2. ASSUME NEW c \in 1 .. n
      PROVE  /\ Layout(t, c, flags2) \in BOOLEAN
             /\ Of(c) => Layout(t, c, flags2) = (count > Max16)
             /\ ~Of(c) => Layout(t, c, flags2) = Layout(t, c, flags)
  <2>1. IsColumn(Columns[t][c], t)
    BY ColumnFacts
  <2>2. CASE Columns[t][c].kind = "constant"
    BY <2>2 DEF Layout
  <2>3. CASE Columns[t][c].kind = "heap"
    <3>1. Columns[t][c].kind # "constant" /\ Columns[t][c].of \in Heaps
      BY <2>1, <2>3 DEF IsColumn
    <3>2. \A f : Layout(t, c, f) = (Columns[t][c].of \in f)
      BY <2>3, <3>1 DEF Layout
    <3>3. ASSUME Of(c) PROVE Layout(t, c, flags2) = (count > Max16)
      <4>1. Layout(t, c, flags2) = (h \in flags2)
        BY <3>2, <3>3
      <4>2. (h \in flags2) = (count > Max16)
        BY DEF FlagsFit
      <4> QED BY <4>1, <4>2
    <3>4. ASSUME ~Of(c) PROVE Layout(t, c, flags2) = Layout(t, c, flags)
      <4>1. Columns[t][c].of \in Heaps \ {h}
        BY <2>3, <3>1, <3>4
      <4>2. (Columns[t][c].of \in flags2) = (Columns[t][c].of \in flags)
        BY <4>1 DEF FlagsFit
      <4> QED BY <3>2, <4>2
    <3>5. Layout(t, c, flags2) \in BOOLEAN
      <4> DEFINE flagged == Columns[t][c].of \in flags2
      <4>1. Layout(t, c, flags2) = flagged /\ flagged \in BOOLEAN
        BY <3>2
      <4> HIDE DEF flagged
      <4> QED BY <4>1
    <3> QED BY <3>3, <3>4, <3>5
  <2>4. CASE Columns[t][c].kind = "index"
    <3>1. \A f : Layout(t, c, f) = minimal
      BY <2>4 DEF Layout
    <3> QED BY <2>4, <3>1, Zenon
  <2> QED BY <2>1, <2>2, <2>3, <2>4 DEF IsColumn
<1>3. \A c \in 1 .. n : tb.wide[c] = Layout(t, c, flags)
  BY DEF LaidOut
<1>4. wide \in Seq(BOOLEAN) /\ Len(wide) = n /\ DOMAIN wide = 1 .. n /\ DOMAIN tb.wide = 1 .. n
  <2>1. wide \in [1 .. n -> BOOLEAN]
    BY <1>2
  <2> HIDE DEF wide, n
  <2>2. wide \in Seq(BOOLEAN) /\ Len(wide) = n
    BY <1>1, <2>1, FunctionIsSequence
  <2> QED BY <1>1, <2>2, RowSizeFacts
<1>5. \A c \in 1 .. n : wide[c] = Layout(t, c, flags2)
  OBVIOUS
<1> HIDE DEF wide
<1>6. \A c \in 1 .. n : ResizedWidth(tb, t, c, h, count) = IF Of(c) THEN count > Max16 ELSE tb.wide[c]
  BY HeapWidth
<1> HIDE DEF Of
<1>7. \A c \in 1 .. n : ResizedWidth(tb, t, c, h, count) = wide[c]
  BY <1>2, <1>3, <1>5, <1>6, Zenon
<1>8. Wide(tb.wide) \subseteq Wide(wide) \/ Wide(wide) \subseteq Wide(tb.wide)
  <2>1. CASE count > Max16
    <3>1. \A c \in 1 .. n : tb.wide[c] => wide[c]
      BY <1>2, <1>3, <1>5, <2>1, Zenon
    <3> QED BY <1>4, <3>1 DEF Wide
  <2>2. CASE ~(count > Max16)
    <3>1. \A c \in 1 .. n : wide[c] => tb.wide[c]
      BY <1>2, <1>3, <1>5, <2>2, Zenon
    <3> QED BY <1>4, <3>1 DEF Wide
  <2> QED BY <2>1, <2>2
<1>9. IsTable(t, tc) /\ tc.rows = tb.rows /\ tc.wide = wide /\ tc.adding = tb.adding
  <2> HIDE DEF n
  <2> QED BY <1>1, <1>4, <1>7, <1>8, ResizedTable
<1> HIDE DEF tc
<1>10. LaidOut(t, tc, flags2)
  BY <1>5, <1>9 DEF LaidOut
<1> QED BY <1>9, <1>10 DEF tc
----------------------------------------------------------------------------
(* A row more.                                                              *)

LEMMA RowAdded ==
    ASSUME NEW t \in Tables, NEW tb, Fits(t, tb), tb.rows < MaxRows[t],
           Len(tb.data) = tb.rows * RowSize(tb.wide), NEW r \in 1 .. tb.rows + 1
    PROVE  LET tc == WithRow(tb, r)
           IN  IsTable(t, tc) /\ tc.wide = tb.wide /\ tc.rows = tb.rows + 1
<1> DEFINE size == RowSize(tb.wide)
           n == tb.rows
           place == size * (r - 1)
           need == size * (n + 1)
           room == IF tb.capacity >= need THEN tb.capacity ELSE Max({need, 2 * Len(tb.data)})
           zero == [p \in 1 .. size |-> 0]
           before == SubSeq(tb.data, 1, place)
           after == SubSeq(tb.data, place + 1, Len(tb.data))
           data == before \o zero \o after
           tc == WithRow(tb, r)
<1>1. /\ tb \in TableRecords /\ n \in Nat /\ tb.wide \in Seq(BOOLEAN) /\ tb.data \in Seq(Halves)
      /\ tb.capacity \in Nat /\ Len(tb.data) \in Nat
  BY DEF Fits, TableRecords
<1>2. size \in Nat /\ MaxRows[t] \in Nat
  <2>1. MaxRows[t] \in Nat
    BY LayoutAssumption, Zenon
  <2> QED BY <1>1, <2>1, RowSizeFacts
<1>3. tc = [tb EXCEPT !.rows = n + 1, !.adding = TRUE, !.capacity = room, !.data = data]
  BY DEF WithRow
<1>4. Len(tb.data) = n * size
  OBVIOUS
<1>5. zero \in Seq(Halves) /\ Len(zero) = size
  <2>1. zero \in [1 .. size -> Halves]
    BY Max16IsNumber DEF Halves
  <2> HIDE DEF zero, size
  <2> QED BY <1>2, <2>1, FunctionIsSequence
<1> HIDE DEF size, zero
<1>6. /\ place \in Nat /\ place <= Len(tb.data)
      /\ need \in Nat /\ need = Len(tb.data) + size
  <2> DEFINE k == r - 1
  <2>1. k \in Nat /\ k <= n
    BY <1>1
  <2> HIDE DEF k
  <2>2. k * size \in Nat /\ k * size <= n * size /\ (n + 1) * size = n * size + size
    BY <1>1, <1>2, <2>1, ProductOrder
  <2>3. place = k * size /\ need = (n + 1) * size
    <3>1. \A a, b \in Nat : a * b = b * a
      OBVIOUS
    <3>2. n + 1 \in Nat /\ place = size * k
      BY <1>1 DEF k
    <3> HIDE DEF place
    <3> QED BY <1>2, <2>1, <3>1, <3>2
  <2> QED BY <1>1, <1>2, <1>4, <2>2, <2>3
<1> HIDE DEF place, need
<1>7. before \in Seq(Halves) /\ Len(before) = place
  <2>1. \A i \in 1 .. place : tb.data[i] \in Halves
    BY <1>1, <1>6
  <2>2. 1 \in Int /\ place \in Int
    BY <1>6
  <2>3. /\ before \in Seq(Halves)
        /\ Len(before) = IF 1 <= place THEN place - 1 + 1 ELSE 0
    BY <2>1, <2>2, SubSeqProperties
  <2> HIDE DEF before
  <2> QED BY <1>6, <2>3
<1>8. after \in Seq(Halves) /\ Len(after) = Len(tb.data) - place
  <2>1. \A i \in place + 1 .. Len(tb.data) : tb.data[i] \in Halves
    BY <1>1, <1>6
  <2>2. place + 1 \in Int /\ Len(tb.data) \in Int
    BY <1>1, <1>6
  <2>3. /\ after \in Seq(Halves)
        /\ Len(after) = IF place + 1 <= Len(tb.data) THEN Len(tb.data) - (place + 1) + 1 ELSE 0
    BY <2>1, <2>2, SubSeqProperties
  <2> HIDE DEF after
  <2> QED BY <1>1, <1>6, <2>3
<1> HIDE DEF before, after
<1>9. data \in Seq(Halves) /\ Len(data) = need
  <2> DEFINE front == before \o zero
  <2>1. front \in Seq(Halves) /\ Len(front) = place + size
    BY <1>5, <1>7, ConcatProperties
  <2> HIDE DEF front
  <2>2. front \o after \in Seq(Halves) /\ Len(front \o after) = Len(front) + Len(after)
    BY <1>8, <2>1, ConcatProperties
  <2>3. data = front \o after
    BY DEF front
  <2> HIDE DEF data
  <2> QED BY <1>1, <1>2, <1>6, <1>8, <2>1, <2>2, <2>3
<1>10. room \in Nat /\ need <= room
  <2>1. CASE tb.capacity >= need
    BY <1>1, <1>6, <2>1
  <2>2. CASE ~(tb.capacity >= need)
    <3> DEFINE both == {need, 2 * Len(tb.data)}
               bound == need + 2 * Len(tb.data)
    <3>1. bound \in Nat /\ both \subseteq 0 .. bound /\ both # {}
      BY <1>1, <1>6
    <3>2. need \in both /\ both \subseteq Nat
      BY <1>1, <1>6
    <3> HIDE DEF both, bound
    <3>3. Max(both) \in both /\ \A y \in both : Max(both) >= y
      BY <3>1, MaxIsMember
    <3>4. room = Max(both)
      BY <2>2 DEF both
    <3> QED BY <1>6, <3>2, <3>3, <3>4
  <2> QED BY <2>1, <2>2
<1> HIDE DEF data, room, tc
<1>11. /\ tc \in TableRecords
       /\ tc.rows = n + 1 /\ tc.wide = tb.wide /\ tc.offset = tb.offset
       /\ tc.data = data /\ tc.capacity = room
  <2>1. n + 1 \in Nat
    BY <1>1
  <2> QED BY <1>1, <1>3, <1>9, <1>10, <2>1 DEF TableRecords
<1>12. Fits(t, tc)
  BY <1>11 DEF Fits
<1>13. Len(tc.data) = tc.rows * RowSize(tc.wide)
  <2>1. (n + 1) * size = n * size + size
    BY <1>1, <1>2, ProductOrder
  <2> QED BY <1>4, <1>6, <1>9, <1>11, <2>1 DEF size
<1>14. IsTable(t, tc)
  BY <1>1, <1>2, <1>9, <1>10, <1>11, <1>12, <1>13 DEF IsTable
<1> QED BY <1>11, <1>14 DEF tc

(* Tables that refer to one that grows keep their layout while both stay    *)
(* within two bytes.                                                        *)
LEMMA WithinTwoBytes ==
    ASSUME NEW u \in Tables, NEW t \in Tables, IsTable(u, tables[u]), tables[u].rows # 0,
           LaidOut(u, tables[u], large), minimal \in BOOLEAN, Within(t)
    PROVE  set_column_size_for_max_row_count(tables[u], u, t, tables[u].rows + 1) = tables[u]
<1> DEFINE tb == tables[u]
           n == tb.rows + 1
<1>1. /\ tb.wide \in Seq(BOOLEAN) /\ Len(tb.wide) = Len(Columns[u]) /\ n \in Nat
      /\ DOMAIN Columns[u] = 1 .. Len(Columns[u])
  BY ColumnFacts DEF IsTable, Fits, TableRecords
<1>2. ASSUME NEW c \in 1 .. Len(Columns[u]) PROVE ResizedWidth(tb, u, c, t, n) = tb.wide[c]
  <2>1. CASE ~RefersTo(Columns[u][c], t)
    BY <2>1 DEF ResizedWidth
  <2>2. CASE RefersTo(Columns[u][c], t)
    <3> DEFINE value == compose_coded_index(Columns[u][c], t, n)
               bits == 2^Columns[u][c].bits
    <3>1. Columns[u][c].kind = "index" /\ t \in Range(Columns[u][c].of)
      BY <2>2, WhatRefers
    <3>2. value \in Nat /\ value + 1 <= (n + 1) * bits
      <4> HIDE DEF n
      <4> QED BY <1>1, <3>1, ComposedFacts
    <3>3. (n + 1) * bits <= Max16
      <4>1. (tb.rows + 2) * bits <= Max16
        BY <1>1, <2>2, <3>1 DEF Within
      <4>2. n + 1 = tb.rows + 2
        BY DEF IsTable, TableRecords
      <4> HIDE DEF n, bits
      <4> QED BY <4>1, <4>2
    <3>4. ~(value > Max16)
      <4> DEFINE bound == (n + 1) * bits
      <4>1. bound \in Nat
        <5>1. bits \in Nat
          BY <3>1, IndexFacts
        <5> HIDE DEF n, bits
        <5>2. n + 1 \in Nat
          BY <1>1
        <5> QED BY <5>1, <5>2, ProductOrder
      <4> HIDE DEF bound, value
      <4> QED BY <3>2, <3>3, <4>1, Max16IsNumber DEF bound
    <3>5. tb.wide[c] = minimal
      <4>1. Layout(u, c, large) = minimal
        BY <3>1 DEF Layout
      <4>2. tb.wide[c] = Layout(u, c, large)
        BY DEF LaidOut
      <4> QED BY <4>1, <4>2, Zenon
    <3>6. ResizedWidth(tb, u, c, t, n) = (value > Max16 \/ (tb.wide[c] /\ minimal /\ TRUE))
      BY <2>2, <3>1 DEF ResizedWidth
    <3> HIDE DEF value, n, tb
    <3> QED BY <3>4, <3>5, <3>6, Zenon
  <2> QED BY <2>1, <2>2
<1> HIDE DEF n
<1>3. set_column_size_for_max_row_count(tb, u, t, n) = tb
  <2>1. IsTable(u, tb) /\ tb.rows # 0 /\ Wide(tb.wide) \subseteq Wide(tb.wide)
    OBVIOUS
  <2> HIDE DEF tb
  <2> QED BY <1>1, <1>2, <2>1, ResizedTable
<1> QED BY <1>3 DEF n
----------------------------------------------------------------------------
(* The inductive invariant.  References to tables are within two bytes, and *)
(* the columns of the GUIDs, whose flag is never set, are narrow.           *)
CountsFit == InTwoBytes(Counts)

IInv ==
    /\ tables = [t \in Tables |-> tables[t]] /\ heaps = [h \in Heaps |-> heaps[h]]
    /\ \A h \in Heaps : heaps[h].size \in 0 .. MaxHeap[h]
    /\ large \subseteq Heaps \ {GuidHeap} /\ minimal \in BOOLEAN
    /\ \A t \in Tables : IsTable(t, tables[t]) /\ LaidOut(t, tables[t], large)
    /\ CountsFit

LEMMA IInvTable ==
    ASSUME IInv, NEW t \in Tables
    PROVE  IsTable(t, tables[t]) /\ LaidOut(t, tables[t], large)
BY DEF IInv

(* What a step has to show.                                                 *)
LEMMA Established ==
    ASSUME minimal \in BOOLEAN, minimal' = minimal,
           tables' = [t \in Tables |-> tables'[t]], heaps' = [h \in Heaps |-> heaps'[h]],
           \A h \in Heaps : heaps'[h].size \in 0 .. MaxHeap[h],
           large' \subseteq Heaps \ {GuidHeap},
           \A t \in Tables : IsTable(t, tables'[t]) /\ LaidOut(t, tables'[t], large'),
           CountsFit'
    PROVE  IInv'
<1>1. \A t \in Tables : IsTable(t, tables[t])'
  BY DEF IsTable, Fits
<1>2. \A t \in Tables : LaidOut(t, tables[t], large)'
  <2>1. \A t \in Tables : \A c \in 1 .. Len(Columns[t]) :
            Layout(t, c, large)' = Layout(t, c, large')
    BY Zenon DEF Layout
  <2> QED BY <2>1, Zenon DEF LaidOut
<1> QED BY <1>1, <1>2, Zenon DEF IInv

(* A step that leaves heaps and the numbers of rows alone.                  *)
LEMMA EstablishedWithRows ==
    ASSUME IInv, minimal' = minimal, UNCHANGED <<heaps, large>>,
           tables' = [t \in Tables |-> tables'[t]],
           \A t \in Tables : /\ IsTable(t, tables'[t]) /\ LaidOut(t, tables'[t], large)
                             /\ tables'[t].rows = tables[t].rows
    PROVE  IInv'
<1>1. CountsFit'
  BY Zenon DEF IInv, CountsFit, InTwoBytes, Counts
<1> QED BY <1>1, Established, Zenon DEF IInv
----------------------------------------------------------------------------
(* Writing a column, and committing a row.                                  *)

LEMMA WrittenTable ==
    ASSUME NEW t \in Tables, NEW tb, IsTable(t, tb),
           NEW r \in 1 .. tb.rows, NEW c \in DOMAIN tb.wide, NEW v \in Nat
    PROVE  /\ tb.rows # 0 /\ c \in 1 .. Len(Columns[t]) /\ r \in Nat \ {0}
           /\ Keeps(tb, write_column_data(tb, r, c, v))
<1>1. tb.rows # 0 /\ r \in Nat \ {0}
  BY DEF IsTable, TableRecords
<1>2. Fits(t, tb) /\ tb \in TableRecords /\ tb.wide \in Seq(BOOLEAN)
  BY <1>1 DEF IsTable, TableRecords
<1>3. DOMAIN tb.wide = 1 .. Len(Columns[t]) /\ Len(tb.wide) = Len(tb.offset)
      /\ Len(tb.offset) = Len(Columns[t])
  BY <1>2, RowSizeFacts DEF Fits
<1>4. c \in 1 .. Len(tb.offset)
  BY <1>3
<1>5. Keeps(tb, write_column_data(tb, r, c, v))
  BY <1>1, <1>2, <1>3, <1>4, WriteKeeps
<1> QED BY <1>1, <1>3, <1>5

LEMMA WriteKeepsIInv ==
    ASSUME IInv, NEW t \in Tables, NEW r \in 1 .. tables[t].rows,
           NEW c \in DOMAIN tables[t].wide, NEW v \in Nat,
           tables' = [tables EXCEPT ![t] = write_column_data(@, r, c, v)],
           UNCHANGED <<heaps, large, minimal>>
    PROVE  IInv'
<1> DEFINE tb == write_column_data(tables[t], r, c, v)
<1>1. IsTable(t, tables[t]) /\ LaidOut(t, tables[t], large)
  BY IInvTable
<1>2. tables[t].rows # 0 /\ Keeps(tables[t], tb)
  BY <1>1, WrittenTable
<1>3. tables' = [tables EXCEPT ![t] = tb]
  OBVIOUS
<1> HIDE DEF tb
<1>4. IsTable(t, tb) /\ LaidOut(t, tb, large) /\ tb.rows = tables[t].rows
  BY <1>1, <1>2, KeptTable DEF Keeps
<1>5. tables = [u \in Tables |-> tables[u]]
  BY DEF IInv
<1>6. tables' = [u \in Tables |-> tables'[u]] /\ tables'[t] = tb
      /\ \A u \in Tables \ {t} : tables'[u] = tables[u]
  BY <1>3, <1>5
<1>7. ASSUME NEW u \in Tables
      PROVE  /\ IsTable(u, tables'[u]) /\ LaidOut(u, tables'[u], large)
             /\ tables'[u].rows = tables[u].rows
  <2>1. CASE u = t
    BY <1>4, <1>6, <2>1
  <2>2. CASE u # t
    BY <1>6, <2>2, IInvTable
  <2> QED BY <2>1, <2>2
<1> QED BY <1>6, <1>7, EstablishedWithRows, Zenon

LEMMA SetValueKeepsIInv ==
    ASSUME IInv, NEW t \in Tables, NEW r \in 1 .. tables[t].rows,
           NEW c \in DOMAIN tables[t].wide, SetValue(t, r, c)
    PROVE  IInv'
<1>1. ASSUME NEW v \in {Max16}, md_set_column_value_as_constant(t, r, c, v) PROVE IInv'
  BY <1>1, Max16IsNumber, WriteKeepsIInv DEF md_set_column_value_as_constant
<1>2. ASSUME Columns[t][c].kind = "index", NEW to \in Targets(Columns[t][c]),
             md_set_column_value_as_token(t, r, c, to)
      PROVE  IInv'
  <2> DEFINE v == compose_coded_index(Columns[t][c], to[1], to[2])
  <2>1. to[1] \in Range(Columns[t][c].of) /\ to[2] \in Nat
    <3>1. PICK u \in Range(Columns[t][c].of) : to \in {u} \X (0 .. tables[u].rows + 1)
      BY <1>2 DEF Targets
    <3> QED BY <3>1
  <2>2. c \in 1 .. Len(Columns[t])
    BY IInvTable, Max16IsNumber, WrittenTable
  <2>3. v \in Nat
    BY <1>2, <2>1, <2>2, ComposedFacts
  <2>4. tables' = [tables EXCEPT ![t] = write_column_data(@, r, c, v)]
    BY <1>2 DEF md_set_column_value_as_token
  <2>5. UNCHANGED <<heaps, large, minimal>>
    BY <1>2 DEF md_set_column_value_as_token
  <2> HIDE DEF v
  <2> QED BY <2>3, <2>4, <2>5, WriteKeepsIInv
<1>3. CASE md_set_column_value_as_empty(t, r, c)
  <2>1. 0 \in Nat
    OBVIOUS
  <2> QED BY <1>3, <2>1, WriteKeepsIInv DEF md_set_column_value_as_empty
<1> QED BY <1>1, <1>2, <1>3 DEF SetValue

LEMMA CommitKeepsIInv ==
    ASSUME IInv, NEW t \in Tables, md_commit_row_add(t)
    PROVE  IInv'
<1> DEFINE tb == [tables[t] EXCEPT !.adding = FALSE]
<1>1. IsTable(t, tables[t]) /\ LaidOut(t, tables[t], large)
  BY IInvTable
<1>2. tables[t] \in TableRecords /\ tables[t].rows # 0
  <2>1. tables[t].adding
    BY DEF md_commit_row_add
  <2>2. NoTable.adding = FALSE
    BY DEF NoTable
  <2> QED BY <1>1, <2>1, <2>2 DEF IsTable
<1>3. tables' = [tables EXCEPT ![t] = tb] /\ UNCHANGED <<heaps, large, minimal>>
  BY DEF md_commit_row_add
<1>4. /\ tb \in TableRecords /\ tb.rows = tables[t].rows /\ tb.wide = tables[t].wide
      /\ tb.offset = tables[t].offset /\ tb.data = tables[t].data
      /\ tb.capacity = tables[t].capacity
  BY <1>2 DEF TableRecords
<1> HIDE DEF tb
<1>5. IsTable(t, tb) /\ LaidOut(t, tb, large)
  <2>1. IsTable(t, tb)
    BY <1>1, <1>2, <1>4 DEF IsTable, Fits
  <2>2. LaidOut(t, tb, large)
    BY <1>1, <1>4 DEF LaidOut
  <2> QED BY <2>1, <2>2
<1>6. tables = [u \in Tables |-> tables[u]]
  BY DEF IInv
<1>7. tables' = [u \in Tables |-> tables'[u]] /\ tables'[t] = tb
      /\ \A u \in Tables \ {t} : tables'[u] = tables[u]
  BY <1>3, <1>6
<1>8. ASSUME NEW u \in Tables
      PROVE  /\ IsTable(u, tables'[u]) /\ LaidOut(u, tables'[u], large)
             /\ tables'[u].rows = tables[u].rows
  <2>1. CASE u = t
    BY <1>4, <1>5, <1>7, <2>1
  <2>2. CASE u # t
    BY <1>7, <2>2, IInvTable
  <2> QED BY <2>1, <2>2
<1> QED BY <1>3, <1>7, <1>8, EstablishedWithRows, Zenon
----------------------------------------------------------------------------
(* Inserting a row.                                                         *)

LEMMA StillInTwoBytes ==
    ASSUME IInv, NEW t \in Tables, Within(t), NEW n \in 0 .. tables[t].rows + 1
    PROVE  InTwoBytes([Counts EXCEPT ![t] = n])
<1> DEFINE counts == [Counts EXCEPT ![t] = n]
<1>1. counts[t] = n /\ \A u \in Tables \ {t} : counts[u] = Counts[u]
  BY DEF Counts
<1> HIDE DEF counts
<1>2. ASSUME NEW u \in Tables, NEW c \in 1 .. Len(Columns[u]), Columns[u][c].kind = "index",
             NEW v \in Range(Columns[u][c].of)
      PROVE  ~(counts[v] * 2^Columns[u][c].bits > Max16)
  <2> DEFINE bits == 2^Columns[u][c].bits
  <2>1. bits \in Nat /\ v \in Tables
    <3>1. Columns[u][c].of \in Seq(Tables \ {u}) /\ bits \in Nat
      BY <1>2, IndexFacts
    <3> HIDE DEF bits
    <3> QED BY <3>1 DEF Range
  <2>2. CASE v = t
    <3>1. tables[t].rows \in Nat
      BY IInvTable DEF IsTable, TableRecords
    <3>2. (tables[t].rows + 2) * bits <= Max16
      <4>1. RefersTo(Columns[u][c], t) /\ c \in DOMAIN Columns[u]
        BY <1>2, <2>2, ColumnFacts DEF RefersTo
      <4> QED BY <1>2, <4>1 DEF Within
    <3> DEFINE m == tables[t].rows + 2
    <3>3. n \in Nat /\ m \in Nat /\ n <= m
      BY <3>1
    <3>4. m * bits <= Max16
      BY <3>2
    <3> HIDE DEF bits, m
    <3>5. n * bits \in Nat /\ m * bits \in Nat /\ n * bits <= m * bits
      BY <2>1, <3>3, ProductOrder
    <3>6. ~(n * bits > Max16)
      BY <3>4, <3>5, Max16IsNumber
    <3> QED BY <1>1, <2>2, <3>6 DEF bits
  <2>3. CASE v # t
    <3>1. ~(Counts[v] * 2^Columns[u][c].bits > Max16)
      BY <1>2 DEF IInv, CountsFit, InTwoBytes
    <3> QED BY <1>1, <2>1, <2>3, <3>1
  <2> QED BY <2>2, <2>3
<1> QED BY <1>2 DEF InTwoBytes, counts

(* A new table.                                                             *)
LEMMA NewTableFits ==
    ASSUME IInv, NEW t \in Tables, ~Exists(t), Within(t)
    PROVE  /\ Fits(t, NewTable(t)) /\ NewTable(t).rows = 0 /\ Len(NewTable(t).data) = 0
           /\ \A c \in 1 .. Len(Columns[t]) : NewTable(t).wide[c] = Layout(t, c, large)
<1> DEFINE counts == [Counts EXCEPT ![t] = 1]
           wide == initialize_table_details(t, counts, large)
           tb == NewTable(t)
           capacity == 20 * RowSize(wide)
<1>1. InTwoBytes(counts)
  <2>1. tables[t].rows \in Nat
    BY IInvTable DEF IsTable, TableRecords
  <2>2. 1 \in 0 .. tables[t].rows + 1
    BY <2>1
  <2> HIDE DEF counts
  <2> QED BY <2>2, StillInTwoBytes DEF counts
<1> HIDE DEF counts
<1>2. /\ wide \in Seq(BOOLEAN) /\ Len(wide) = Len(Columns[t])
      /\ \A c \in 1 .. Len(Columns[t]) : wide[c] = Layout(t, c, large)
  <2>1. minimal \in BOOLEAN
    BY DEF IInv
  <2> QED BY <1>1, <2>1, LayoutFacts
<1>3. tb = [rows |-> 0, wide |-> wide, offset |-> Offsets(wide), data |-> << >>,
            capacity |-> capacity, adding |-> FALSE]
  BY DEF NewTable, counts
<1> HIDE DEF wide, tb
<1>4. Offsets(wide) \in Seq(Nat) /\ Len(Offsets(wide)) = Len(Columns[t])
  BY <1>2, OffsetFacts
<1>5. capacity \in Nat
  <2>1. RowSize(wide) \in Nat
    BY <1>2, RowSizeFacts
  <2> QED BY <2>1
<1> HIDE DEF capacity
<1>6. Fits(t, tb)
  BY <1>2, <1>3, <1>4, <1>5 DEF Fits, TableRecords
<1>7. tb.rows = 0 /\ Len(tb.data) = 0 /\ tb.wide = wide
  BY <1>3
<1> QED BY <1>2, <1>6, <1>7 DEF tb

LEMMA InsertedTable ==
    ASSUME IInv, NEW t \in Tables, Within(t), NEW r \in 1 .. tables[t].rows + 1,
           insert_row_into_table(t, r)
    PROVE  LET tb == IF Exists(t) THEN tables[t] ELSE NewTable(t)
               tc == WithRow(tb, r)
           IN  IsTable(t, tc) /\ LaidOut(t, tc, large) /\ tc.rows = tables[t].rows + 1
<1> DEFINE tb == IF Exists(t) THEN tables[t] ELSE NewTable(t)
           tc == WithRow(tb, r)
<1>1. IsTable(t, tables[t]) /\ LaidOut(t, tables[t], large)
  BY IInvTable
<1>2. /\ Fits(t, tb) /\ tb.rows = tables[t].rows
      /\ Len(tb.data) = tb.rows * RowSize(tb.wide)
      /\ \A c \in 1 .. Len(Columns[t]) : tb.wide[c] = Layout(t, c, large)
  <2>1. CASE Exists(t)
    <3>1. tb = tables[t] /\ tables[t].rows # 0
      BY <1>1, <2>1, ExistingTable
    <3> HIDE DEF tb
    <3> QED BY <1>1, <3>1 DEF IsTable, LaidOut
  <2>2. CASE ~Exists(t)
    <3>1. tables[t].rows = 0
      BY <1>1, <2>2, ExistingTable DEF NoTable
    <3>2. tb = NewTable(t)
      BY <2>2
    <3> HIDE DEF tb
    <3>3. Fits(t, tb) /\ tb.rows = 0 /\ Len(tb.data) = 0
          /\ \A c \in 1 .. Len(Columns[t]) : tb.wide[c] = Layout(t, c, large)
      BY <2>2, <3>2, NewTableFits
    <3>4. RowSize(tb.wide) \in Nat
      BY <3>3, RowSizeFacts DEF Fits, TableRecords
    <3> QED BY <3>1, <3>3, <3>4
  <2> QED BY <2>1, <2>2
<1>3. tb.rows < MaxRows[t] /\ r \in 1 .. tb.rows + 1
  BY DEF insert_row_into_table
<1> HIDE DEF tb
<1>4. IsTable(t, tc) /\ tc.wide = tb.wide /\ tc.rows = tb.rows + 1
  BY <1>2, <1>3, RowAdded
<1> HIDE DEF tc
<1>5. LaidOut(t, tc, large)
  BY <1>2, <1>4 DEF LaidOut
<1> QED BY <1>2, <1>4, <1>5 DEF tb, tc

(* Tables that may refer to the one that grows.                             *)
LEMMA ReferringTable ==
    ASSUME IInv, NEW t \in Tables, NEW u \in Tables, Within(t), NEW first
    PROVE  LET tc == update_table_references_for_shifted_rows(u, t, first)
           IN  IsTable(u, tc) /\ LaidOut(u, tc, large) /\ tc.rows = tables[u].rows
<1> DEFINE tc == update_table_references_for_shifted_rows(u, t, first)
<1>1. IsTable(u, tables[u]) /\ LaidOut(u, tables[u], large) /\ minimal \in BOOLEAN
  BY IInvTable DEF IInv
<1>2. CASE ~Exists(u)
  <2>1. tc = tables[u]
    BY <1>2 DEF update_table_references_for_shifted_rows
  <2> HIDE DEF tc
  <2> QED BY <1>1, <2>1 DEF tc
<1>3. CASE Exists(u)
  <2>1. tables[u].rows # 0 /\ Fits(u, tables[u])
    BY <1>1, <1>3, ExistingTable
  <2>2. set_column_size_for_max_row_count(tables[u], u, t, tables[u].rows + 1) = tables[u]
    BY <1>1, <2>1, WithinTwoBytes
  <2>3. Keeps(tables[u], tc)
    BY <1>3, <2>1, <2>2, ShiftTableKeeps
  <2> HIDE DEF tc
  <2>4. IsTable(u, tc) /\ LaidOut(u, tc, large) /\ tc.rows = tables[u].rows
    BY <1>1, <2>1, <2>3, KeptTable DEF Keeps
  <2> QED BY <2>4 DEF tc
<1> QED BY <1>2, <1>3

LEMMA InsertKeepsIInv ==
    ASSUME IInv, NEW t \in Tables, Within(t), NEW r \in 1 .. tables[t].rows + 1,
           insert_row_into_table(t, r)
    PROVE  IInv'
<1> DEFINE tc == WithRow(IF Exists(t) THEN tables[t] ELSE NewTable(t), r)
           td(u) == update_table_references_for_shifted_rows(u, t, r)
<1>1. /\ tables' = [u \in Tables |-> IF u = t THEN tc ELSE td(u)]
      /\ UNCHANGED <<heaps, large, minimal>>
  BY DEF insert_row_into_table
<1>2. IsTable(t, tc) /\ LaidOut(t, tc, large) /\ tc.rows = tables[t].rows + 1
  BY InsertedTable
<1>3. \A u \in Tables : IsTable(u, td(u)) /\ LaidOut(u, td(u), large) /\ td(u).rows = tables[u].rows
  BY ReferringTable
<1> HIDE DEF tc, td
<1>4. tables' = [u \in Tables |-> tables'[u]] /\ tables'[t] = tc
      /\ \A u \in Tables \ {t} : tables'[u] = td(u)
  BY <1>1
<1>5. \A u \in Tables : IsTable(u, tables'[u]) /\ LaidOut(u, tables'[u], large')
  <2>1. \A u \in Tables : IsTable(u, tables'[u]) /\ LaidOut(u, tables'[u], large)
    BY <1>2, <1>3, <1>4
  <2> QED BY <1>1, <2>1, Zenon
<1>6. CountsFit'
  <2> DEFINE n == tables[t].rows + 1
             counts == [Counts EXCEPT ![t] = n]
  <2>1. n \in 0 .. n
    <3>1. tables[t].rows \in Nat
      BY IInvTable DEF IsTable, TableRecords
    <3> QED BY <3>1
  <2>2. tables'[t].rows = n /\ \A u \in Tables \ {t} : tables'[u].rows = tables[u].rows
    BY <1>2, <1>3, <1>4
  <2>3. [u \in Tables |-> tables'[u].rows] = counts
    <3> HIDE DEF n
    <3> QED BY <2>2 DEF Counts
  <2>4. InTwoBytes(counts)
    BY <2>1, StillInTwoBytes
  <2> HIDE DEF counts
  <2>5. InTwoBytes([u \in Tables |-> tables'[u].rows])
    BY <2>3, <2>4, Zenon
  <2> QED BY <2>5, Zenon DEF CountsFit, Counts, InTwoBytes
<1> QED BY <1>1, <1>4, <1>5, <1>6, Established, Zenon DEF IInv
----------------------------------------------------------------------------
(* Heaps that grow.                                                         *)

LEMMA HeapFacts ==
    ASSUME IInv, NEW h \in Heaps
    PROVE  /\ heaps[h].size \in Nat /\ Scale(h) \in Nat \ {0} /\ MaxHeap[h] \in Nat
           /\ \A s \in DOMAIN Strings : SizeIn(h, s) \in Nat
           /\ \A preserve : StartSize(h, preserve) \in Nat
<1>1. /\ MaxHeap[h] \in Nat /\ GuidSize \in Nat \ {0} /\ Strings = Strings
      /\ \A s \in DOMAIN Strings : Strings[s] \in Nat
  BY LayoutAssumption, Zenon
<1>2. heaps[h].size \in Nat
  <2>1. heaps[h].size \in 0 .. MaxHeap[h]
    BY DEF IInv
  <2> QED BY <1>1, <2>1
<1>3. \A s \in DOMAIN Strings : SizeIn(h, s) \in Nat
  BY <1>1 DEF SizeIn
<1> QED BY <1>1, <1>2, <1>3 DEF Scale, StartSize

(* The flag of the heap that grew fits it, if it is one that has a flag or  *)
(* few enough entries.                                                      *)
LEMMA FlagFollows ==
    ASSUME IInv, NEW h \in Heaps, NEW size \in Nat,
           h = GuidHeap => ~(size \div GuidSize > Max16)
    PROVE  /\ FlagsFit(h, size \div Scale(h), large, FlagsForHeap(h, size))
           /\ FlagsForHeap(h, size) \subseteq Heaps \ {GuidHeap}
<1>1. large \subseteq Heaps \ {GuidHeap}
  BY DEF IInv
<1>2. CASE h = GuidHeap
  <2>1. FlagsForHeap(h, size) = large /\ Scale(h) = GuidSize
    BY <1>2 DEF FlagsForHeap, Scale
  <2>2. ~(size \div Scale(h) > Max16)
    BY <1>2, <2>1
  <2>3. h \notin large
    BY <1>1, <1>2
  <2> QED BY <1>1, <2>1, <2>2, <2>3, Zenon DEF FlagsFit
<1>3. CASE h # GuidHeap
  <2>1. Scale(h) = 1 /\ size \div 1 = size
    BY <1>3 DEF Scale
  <2>2. FlagsForHeap(h, size) = IF size > Max16 THEN large \union {h} ELSE large \ {h}
    BY <1>3 DEF FlagsForHeap
  <2>3. FlagsFit(h, size, large, FlagsForHeap(h, size))
    BY <2>2, Zenon DEF FlagsFit
  <2>4. FlagsForHeap(h, size) \subseteq Heaps \ {GuidHeap}
    BY <1>1, <1>3, <2>2
  <2> QED BY <2>1, <2>3, <2>4
<1> QED BY <1>2, <1>3

LEMMA GrownTables ==
    ASSUME IInv, NEW h \in Heaps, NEW size \in Nat,
           h = GuidHeap => ~(size \div GuidSize > Max16), NEW t \in Tables
    PROVE  LET tc == TablesForHeap(h, size)[t]
           IN  /\ IsTable(t, tc) /\ LaidOut(t, tc, FlagsForHeap(h, size))
               /\ tc.rows = tables[t].rows
<1> DEFINE count == size \div Scale(h)
           tc == set_column_size_for_max_row_count(tables[t], t, h, count)
<1>1. FlagsFit(h, count, large, FlagsForHeap(h, size))
  BY FlagFollows
<1>2. TablesForHeap(h, size)[t] = IF Exists(t) THEN tc ELSE tables[t]
  BY DEF TablesForHeap
<1>3. IsTable(t, tables[t]) /\ LaidOut(t, tables[t], large) /\ minimal \in BOOLEAN
  BY IInvTable DEF IInv
<1>4. CASE Exists(t)
  <2>1. tables[t].rows # 0
    BY <1>3, <1>4, ExistingTable
  <2> HIDE DEF count
  <2>2. /\ IsTable(t, tc) /\ LaidOut(t, tc, FlagsForHeap(h, size))
        /\ tc.rows = tables[t].rows
    BY <1>1, <1>3, <2>1, ResizedForHeap
  <2> HIDE DEF tc
  <2> QED BY <1>2, <1>4, <2>2
<1>5. CASE ~Exists(t)
  <2>1. tables[t] = NoTable
    BY <1>3, <1>5, ExistingTable
  <2>2. LaidOut(t, NoTable, FlagsForHeap(h, size))
    BY NoTableIsTable
  <2> HIDE DEF tc
  <2> QED BY <1>2, <1>3, <1>5, <2>1, <2>2
<1> QED BY <1>4, <1>5

LEMMA HeapReserved ==
    ASSUME IInv, NEW h \in Heaps, NEW size, NEW preserve \in BOOLEAN, NEW entry,
           reserve_heap_space(h, size, preserve, entry), size \in Nat
    PROVE  /\ heaps' = [g \in Heaps |-> heaps'[g]]
           /\ \A g \in Heaps : heaps'[g].size \in 0 .. MaxHeap[g]
           /\ large' = FlagsForHeap(h, StartSize(h, preserve) + size)
           /\ StartSize(h, preserve) + size \in Nat
           /\ minimal' = minimal
<1> DEFINE n == StartSize(h, preserve) + size
           entries == (StartSize(h, preserve) :> entry) @@ heaps[h].entries
           new == [size |-> n, entries |-> entries]
<1>1. /\ n <= MaxHeap[h] /\ large' = FlagsForHeap(h, n) /\ minimal' = minimal
      /\ heaps' = [heaps EXCEPT ![h] = new]
  BY DEF reserve_heap_space
<1>2. n \in Nat /\ n \in 0 .. MaxHeap[h]
  <2>1. StartSize(h, preserve) \in Nat /\ MaxHeap[h] \in Nat
    BY HeapFacts
  <2>2. n \in Nat
    BY <2>1
  <2> HIDE DEF n
  <2> QED BY <1>1, <2>1, <2>2
<1> HIDE DEF n, entries
<1>3. new.size = n
  OBVIOUS
<1> HIDE DEF new
<1>4. heaps = [g \in Heaps |-> heaps[g]] /\ \A g \in Heaps : heaps[g].size \in 0 .. MaxHeap[g]
  BY DEF IInv
<1>5. heaps' = [g \in Heaps |-> heaps'[g]] /\ heaps'[h] = new
      /\ \A g \in Heaps \ {h} : heaps'[g] = heaps[g]
  BY <1>1, <1>4
<1>6. \A g \in Heaps : heaps'[g].size \in 0 .. MaxHeap[g]
  BY <1>2, <1>3, <1>4, <1>5
<1> QED BY <1>1, <1>2, <1>5, <1>6 DEF n

(* The step as a whole: every table is resized, and one may be written.     *)
LEMMA HeapStepKeepsIInv ==
    ASSUME IInv, NEW h \in Heaps, NEW size, NEW preserve \in BOOLEAN, NEW entry,
           reserve_heap_space(h, size, preserve, entry), size \in Nat,
           tables' = [t \in Tables |-> tables'[t]],
           \A t \in Tables : /\ IsTable(t, tables'[t])
                             /\ LaidOut(t, tables'[t],
                                        FlagsForHeap(h, StartSize(h, preserve) + size))
                             /\ tables'[t].rows = tables[t].rows,
           FlagsForHeap(h, StartSize(h, preserve) + size) \subseteq Heaps \ {GuidHeap}
    PROVE  IInv'
<1> DEFINE n == StartSize(h, preserve) + size
<1>1. /\ heaps' = [g \in Heaps |-> heaps'[g]] /\ large' = FlagsForHeap(h, n)
      /\ \A g \in Heaps : heaps'[g].size \in 0 .. MaxHeap[g] /\ minimal' = minimal
  BY HeapReserved
<1>2. CountsFit'
  BY Zenon DEF IInv, CountsFit, InTwoBytes, Counts
<1>3. minimal' = minimal /\ minimal \in BOOLEAN
  BY HeapReserved DEF IInv
<1>4. \A t \in Tables : IsTable(t, tables'[t]) /\ LaidOut(t, tables'[t], large')
  <2> HIDE DEF n
  <2>1. \A t \in Tables : IsTable(t, tables'[t]) /\ LaidOut(t, tables'[t], FlagsForHeap(h, n))
    BY DEF n
  <2> QED BY <1>1, <2>1, Zenon
<1>5. large' \subseteq Heaps \ {GuidHeap}
  BY <1>1
<1> QED BY <1>1, <1>2, <1>3, <1>4, <1>5, Established, Zenon

LEMMA AppendKeepsIInv ==
    ASSUME IInv, NEW h \in Heaps, NEW size \in DeltaSizes[h], GuidsWithin(h, size),
           append_heap(h, size)
    PROVE  IInv'
<1> DEFINE n == heaps[h].size + size
<1>1. /\ reserve_heap_space(h, size, TRUE, "")
      /\ tables' = TablesForHeap(h, n)
  BY DEF append_heap
<1>2. size \in Nat /\ heaps[h].size \in Nat /\ n \in Nat
  <2>1. DeltaSizes[h] \subseteq Nat
    BY LayoutAssumption, Zenon
  <2> QED BY <2>1, HeapFacts
<1>3. StartSize(h, TRUE) + size = n
  BY DEF StartSize
<1>4. h = GuidHeap => ~(n \div GuidSize > Max16)
  <2>1. SUFFICES ASSUME h = GuidHeap PROVE ~(n \div GuidSize > Max16)
    OBVIOUS
  <2>2. n \div GuidSize <= Max16
    BY <2>1 DEF GuidsWithin
  <2> DEFINE q == n \div GuidSize
  <2>3. q \in Nat
    <3>1. GuidSize \in Nat \ {0}
      BY LayoutAssumption, Zenon
    <3> HIDE DEF n
    <3> QED BY <1>2, <3>1, Division
  <2>4. q <= Max16
    BY <2>2
  <2> HIDE DEF q
  <2>5. ~(q > Max16)
    BY <2>3, <2>4, Max16IsNumber
  <2> QED BY <2>5 DEF q
<1> HIDE DEF n
<1>5. \A t \in Tables : /\ IsTable(t, tables'[t]) /\ LaidOut(t, tables'[t], FlagsForHeap(h, n))
                        /\ tables'[t].rows = tables[t].rows
  BY <1>1, <1>2, <1>4, GrownTables
<1>6. FlagsForHeap(h, n) \subseteq Heaps \ {GuidHeap}
  BY <1>2, <1>4, FlagFollows
<1>7. tables' = [t \in Tables |-> tables'[t]]
  <2> DEFINE new(t) == IF Exists(t)
                       THEN set_column_size_for_max_row_count(tables[t], t, h, n \div Scale(h))
                       ELSE tables[t]
  <2>1. tables' = [t \in Tables |-> new(t)]
    BY <1>1 DEF TablesForHeap
  <2> HIDE DEF new
  <2> QED BY <2>1
<1> QED BY <1>1, <1>2, <1>3, <1>5, <1>6, <1>7, HeapStepKeepsIInv

(* As widths are kept, the GUIDs are few enough for their narrow columns.   *)
LEMMA GuidsStayNarrow ==
    ASSUME IInv, NEW t \in Tables, tables[t].rows # 0, NEW c \in 1 .. Len(Columns[t]),
           Columns[t][c].kind = "heap", Columns[t][c].of = GuidHeap, GuidHeap \in Heaps,
           NEW count,
           set_column_size_for_max_row_count(tables[t], t, GuidHeap, count).wide = tables[t].wide
    PROVE  ~(count > Max16)
<1> DEFINE n == Len(Columns[t])
           new(d) == IF Columns[t][d].kind = "heap" /\ Columns[t][d].of = GuidHeap
                     THEN count > Max16 ELSE tables[t].wide[d]
           wide == [d \in 1 .. n |-> new(d)]
<1>1. IsTable(t, tables[t]) /\ LaidOut(t, tables[t], large)
  BY IInvTable
<1>2. n \in Nat /\ tables[t].wide \in Seq(BOOLEAN) /\ Len(tables[t].wide) = n
  BY <1>1, ColumnFacts DEF IsTable, Fits, TableRecords
<1>3. ASSUME count > Max16 PROVE FALSE
  <2>1. \A d \in 1 .. n : tables[t].wide[d] \in BOOLEAN
    BY <1>2
  <2>2. \A d \in 1 .. n : /\ new(d) = TRUE \/ new(d) = tables[t].wide[d]
                          /\ new(d) \in BOOLEAN
    BY <1>3, <2>1
  <2>3. new(c) = TRUE
    BY <1>3
  <2>4. \A d \in 1 .. n : ResizedWidth(tables[t], t, d, GuidHeap, count) = new(d)
    BY HeapWidth
  <2> HIDE DEF new
  <2>5. wide \in Seq(BOOLEAN) /\ Len(wide) = n /\ DOMAIN wide = 1 .. n /\ DOMAIN tables[t].wide = 1 .. n
    <3>1. wide \in [1 .. n -> BOOLEAN]
      BY <2>2
    <3> HIDE DEF wide, n
    <3>2. wide \in Seq(BOOLEAN) /\ Len(wide) = n
      BY <1>2, <3>1, FunctionIsSequence
    <3> QED BY <1>2, <3>2, RowSizeFacts
  <2>6. \A d \in 1 .. n : wide[d] = new(d)
    OBVIOUS
  <2> HIDE DEF wide
  <2>7. Wide(tables[t].wide) \subseteq Wide(wide)
    <3>1. \A d \in 1 .. n : tables[t].wide[d] => wide[d]
      BY <2>2, <2>6, Zenon
    <3> QED BY <2>5, <3>1 DEF Wide
  <2>8. \A d \in 1 .. n : ResizedWidth(tables[t], t, d, GuidHeap, count) = wide[d]
    BY <2>4, <2>6, Zenon
  <2>9. set_column_size_for_max_row_count(tables[t], t, GuidHeap, count).wide = wide
    <3> HIDE DEF n
    <3> QED BY <1>1, <1>2, <2>5, <2>7, <2>8, ResizedTable
  <2>10. wide[c] = TRUE /\ wide[c] = tables[t].wide[c]
    BY <2>3, <2>6, <2>9
  <2>11. tables[t].wide[c] = (GuidHeap \in large)
    <3>1. Columns[t][c].kind # "constant"
      OBVIOUS
    <3>2. Layout(t, c, large) = (GuidHeap \in large)
      BY <3>1 DEF Layout
    <3> QED BY <1>1, <3>2 DEF LaidOut
  <2>12. ~(GuidHeap \in large)
    BY DEF IInv
  <2> QED BY <2>10, <2>11, <2>12
<1> QED BY <1>3

LEMMA WrittenReference ==
    ASSUME IInv, NEW t \in Tables, NEW r \in 1 .. tables[t].rows, NEW c \in 1 .. Len(Columns[t]),
           NEW h \in Heaps, NEW after, IsTable(t, after), after.rows = tables[t].rows,
           NEW flags, LaidOut(t, after, flags)
    PROVE  LET tc == WriteReference(t, r, c, h, after)
           IN  IsTable(t, tc) /\ LaidOut(t, tc, flags) /\ tc.rows = tables[t].rows
<1> DEFINE ref == Reference(h, StartSize(h, FALSE))
           written == write_column_data(after, r, c, ref)
           tc == WriteReference(t, r, c, h, after)
<1>1. ref \in Nat
  <2> DEFINE start == StartSize(h, FALSE)
  <2>1. start \in Nat /\ GuidSize \in Nat \ {0}
    BY HeapFacts, LayoutAssumption, Zenon
  <2> HIDE DEF start
  <2>2. start \div GuidSize \in Nat
    BY <2>1, Division
  <2> DEFINE entries == start \div GuidSize
  <2>3. Reference(h, start) = IF h = GuidHeap THEN entries + 1 ELSE start
    BY DEF Reference
  <2>4. entries \in Nat
    BY <2>2
  <2> HIDE DEF entries
  <2>5. Reference(h, start) \in Nat
    BY <2>1, <2>3, <2>4
  <2> QED BY <2>5 DEF start
<1> HIDE DEF ref
<1>2. after.rows # 0 /\ c \in DOMAIN after.wide
  <2>1. tables[t].rows \in Nat
    BY IInvTable DEF IsTable, TableRecords
  <2>2. after.rows # 0
    BY <2>1
  <2>3. after.wide \in Seq(BOOLEAN) /\ Len(after.wide) = Len(Columns[t])
    BY <2>2 DEF IsTable, Fits, TableRecords
  <2> QED BY <2>2, <2>3, RowSizeFacts
<1>3. Keeps(after, written)
  <2>1. r \in 1 .. after.rows
    OBVIOUS
  <2> QED BY <1>1, <1>2, <2>1, WrittenTable
<1>4. tc = IF after.wide = tables[t].wide \/ h = GuidHeap THEN written ELSE after
  BY DEF WriteReference, ref
<1> HIDE DEF written, tc
<1>5. IsTable(t, written) /\ LaidOut(t, written, flags) /\ written.rows = tables[t].rows
  BY <1>2, <1>3, KeptTable DEF Keeps
<1>6. IsTable(t, tc) /\ LaidOut(t, tc, flags) /\ tc.rows = tables[t].rows
  BY <1>4, <1>5
<1> QED BY <1>6 DEF tc

LEMMA EntryKeepsIInv ==
    ASSUME IInv, NEW t \in Tables, NEW r \in 1 .. tables[t].rows, NEW c \in DOMAIN tables[t].wide,
           NEW s \in DOMAIN Strings, Columns[t][c].kind = "heap",
           KeepsWidths(Columns[t][c].of, s), md_set_column_value_as_heap_entry(t, r, c, s)
    PROVE  IInv'
<1> DEFINE h == Columns[t][c].of
           size == SizeIn(h, s)
           n == StartSize(h, FALSE) + size
           after == TablesForHeap(h, n)
           tc == WriteReference(t, r, c, h, after[t])
<1>1. tables[t].rows # 0 /\ c \in 1 .. Len(Columns[t])
  BY IInvTable, Max16IsNumber, WrittenTable
<1>2. h \in Heaps
  <2>1. IsColumn(Columns[t][c], t)
    BY <1>1, ColumnFacts
  <2> QED BY <2>1 DEF IsColumn
<1>3. size \in Nat /\ n \in Nat
  <2> DEFINE start == StartSize(h, FALSE)
  <2>1. size \in Nat /\ start \in Nat
    BY <1>2, HeapFacts
  <2> HIDE DEF size, start
  <2>2. start + size \in Nat
    BY <2>1
  <2> QED BY <2>1, <2>2 DEF start
<1>4. /\ reserve_heap_space(h, size, FALSE, s)
      /\ tables' = [after EXCEPT ![t] = tc]
  BY DEF md_set_column_value_as_heap_entry, add_to_heap
<1>5. h = GuidHeap => ~(n \div GuidSize > Max16)
  <2>1. SUFFICES ASSUME h = GuidHeap PROVE ~(n \div GuidSize > Max16)
    OBVIOUS
  <2> DEFINE count == n \div GuidSize
  <2>2. after[t].wide = tables[t].wide
    BY DEF KeepsWidths
  <2>3. Exists(t)
    BY <1>1, IInvTable, ExistingTable
  <2>4. after[t] = set_column_size_for_max_row_count(tables[t], t, GuidHeap, count)
    <3>1. after[t] = set_column_size_for_max_row_count(tables[t], t, h, n \div Scale(h))
      <4> HIDE DEF n, h
      <4> QED BY <2>3 DEF TablesForHeap
    <3>2. Scale(h) = GuidSize
      BY <2>1 DEF Scale
    <3> HIDE DEF n
    <3> QED BY <2>1, <3>1, <3>2
  <2>5. Columns[t][c].of = GuidHeap /\ GuidHeap \in Heaps
    BY <1>2, <2>1
  <2> HIDE DEF count, after
  <2>6. ~(count > Max16)
    BY <1>1, <2>2, <2>4, <2>5, GuidsStayNarrow
  <2> QED BY <2>6 DEF count
<1> DEFINE flags == FlagsForHeap(h, n)
<1>6. ASSUME NEW u \in Tables
      PROVE  IsTable(u, after[u]) /\ LaidOut(u, after[u], flags) /\ after[u].rows = tables[u].rows
  <2> HIDE DEF n, h
  <2> QED BY <1>2, <1>3, <1>5, GrownTables
<1>7. flags \subseteq Heaps \ {GuidHeap}
  <2> HIDE DEF n, h
  <2> QED BY <1>2, <1>3, <1>5, FlagFollows
<1>8. after = [u \in Tables |-> after[u]]
  <2> DEFINE new(u) == IF Exists(u)
                       THEN set_column_size_for_max_row_count(tables[u], u, h, n \div Scale(h))
                       ELSE tables[u]
  <2>1. after = [u \in Tables |-> new(u)]
    BY DEF TablesForHeap
  <2> HIDE DEF new, after
  <2> QED BY <2>1
<1> HIDE DEF after, flags
<1>9. IsTable(t, tc) /\ LaidOut(t, tc, flags) /\ tc.rows = tables[t].rows
  <2>1. IsTable(t, after[t]) /\ LaidOut(t, after[t], flags) /\ after[t].rows = tables[t].rows
    BY <1>6
  <2> HIDE DEF h
  <2> QED BY <1>1, <1>2, <2>1, WrittenReference
<1> HIDE DEF tc
<1>10. tables' = [u \in Tables |-> tables'[u]] /\ tables'[t] = tc
       /\ \A u \in Tables \ {t} : tables'[u] = after[u]
  BY <1>4, <1>8
<1>11. \A u \in Tables : /\ IsTable(u, tables'[u]) /\ LaidOut(u, tables'[u], flags)
                         /\ tables'[u].rows = tables[u].rows
  BY <1>6, <1>9, <1>10
<1> HIDE DEF h, size
<1>12. \A u \in Tables : /\ IsTable(u, tables'[u])
                         /\ LaidOut(u, tables'[u], FlagsForHeap(h, StartSize(h, FALSE) + size))
                         /\ tables'[u].rows = tables[u].rows
  BY <1>11, Zenon DEF flags, n
<1>13. FlagsForHeap(h, StartSize(h, FALSE) + size) \subseteq Heaps \ {GuidHeap}
  BY <1>7, Zenon DEF flags, n
<1>14. FALSE \in BOOLEAN
  OBVIOUS
<1> HIDE DEF n
<1> QED BY <1>2, <1>3, <1>4, <1>10, <1>12, <1>13, <1>14, HeapStepKeepsIInv
----------------------------------------------------------------------------
(* Saving and loading.                                                      *)

LEMMA LoadedTable ==
    ASSUME IInv, NEW t \in Tables
    PROVE  LET tc == initialize_tables[t]
           IN  IsTable(t, tc) /\ LaidOut(t, tc, large) /\ tc.rows = tables[t].rows
<1> DEFINE wide == initialize_table_details(t, Counts, large)
           tb == tables[t]
           tc == [tb EXCEPT !.wide = wide, !.offset = Offsets(wide), !.capacity = 0]
<1>1. IsTable(t, tb) /\ LaidOut(t, tb, large) /\ tb.rows \in Nat
  BY IInvTable DEF IsTable, TableRecords
<1>2. initialize_tables[t] = IF tb.rows > 0 THEN tc ELSE NoTable
  BY DEF initialize_tables, TablesWritten
<1>3. CASE tb.rows = 0
  <2>1. initialize_tables[t] = NoTable /\ NoTable.rows = 0
    <3>1. ~(tb.rows > 0)
      BY <1>3
    <3> HIDE DEF tc, tb
    <3> QED BY <1>2, <3>1 DEF NoTable
  <2> QED BY <1>3, <2>1, NoTableIsTable
<1>4. CASE tb.rows # 0
  <2>1. wide = tb.wide
    <3>1. minimal \in BOOLEAN /\ InTwoBytes(Counts)
      BY DEF IInv, CountsFit
    <3> HIDE DEF tb
    <3> QED BY <1>1, <1>4, <3>1, SameLayout
  <2>2. tb.rows > 0
    BY <1>1, <1>4
  <2> HIDE DEF wide, tb
  <2>3. tb \in TableRecords /\ Fits(t, tb) /\ tb.wide \in Seq(BOOLEAN)
    BY <1>1, <1>4 DEF IsTable, TableRecords
  <2>4. Offsets(wide) \in Seq(Nat) /\ Len(Offsets(wide)) = Len(Columns[t])
    BY <2>1, <2>3, OffsetFacts DEF Fits
  <2>5. /\ tc \in TableRecords /\ tc.rows = tb.rows /\ tc.wide = tb.wide
        /\ tc.offset = Offsets(wide) /\ tc.data = tb.data /\ tc.capacity = 0
    BY <2>1, <2>3, <2>4 DEF TableRecords
  <2> HIDE DEF tc
  <2>6. IsTable(t, tc)
    BY <1>1, <1>4, <2>3, <2>4, <2>5 DEF IsTable, Fits
  <2>7. LaidOut(t, tc, large)
    BY <1>1, <2>5 DEF LaidOut
  <2> QED BY <1>2, <2>2, <2>5, <2>6, <2>7 DEF tb
<1> QED BY <1>3, <1>4

LEMMA LoadKeepsIInv ==
    ASSUME IInv, SaveAndLoad
    PROVE  IInv'
<1>1. tables' = initialize_tables /\ UNCHANGED <<heaps, large, minimal>>
  BY DEF SaveAndLoad, md_create_handle
<1>2. tables' = [t \in Tables |-> tables'[t]]
  <2> DEFINE new(t) ==
        LET wide == initialize_table_details(t, Counts, large)
        IN  IF t \in TablesWritten
            THEN [tables[t] EXCEPT !.wide = wide, !.offset = Offsets(wide), !.capacity = 0]
            ELSE NoTable
  <2>1. tables' = [t \in Tables |-> new(t)]
    BY <1>1 DEF initialize_tables
  <2> HIDE DEF new
  <2> QED BY <2>1
<1>3. \A t \in Tables : /\ IsTable(t, tables'[t]) /\ LaidOut(t, tables'[t], large)
                        /\ tables'[t].rows = tables[t].rows
  BY <1>1, LoadedTable
<1> QED BY <1>1, <1>2, <1>3, EstablishedWithRows, Zenon
----------------------------------------------------------------------------
(* The initial states.                                                      *)

LEMMA FewRowsInTwoBytes ==
    ASSUME NEW counts, \A t \in Tables : counts[t] \in {0, 1}
    PROVE  InTwoBytes(counts)
<1>1. ASSUME NEW u \in Tables, NEW c \in 1 .. Len(Columns[u]), Columns[u][c].kind = "index",
             NEW t \in Range(Columns[u][c].of)
      PROVE  ~(counts[t] * 2^Columns[u][c].bits > Max16)
  <2> DEFINE bits == 2^Columns[u][c].bits
  <2>1. Columns[u][c].of \in Seq(Tables \ {u}) /\ bits \in 1 .. Max16
    BY <1>1, IndexFacts
  <2> HIDE DEF bits
  <2>2. t \in Tables
    BY <2>1 DEF Range
  <2>3. counts[t] = 0 \/ counts[t] = 1
    BY <2>2
  <2>4. ~(counts[t] * bits > Max16)
    BY <2>1, <2>3, Max16IsNumber
  <2> QED BY <2>4 DEF bits
<1> QED BY <1>1 DEF InTwoBytes

(* A loaded heap fits its bound, and the number of its first entry is small.*)
LEMMA LoadedHeapFacts ==
    ASSUME NEW h \in DOMAIN LoadedEntries
    PROVE  /\ h \in Heaps /\ LoadedHeap(h).size \in 0 .. MaxHeap[h]
           /\ Reference(h, FirstOffset(h)) \in Nat
<1>1. /\ h \in Heaps /\ LoadedEntries[h] \in DOMAIN Strings
      /\ LoadedHeap(h).size <= MaxHeap[h]
  BY LoadedAssumption
<1>2. GuidSize \in Nat \ {0} /\ Strings[LoadedEntries[h]] \in Nat /\ MaxHeap[h] \in Nat
  BY <1>1, LayoutAssumption, Zenon
<1>3. FirstOffset(h) \in Nat
  BY DEF FirstOffset
<1>4. SizeIn(h, LoadedEntries[h]) \in Nat
  BY <1>2 DEF SizeIn
<1>5. LoadedHeap(h).size = FirstOffset(h) + SizeIn(h, LoadedEntries[h])
  BY DEF LoadedHeap
<1>6. FirstOffset(h) \div GuidSize \in Nat
  BY <1>2, <1>3, Division
<1>7. Reference(h, FirstOffset(h)) \in Nat
  BY <1>3, <1>6 DEF Reference
<1> QED BY <1>1, <1>2, <1>3, <1>4, <1>5, <1>7

(* What a heap is in the beginning.                                         *)
StartingHeap(h) ==
    \/ heaps[h].size = 0
    \/ h \in DOMAIN LoadedEntries /\ heaps[h].size = LoadedHeap(h).size

LEMMA InitialRowFits ==
    ASSUME NEW t \in Tables, NEW wide \in Seq(BOOLEAN), Len(wide) = Len(Columns[t]),
           \A h \in Heaps : StartingHeap(h)
    PROVE  InitialRow(t, wide) \in Seq(Halves) /\ Len(InitialRow(t, wide)) = RowSize(wide)
<1> DEFINE n == Len(wide)
           HasEntry(col) == col.kind = "heap" /\ heaps[col.of].size > 0
           FirstEntry(col) == IF HasEntry(col) THEN Reference(col.of, FirstOffset(col.of)) ELSE 0
           value == [c \in 1 .. n |-> FirstEntry(Columns[t][c])]
           cells == [c \in 1 .. n |-> Cells(wide[c], value[c])]
<1>1. DOMAIN wide = 1 .. n /\ n \in Nat
  BY RowSizeFacts
<1>2. InitialRow(t, wide) = FlattenSeq(cells)
  BY <1>1 DEF InitialRow
<1>3. ASSUME NEW c \in 1 .. n PROVE value[c] \in Nat
  <2>1. CASE HasEntry(Columns[t][c])
    <3> DEFINE h == Columns[t][c].of
    <3>1. h \in Heaps
      <4>1. c \in 1 .. Len(Columns[t])
        OBVIOUS
      <4>2. IsColumn(Columns[t][c], t)
        BY <4>1, ColumnFacts
      <4> QED BY <2>1, <4>2 DEF IsColumn
    <3>2. h \in DOMAIN LoadedEntries
      <4>1. StartingHeap(h) /\ heaps[h].size > 0
        BY <2>1, <3>1
      <4> QED BY <4>1 DEF StartingHeap
    <3>3. Reference(h, FirstOffset(h)) \in Nat
      BY <3>2, LoadedHeapFacts
    <3>4. value[c] = Reference(h, FirstOffset(h))
      BY <2>1
    <3> QED BY <3>3, <3>4
  <2>2. CASE ~HasEntry(Columns[t][c])
    BY <2>2
  <2> QED BY <2>1, <2>2
<1> HIDE DEF value
<1> QED BY <1>1, <1>2, <1>3, CellsOfRow

LEMMA InitialTable ==
    ASSUME NEW t \in Tables, minimal \in BOOLEAN, NEW flags, \A h \in Heaps : StartingHeap(h)
    PROVE  LET wide == initialize_table_details(t, [u \in Tables |-> 1], flags)
               tb == [rows |-> 1, wide |-> wide, offset |-> Offsets(wide), capacity |-> 0,
                      data |-> InitialRow(t, wide), adding |-> FALSE]
           IN  IsTable(t, tb) /\ LaidOut(t, tb, flags)
<1> DEFINE wide == initialize_table_details(t, [u \in Tables |-> 1], flags)
           size == RowSize(wide)
           data == InitialRow(t, wide)
           tb == [rows |-> 1, wide |-> wide, offset |-> Offsets(wide), capacity |-> 0,
                  data |-> data, adding |-> FALSE]
<1>1. /\ wide \in Seq(BOOLEAN) /\ Len(wide) = Len(Columns[t])
      /\ \A c \in 1 .. Len(Columns[t]) : wide[c] = Layout(t, c, flags)
  <2> DEFINE counts == [u \in Tables |-> 1]
  <2>1. \A u \in Tables : counts[u] \in {0, 1}
    OBVIOUS
  <2> HIDE DEF counts
  <2>2. InTwoBytes(counts)
    BY <2>1, FewRowsInTwoBytes
  <2>3. LET w == initialize_table_details(t, counts, flags)
        IN  /\ w \in Seq(BOOLEAN) /\ Len(w) = Len(Columns[t])
            /\ \A c \in 1 .. Len(Columns[t]) : w[c] = Layout(t, c, flags)
    BY <2>2, LayoutFacts
  <2> QED BY <2>3 DEF counts
<1> HIDE DEF wide
<1>2. Offsets(wide) \in Seq(Nat) /\ Len(Offsets(wide)) = Len(wide) /\ size \in Nat
  BY <1>1, OffsetFacts, RowSizeFacts
<1>3. data \in Seq(Halves) /\ Len(data) = size
  BY <1>1, InitialRowFits
<1> HIDE DEF size, data
<1>4. /\ tb \in TableRecords /\ tb.rows = 1 /\ tb.wide = wide /\ tb.offset = Offsets(wide)
      /\ tb.data = data /\ tb.capacity = 0
  BY <1>1, <1>2, <1>3 DEF TableRecords
<1> HIDE DEF tb
<1>5. Fits(t, tb)
  BY <1>1, <1>2, <1>4 DEF Fits
<1>6. MaxRows[t] \in Nat \ {0}
  BY LayoutAssumption, Zenon
<1>7. Len(tb.data) = 1 * RowSize(tb.wide)
  BY <1>2, <1>3, <1>4 DEF size
<1>8. IsTable(t, tb)
  BY <1>4, <1>5, <1>6, <1>7 DEF IsTable
<1>9. LaidOut(t, tb, flags)
  BY <1>1, <1>4 DEF LaidOut
<1> QED BY <1>8, <1>9 DEF tb, data, wide

LEMMA InitIInv == Init => IInv
<1> SUFFICES ASSUME Init PROVE IInv
  OBVIOUS
<1> DEFINE new(t) ==
      LET wide == initialize_table_details(t, [u \in Tables |-> 1], large)
      IN  [rows |-> 1, wide |-> wide, offset |-> Offsets(wide), capacity |-> 0,
           data |-> InitialRow(t, wide), adding |-> FALSE]
<1>1. /\ minimal \in BOOLEAN /\ large \subseteq Heaps \ {GuidHeap}
      /\ tables = [t \in Tables |-> IF t \in InitialTables THEN new(t) ELSE NoTable]
  BY DEF Init
<1>2. /\ heaps = [h \in Heaps |-> heaps[h]]
      /\ \A h \in Heaps : StartingHeap(h) /\ heaps[h].size \in 0 .. MaxHeap[h]
  <2>1. PICK loaded \in SUBSET DOMAIN LoadedEntries :
           heaps = [h \in Heaps |-> IF h \in loaded THEN LoadedHeap(h)
                                    ELSE [size |-> 0, entries |-> << >>]]
    BY DEF Init
  <2>2. ASSUME NEW h \in Heaps PROVE StartingHeap(h) /\ heaps[h].size \in 0 .. MaxHeap[h]
    <3>1. CASE h \in loaded
      <4>1. heaps[h] = LoadedHeap(h) /\ h \in DOMAIN LoadedEntries
        BY <2>1, <3>1
      <4> QED BY <4>1, LoadedHeapFacts DEF StartingHeap
    <3>2. CASE h \notin loaded
      <4>1. heaps[h].size = 0
        BY <2>1, <3>2
      <4>2. MaxHeap[h] \in Nat
        BY LayoutAssumption, Zenon
      <4> QED BY <4>1, <4>2 DEF StartingHeap
    <3> QED BY <3>1, <3>2
  <2>3. heaps = [h \in Heaps |-> heaps[h]]
    BY <2>1
  <2> QED BY <2>2, <2>3
<1>3. \A t \in Tables : IsTable(t, new(t)) /\ LaidOut(t, new(t), large) /\ new(t).rows = 1
  BY <1>1, <1>2, InitialTable
<1> HIDE DEF new
<1>4. /\ tables = [t \in Tables |-> tables[t]]
      /\ \A t \in Tables : tables[t] = new(t) \/ tables[t] = NoTable
  BY <1>1
<1>5. \A t \in Tables : /\ IsTable(t, tables[t]) /\ LaidOut(t, tables[t], large)
                        /\ tables[t].rows \in {0, 1}
  <2>1. NoTable.rows = 0
    BY DEF NoTable
  <2> QED BY <1>3, <1>4, <2>1, NoTableIsTable
<1>6. CountsFit
  <2>1. \A t \in Tables : Counts[t] \in {0, 1}
    BY <1>5 DEF Counts
  <2> QED BY <2>1, FewRowsInTwoBytes DEF CountsFit
<1> QED BY <1>1, <1>2, <1>4, <1>5, <1>6, Zenon DEF IInv
----------------------------------------------------------------------------
LEMMA NextKeepsIInv == IInv /\ [DisciplinedNext]_vars => IInv'
<1> SUFFICES ASSUME IInv, [DisciplinedNext]_vars PROVE IInv'
  OBVIOUS
<1>1. ASSUME NEW t \in Tables, NEW r \in 1 .. tables[t].rows + 1,
             Within(t), insert_row_into_table(t, r)
      PROVE  IInv'
  BY <1>1, InsertKeepsIInv
<1>2. ASSUME CommitRow PROVE IInv'
  BY <1>2, CommitKeepsIInv DEF CommitRow
<1>3. ASSUME SaveAndLoad PROVE IInv'
  BY <1>3, LoadKeepsIInv
<1>4. ASSUME NEW h \in Heaps, NEW size \in DeltaSizes[h], GuidsWithin(h, size),
             OnlyLastColumnsChange(h, size), append_heap(h, size)
      PROVE  IInv'
  BY <1>4, AppendKeepsIInv
<1>5. ASSUME NEW t \in Tables, NEW r \in 1 .. tables[t].rows, NEW c \in DOMAIN tables[t].wide,
             SetValue(t, r, c)
      PROVE  IInv'
  BY <1>5, SetValueKeepsIInv
<1>6. ASSUME NEW t \in Tables, NEW r \in 1 .. tables[t].rows, NEW c \in DOMAIN tables[t].wide,
             NEW s \in DOMAIN Strings, Columns[t][c].kind = "heap",
             KeepsWidths(Columns[t][c].of, s), md_set_column_value_as_heap_entry(t, r, c, s)
      PROVE  IInv'
  BY <1>6, EntryKeepsIInv
<1>7. CASE UNCHANGED vars
  <2>1. tables' = tables /\ heaps' = heaps /\ large' = large /\ minimal' = minimal
    BY <1>7 DEF vars
  <2>2. \A t \in Tables : /\ IsTable(t, tables'[t]) /\ LaidOut(t, tables'[t], large)
                          /\ tables'[t].rows = tables[t].rows
    BY <2>1, IInvTable
  <2> QED BY <2>1, <2>2, EstablishedWithRows DEF IInv
<1> QED BY <1>1, <1>2, <1>3, <1>4, <1>5, <1>6, <1>7 DEF DisciplinedNext

LEMMA IInvIsSafe == IInv => TypeOK /\ WidthsMatchImage
<1> SUFFICES ASSUME IInv PROVE TypeOK /\ WidthsMatchImage
  OBVIOUS
<1>1. ASSUME NEW t \in Tables
      PROVE  /\ tables[t].rows \in 0 .. MaxRows[t]
             /\ Exists(t) => DOMAIN tables[t].wide = DOMAIN Columns[t]
             /\ tables[t].data \in Seq(0 .. Max16)
             /\ Len(tables[t].data) = tables[t].rows * RowSize(tables[t].wide)
             /\ tables[t].capacity > 0 => Len(tables[t].data) <= tables[t].capacity
  <2>1. IsTable(t, tables[t]) /\ MaxRows[t] \in Nat
    BY IInvTable, LayoutAssumption, Zenon
  <2>2. ASSUME Exists(t) PROVE DOMAIN tables[t].wide = DOMAIN Columns[t]
    <3>1. Fits(t, tables[t])
      BY <2>1, <2>2, ExistingTable
    <3>2. tables[t].wide \in Seq(BOOLEAN) /\ Len(tables[t].wide) = Len(Columns[t])
      BY <3>1 DEF Fits, TableRecords
    <3> QED BY <3>2, RowSizeFacts, ColumnFacts
  <2>3. tables[t].rows \in 0 .. MaxRows[t] /\ tables[t].data \in Seq(0 .. Max16)
    BY <2>1 DEF IsTable, TableRecords, Halves
  <2> QED BY <2>1, <2>2, <2>3 DEF IsTable
<1>2. TypeOK
  BY <1>1 DEF TypeOK, IInv
<1>3. ASSUME NEW t \in Tables, tables[t].rows > 0
      PROVE  tables[t].wide = initialize_table_details(t, Counts, large)
  <2>1. IsTable(t, tables[t]) /\ LaidOut(t, tables[t], large)
    BY IInvTable
  <2>2. tables[t].rows # 0
    BY <1>3
  <2>3. minimal \in BOOLEAN /\ InTwoBytes(Counts)
    BY DEF IInv, CountsFit
  <2> QED BY <2>1, <2>2, <2>3, SameLayout
<1> QED BY <1>2, <1>3 DEF WidthsMatchImage

LEMMA DisciplinedIInv == DisciplinedSpec => []IInv
<1> QED BY InitIInv, NextKeepsIInv, PTL DEF DisciplinedSpec

(* However many rows, columns, heaps and deltas: a table has just the       *)
(* memory its rows take, and never more than was reserved for it            *)
(* (editor.c:203-280).                                                      *)
THEOREM MemoryAlwaysFitsRows == DisciplinedSpec => []TypeOK
<1>1. IInv => TypeOK
  BY IInvIsSafe
<1> QED BY <1>1, DisciplinedIInv, PTL

(* Tables are laid out in memory, after any row, value, delta, saving and   *)
(* loading, as a reader lays them out, so that their memory can be written  *)
(* out as it is (tables.c:764).                                             *)
THEOREM WidthsAlwaysMatchImage == DisciplinedSpec => []WidthsMatchImage
<1>1. IInv => WidthsMatchImage
  BY IInvIsSafe
<1> QED BY <1>1, DisciplinedIInv, PTL
=============================================================================
