-------------------------- MODULE SortedTableProofs --------------------------
(***************************************************************************)
(* The binary search is right for every sorted column and every key, as    *)
(* long as the values lie in the lower half of the range, where the        *)
(* subtraction in col_compare_4bytes does not leave the int32 range.       *)
(*                                                                         *)
(* The flag of a keyed table, which lets it be searched that way, is       *)
(* sound, for any number of rows and any keys ascending or descending, if  *)
(* the caller makes the comparisons that the code leaves out.  The         *)
(* argument: what the editor compares, key by key, implies the order that  *)
(* validate_tables checks, that order is transitive and so neighbours in   *)
(* order put the whole table in order.                                     *)
(***************************************************************************)
EXTENDS SortedTable, BinarySearch, TableSearchProofs

(* The loop of a search.                                                    *)

(* What holds at the end of the loop, in terms of the last probe.           *)
LastProbe ==
    done /\ Len(col) > 0 =>
        /\ row \in 1 .. Len(col)
        /\ res = key - col[row]
        /\ res # 0 => count = 1 /\ row = base

(* The inductive invariant of the loop.                                     *)
LoopIInv == LoopTypeOK /\ Ascending(col) /\ WindowHoldsKey /\ LastProbe

(* A column of Columns is a sequence of values.                             *)
LEMMA ColumnsAreSequences == Columns \subseteq Seq(Numbers)
<1> SUFFICES ASSUME NEW n \in 0 .. MaxLength, NEW c \in [1 .. n -> Numbers]
             PROVE  c \in Seq(Numbers)
  BY DEF Columns
<1> n \in Nat
  BY BoundsAssumption
<1> QED OBVIOUS

(* What the type invariant says of the numbers compared.                    *)
LEMMA ValuesAreNumbers ==
    ASSUME Numbers \subseteq 0 .. Half - 1, LoopTypeOK
    PROVE  /\ \A r \in 1 .. Len(col) : col[r] \in 0 .. Half - 1 /\ col[r] \in Int
           /\ key \in 0 .. Half - 1 /\ key \in Int
<1>1. \A r \in 1 .. Len(col) : col[r] \in Numbers
  BY DEF LoopTypeOK
<1>2. \A v \in Numbers : v \in 0 .. Half - 1 /\ v \in Int
  BY HalfAssumption
<1> QED BY <1>1, <1>2 DEF LoopTypeOK

LEMMA LoopInitIInv == LoopInit => LoopIInv
<1> SUFFICES ASSUME LoopInit PROVE LoopIInv
  OBVIOUS
<1>1. col \in Seq(Numbers) /\ Ascending(col)
  BY ColumnsAreSequences DEF LoopInit
<1>2. Len(col) \in Nat
  BY <1>1
<1>3. LoopTypeOK
  <2>1. done \in BOOLEAN
    BY Zenon DEF LoopInit
  <2> QED BY <1>1, <1>2, <2>1 DEF LoopInit, LoopTypeOK
<1>4. WindowHoldsKey
  BY <1>2 DEF LoopInit, WindowHoldsKey
<1>5. LastProbe
  BY DEF LoopInit, LastProbe
<1> QED BY <1>1, <1>3, <1>4, <1>5 DEF LoopIInv

(* One turn of the loop keeps the invariant.  The middle row lies inside    *)
(* the window; the half that is dropped is smaller, respectively larger,    *)
(* than the key because the column ascends.                                 *)
LEMMA ProbeKeepsIInv ==
    ASSUME Numbers \subseteq 0 .. Half - 1, LoopIInv, ProbeMiddle
    PROVE  LoopIInv'
<1> DEFINE mid == base + count \div 2
<1>1. /\ col \in Seq(Numbers) /\ key \in Numbers /\ base \in Nat \ {0}
      /\ count \in Nat \ {0} /\ Len(col) \in Nat
      /\ base + count <= Len(col) + 1
  BY DEF LoopIInv, LoopTypeOK, WindowHoldsKey, ProbeMiddle
<1>2. /\ mid \in base .. base + count - 1 /\ mid \in 1 .. Len(col)
      /\ count > 1 => count \div 2 \in 1 .. count - 1
      /\ count = 1 => mid = base
  BY <1>1
<1>3. /\ \A r \in 1 .. Len(col) : col[r] \in 0 .. Half - 1 /\ col[r] \in Int
      /\ key \in 0 .. Half - 1 /\ key \in Int
  BY ValuesAreNumbers DEF LoopIInv
<1>4. row' = mid /\ res' = key - col[mid]
  BY <1>2, <1>3, CompareIsExact DEF ProbeMiddle, Middle, Stops, RowsBelow, RowsFromMiddle
<1>5. /\ \A r \in 1 .. Len(col) : r >= base + count => col[r] > key
      /\ \A r \in 1 .. Len(col) : base > 1 /\ r <= base => col[r] < key
  BY DEF LoopIInv, WindowHoldsKey
<1>6. \A i, j \in 1 .. Len(col) : i <= j => col[i] <= col[j]
  BY DEF LoopIInv, Ascending
<1>7. /\ ~done' => res' # 0 /\ count # 1
      /\ done' \in BOOLEAN
  BY Zenon DEF ProbeMiddle, Middle, Stops, RowsBelow, RowsFromMiddle
<1>8. row' \in Nat \ {0} /\ res' \in Int
  BY <1>2, <1>3, <1>4
<1>9. CASE done'
  <2>1. UNCHANGED <<col, key, base, count>>
    BY <1>9 DEF ProbeMiddle, Middle, Stops, RowsBelow, RowsFromMiddle
  <2>2. LoopTypeOK'
    BY <1>1, <1>7, <1>8, <2>1 DEF LoopTypeOK
  <2>3. LastProbe'
    BY <1>1, <1>2, <1>4, <2>1 DEF ProbeMiddle, Middle, Stops, LastProbe
  <2>4. Ascending(col)' /\ WindowHoldsKey'
    BY <2>1 DEF LoopIInv, Ascending, WindowHoldsKey
  <2> QED BY <2>2, <2>3, <2>4 DEF LoopIInv
<1>10. CASE ~done' /\ res' < 0
  <2>1. UNCHANGED <<col, key>> /\ count' = count \div 2 /\ base' = base /\ count > 1
    BY <1>1, <1>7, <1>10 DEF ProbeMiddle, Middle, Stops, RowsBelow, RowsFromMiddle
  <2>2. \A r \in 1 .. Len(col) : r >= mid => col[r] > key
    BY <1>2, <1>3, <1>4, <1>6, <1>10
  <2>3. count' \in Nat /\ base' \in Nat \ {0}
    BY <1>1, <1>2, <2>1
  <2>4. LoopTypeOK'
    BY <1>7, <1>8, <2>1, <2>3 DEF LoopIInv, LoopTypeOK
  <2>5. WindowHoldsKey'
    BY <1>1, <1>2, <1>5, <2>1, <2>2 DEF WindowHoldsKey
  <2> QED BY <1>10, <2>1, <2>4, <2>5 DEF LoopIInv, LastProbe, Ascending
<1>11. CASE ~done' /\ ~(res' < 0)
  <2>1. UNCHANGED <<col, key>> /\ base' = mid /\ count' = count - count \div 2
        /\ count > 1 /\ res' # 0
    BY <1>1, <1>4, <1>7, <1>11 DEF ProbeMiddle, Middle, Stops, RowsBelow, RowsFromMiddle
  <2>2. \A r \in 1 .. Len(col) : r <= mid => col[r] < key
    BY <1>2, <1>3, <1>4, <1>6, <1>11, <2>1
  <2>3. count' \in Nat /\ base' \in Nat \ {0}
    BY <1>1, <1>2, <2>1
  <2>4. LoopTypeOK'
    BY <1>7, <1>8, <2>1, <2>3 DEF LoopIInv, LoopTypeOK
  <2>5. WindowHoldsKey'
    BY <1>1, <1>2, <1>5, <2>1, <2>2 DEF WindowHoldsKey
  <2> QED BY <1>11, <2>1, <2>4, <2>5 DEF LoopIInv, LastProbe, Ascending
<1> QED BY <1>9, <1>10, <1>11

LEMMA TurnKeepsIInv ==
    ASSUME Numbers \subseteq 0 .. Half - 1, LoopIInv, [LoopNext]_loopvars
    PROVE  LoopIInv'
<1>1. CASE ProbeMiddle
  BY <1>1, ProbeKeepsIInv
<1>2. CASE Exhausted
  <2>1. Len(col) = 0
    BY <1>2 DEF Exhausted, LoopIInv, LoopTypeOK, WindowHoldsKey
  <2> QED BY <1>2, <2>1
          DEF Exhausted, LoopIInv, LoopTypeOK, Ascending, WindowHoldsKey, LastProbe
<1>3. CASE UNCHANGED loopvars
  BY <1>3 DEF loopvars, LoopIInv, LoopTypeOK, Ascending, WindowHoldsKey, LastProbe
<1> QED BY <1>1, <1>2, <1>3 DEF LoopNext

(* The search keeps its loop invariant: the rows outside the window are     *)
(* known not to hold the key (search.template.h:25-44, 85-101).             *)
THEOREM LoopInvariant ==
    ASSUME Numbers \subseteq 0 .. Half - 1
    PROVE  LoopSpec => [](LoopTypeOK /\ WindowHoldsKey)
<1>1. LoopIInv /\ [LoopNext]_loopvars => LoopIInv'
  BY TurnKeepsIInv
<1>2. LoopIInv => LoopTypeOK /\ WindowHoldsKey
  BY DEF LoopIInv
<1> QED BY <1>1, <1>2, LoopInitIInv, PTL DEF LoopSpec

(* md_bsearch finds the key in every sorted column that holds it and        *)
(* reports NULL for every sorted column that does not.                      *)
THEOREM SearchFindsKey ==
    ASSUME Numbers \subseteq 0 .. Half - 1
    PROVE  LoopSpec => []FindsKey
<1>1. LoopIInv /\ [LoopNext]_loopvars => LoopIInv'
  BY TurnKeepsIInv
<1>2. LoopIInv => FindsKey
  <2> SUFFICES ASSUME LoopIInv, done, Len(col) > 0
               PROVE  /\ res = 0 => col[row] = key
                      /\ res # 0 => \A r \in 1 .. Len(col) : col[r] # key
    BY DEF FindsKey
  <2>1. col \in Seq(Numbers) /\ key \in Numbers /\ Len(col) \in Nat
    BY DEF LoopIInv, LoopTypeOK
  <2>2. key \in Int /\ \A r \in 1 .. Len(col) : col[r] \in Int
    BY ValuesAreNumbers DEF LoopIInv
  <2>3. row \in 1 .. Len(col) /\ res = key - col[row]
        /\ (res # 0 => count = 1 /\ row = base)
    BY DEF LoopIInv, LastProbe
  <2>4. \A r \in 1 .. Len(col) : /\ r >= base + count => col[r] > key
                                 /\ base > 1 /\ r <= base => col[r] < key
    BY DEF LoopIInv, WindowHoldsKey
  <2>5. ASSUME res # 0, NEW r \in 1 .. Len(col) PROVE col[r] # key
    <3>1. CASE r > row
      BY <2>2, <2>3, <2>4, <2>5, <3>1
    <3>2. CASE r = row
      BY <2>2, <2>3, <2>5, <3>2
    <3>3. CASE r < row
      BY <2>2, <2>3, <2>4, <2>5, <3>3
    <3> QED BY <2>3, <3>1, <3>2, <3>3
  <2> QED BY <2>2, <2>3, <2>5
<1> QED BY <1>1, <1>2, LoopInitIInv, PTL DEF LoopSpec

(* A miss reports the neighbour find_range_element relies on: the last row  *)
(* with a smaller value, or row 1 when every value is larger.               *)
THEOREM SearchMissIsAdjacent ==
    ASSUME Numbers \subseteq 0 .. Half - 1
    PROVE  LoopSpec => []MissIsAdjacent
<1>1. LoopIInv /\ [LoopNext]_loopvars => LoopIInv'
  BY TurnKeepsIInv
<1>2. LoopIInv => MissIsAdjacent
  <2> SUFFICES ASSUME LoopIInv, done, Len(col) > 0
               PROVE  /\ res < 0 => row = 1 /\ \A r \in 1 .. Len(col) : col[r] > key
                      /\ res > 0 => /\ row \in 1 .. Len(col)
                                    /\ col[row] < key
                                    /\ \A r \in row + 1 .. Len(col) : col[r] > key
    BY DEF MissIsAdjacent
  <2>1. col \in Seq(Numbers) /\ key \in Numbers /\ Len(col) \in Nat /\ base \in Nat \ {0}
    BY DEF LoopIInv, LoopTypeOK
  <2>2. key \in Int /\ \A r \in 1 .. Len(col) : col[r] \in Int
    BY ValuesAreNumbers DEF LoopIInv
  <2>3. row \in 1 .. Len(col) /\ res = key - col[row]
        /\ (res # 0 => count = 1 /\ row = base)
    BY DEF LoopIInv, LastProbe
  <2>4. \A r \in 1 .. Len(col) : /\ r >= base + count => col[r] > key
                                 /\ base > 1 /\ r <= base => col[r] < key
    BY DEF LoopIInv, WindowHoldsKey
  <2>5. ASSUME res > 0 PROVE col[row] < key /\ \A r \in row + 1 .. Len(col) : col[r] > key
    BY <2>1, <2>2, <2>3, <2>4, <2>5
  <2>6. ASSUME res < 0 PROVE row = 1 /\ \A r \in 1 .. Len(col) : col[r] > key
    BY <2>1, <2>2, <2>3, <2>4, <2>6
  <2> QED BY <2>3, <2>5, <2>6
<1> QED BY <1>1, <1>2, LoopInitIInv, PTL DEF LoopSpec
----------------------------------------------------------------------------
(* The steps of the loop compute the recursive function: before the end the *)
(* whole column and the current window lead to the same result.             *)
Result(b, c) == Probe(col, key)[<<b, c>>]

LoopFollowsFunction ==
    /\ col \in Seq(Numbers) /\ done \in BOOLEAN
    /\ col = << >> => count = 0 /\ row = 1 /\ res = 0
    /\ col # << >> /\ done => Result(1, Len(col)) = [row |-> row, res |-> res]
    /\ col # << >> /\ ~done => /\ <<base, count>> \in Windows(col) /\ count > 0
                               /\ Result(1, Len(col)) = Result(base, count)

LEMMA InitFollowsFunction == LoopInit => LoopFollowsFunction
<1> SUFFICES ASSUME LoopInit PROVE LoopFollowsFunction
  OBVIOUS
<1>1. col \in Seq(Numbers) /\ Len(col) \in Nat
  BY ColumnsAreSequences DEF LoopInit
<1>2. base = 1 /\ count = Len(col) /\ row = 1 /\ res = 0 /\ ~done /\ done \in BOOLEAN
  BY Zenon DEF LoopInit
<1>3. CASE col = << >>
  BY <1>1, <1>2, <1>3 DEF LoopFollowsFunction
<1>4. CASE col # << >>
  <2>1. Len(col) > 0
    BY <1>1, <1>4, EmptySeq
  <2>2. <<1, Len(col)>> \in Windows(col)
    BY <1>1, <2>1 DEF Windows
  <2> QED BY <1>1, <1>2, <1>4, <2>1, <2>2 DEF LoopFollowsFunction
<1> QED BY <1>3, <1>4

LEMMA StepFollowsFunction ==
    ASSUME LoopFollowsFunction, [LoopNext]_loopvars
    PROVE  LoopFollowsFunction'
<1>1. CASE ProbeMiddle
  <2> DEFINE mid == base + count \div 2
             low == <<base, count \div 2>>
             high == <<mid, count - count \div 2>>
  <2>1. /\ ~done /\ count > 0 /\ row' = mid /\ res' = col_compare(key, col[mid])
        /\ UNCHANGED <<col, key>>
        /\ done' = (res' = 0 \/ count = 1)
    BY <1>1 DEF ProbeMiddle, Middle, Stops
  <2>2. done' \in BOOLEAN
    BY <2>1, Zenon
  <2>3. col # << >> /\ <<base, count>> \in Windows(col) /\ Len(col) \in Nat
        /\ Result(1, Len(col)) = Result(base, count)
    BY <2>1 DEF LoopFollowsFunction
  <2>4. Result(base, count) = Turn(Probe(col, key), col, key, <<base, count>>)
    BY <2>3, ProbeTurns DEF Result
  <2>5. count # 0 /\ count \in Nat /\ base \in Nat
    BY <2>1, <2>3 DEF Windows
  <2>6. Result(base, count) =
           IF res' = 0 \/ count = 1 THEN [row |-> row', res |-> res']
           ELSE IF res' < 0 THEN Probe(col, key)[low] ELSE Probe(col, key)[high]
    <3> HIDE DEF Result
    <3> QED BY <2>1, <2>4, <2>5 DEF Turn
  <2>7. CASE done'
    <3>1. Result(1, Len(col)) = [row |-> row', res |-> res']
      BY <2>1, <2>3, <2>6, <2>7
    <3> QED BY <2>1, <2>2, <2>3, <2>7, <3>1 DEF LoopFollowsFunction, Result
  <2>8. CASE ~done'
    <3>1. res' # 0 /\ count > 1
      <4>1. ~(res' = 0 \/ count = 1)
        BY <2>1, <2>8, Zenon
      <4> QED BY <2>5, <4>1
    <3>2. /\ low \in Windows(col) /\ high \in Windows(col)
          /\ count \div 2 > 0 /\ count - count \div 2 > 0
      <4> DEFINE w == <<base, count>>
      <4>1. w \in Windows(col) /\ w[2] > 1 /\ w[1] = base /\ w[2] = count
        BY <2>3, <3>1
      <4> HIDE DEF w
      <4>2. /\ <<w[1], w[2] \div 2>> \in Windows(col)
            /\ <<w[1] + w[2] \div 2, w[2] - w[2] \div 2>> \in Windows(col)
            /\ w[2] \div 2 \in 1 .. w[2] - 1
            /\ w[2] - w[2] \div 2 \in 1 .. w[2] - 1
        BY <2>3, <4>1, SmallerWindows
      <4> QED BY <4>1, <4>2
    <3>3. <<base', count'>> = IF res' < 0 THEN low ELSE high
      BY <1>1, <2>1, <2>8 DEF ProbeMiddle, Middle, RowsBelow, RowsFromMiddle
    <3>4. count' = IF res' < 0 THEN count \div 2 ELSE count - count \div 2
      BY <1>1, <2>1, <2>8 DEF ProbeMiddle, Middle, RowsBelow, RowsFromMiddle
    <3>5. <<base', count'>> \in Windows(col) /\ count' > 0
      <4> HIDE DEF low, high
      <4> QED BY <3>2, <3>3, <3>4
    <3>6. Result(1, Len(col)) = Probe(col, key)[<<base', count'>>]
      <4> HIDE DEF low, high, Result
      <4> QED BY <2>3, <2>6, <3>1, <3>3
    <3> QED BY <2>1, <2>2, <2>3, <2>8, <3>5, <3>6 DEF LoopFollowsFunction, Result
  <2> QED BY <2>7, <2>8
<1>2. CASE Exhausted
  <2>1. col = << >>
    BY <1>2 DEF Exhausted, LoopFollowsFunction
  <2>2. UNCHANGED <<col, key, base, count, row, res>> /\ done' \in BOOLEAN
    BY <1>2, Zenon DEF Exhausted
  <2> QED BY <2>1, <2>2 DEF LoopFollowsFunction
<1>3. CASE UNCHANGED loopvars
  BY <1>3 DEF loopvars, LoopFollowsFunction, Result
<1> QED BY <1>1, <1>2, <1>3 DEF LoopNext

(* The loop of search.template.h, step by step, ends at the row and with    *)
(* the comparison that the function used by the other modules gives, for    *)
(* every column, also where the comparison overflows.                       *)
THEOREM LoopAgreesWithFunction == LoopSpec => []AgreesWithFunction
<1>1. LoopFollowsFunction /\ [LoopNext]_loopvars => LoopFollowsFunction'
  BY StepFollowsFunction
<1>2. LoopFollowsFunction => AgreesWithFunction
  <2> SUFFICES ASSUME LoopFollowsFunction, done
               PROVE  mdtable_bsearch_closest(key, col) = [row |-> row, res |-> res]
    BY DEF AgreesWithFunction
  <2>1. CASE col = << >>
    BY <2>1 DEF LoopFollowsFunction, mdtable_bsearch_closest
  <2>2. CASE col # << >>
    BY <2>2 DEF LoopFollowsFunction, Result, mdtable_bsearch_closest
  <2> QED BY <2>1, <2>2
<1> QED BY <1>1, <1>2, InitFollowsFunction, PTL DEF LoopSpec
----------------------------------------------------------------------------
(* The table.                                                               *)

(* The inductive invariant.                                                 *)
IInv == TypeOK /\ FlagIsSound
----------------------------------------------------------------------------
(* The order of rows.                                                       *)

LEMMA RowFacts ==
    ASSUME NEW a \in Rows
    PROVE  /\ \A k \in Keys : a[k] \in Values /\ a[k] \in Int
           /\ Keys \subseteq Nat /\ 1 \in Keys /\ 1 \notin Descending
<1>1. \A k \in Keys : a[k] \in Values
  BY DEF Rows
<1>2. Values \subseteq Int /\ Keys \subseteq Nat /\ 1 \in Keys /\ 1 \notin Descending
  BY KeyAssumption DEF Values, Keys
<1> QED BY <1>1, <1>2

LEMMA InOrderTransitive ==
    ASSUME NEW a \in Rows, NEW b \in Rows, NEW c \in Rows, InOrder(a, b), InOrder(b, c)
    PROVE  InOrder(a, c)
<1>1. /\ \A k \in Keys : a[k] \in Int /\ b[k] \in Int /\ c[k] \in Int
      /\ Keys \subseteq Nat \ {0}
      /\ \A k \in Keys : \A j \in 1 .. k - 1 : j \in Keys
  BY RowFacts, KeyAssumption DEF Keys
<1>2. CASE \A k \in Keys : a[k] = b[k]
  BY <1>1, <1>2 DEF InOrder
<1>3. CASE \A k \in Keys : b[k] = c[k]
  BY <1>1, <1>3 DEF InOrder
<1>4. ASSUME NEW m \in Keys, Precedes(m, a[m], b[m]), \A j \in 1 .. m - 1 : a[j] = b[j],
             NEW n \in Keys, Precedes(n, b[n], c[n]), \A j \in 1 .. n - 1 : b[j] = c[j]
      PROVE  InOrder(a, c)
  <2>0. m \in Nat \ {0} /\ n \in Nat \ {0}
    BY <1>1
  <2>1. CASE m < n
    <3>1. m \in 1 .. n - 1 /\ \A j \in 1 .. m - 1 : j \in 1 .. n - 1
      BY <2>0, <2>1
    <3>2. b[m] = c[m] /\ \A j \in 1 .. m - 1 : a[j] = c[j]
      BY <1>4, <3>1
    <3> QED BY <1>4, <3>2 DEF InOrder
  <2>2. CASE n < m
    <3>1. n \in 1 .. m - 1 /\ \A j \in 1 .. n - 1 : j \in 1 .. m - 1
      BY <2>0, <2>2
    <3>2. a[n] = b[n] /\ \A j \in 1 .. n - 1 : a[j] = c[j]
      BY <1>4, <3>1
    <3> QED BY <1>4, <3>2 DEF InOrder
  <2>3. CASE m = n
    <3>1. Precedes(m, a[m], c[m]) /\ \A j \in 1 .. m - 1 : a[j] = c[j]
      BY <1>1, <1>4, <2>3 DEF Precedes
    <3> QED BY <3>1 DEF InOrder
  <2> QED BY <2>0, <2>1, <2>2, <2>3
<1> QED BY <1>2, <1>3, <1>4 DEF InOrder

(* The comparison of the editor is stricter than that of validate_tables.   *)
LEMMA ColumnwiseIsInOrder ==
    ASSUME NEW a \in Rows, NEW b \in Rows, is_row_sorted_with_next_row(a, b)
    PROVE  InOrder(a, b)
<1> DEFINE differ == {k \in Keys : a[k] # b[k]}
<1>1. CASE differ = {}
  BY <1>1 DEF InOrder
<1>2. CASE differ # {}
  <2>1. differ \subseteq Nat
    BY RowFacts
  <2>2. PICK k \in differ : \A j \in differ : k <= j
    BY <1>2, <2>1, MinIsMember
  <2>3. /\ k \in Keys /\ a[k] # b[k] /\ ~Precedes(k, b[k], a[k])
        /\ a[k] \in Int /\ b[k] \in Int
    BY <2>2, RowFacts DEF is_row_sorted_with_next_row
  <2>4. Precedes(k, a[k], b[k])
    BY <2>3 DEF Precedes
  <2>5. ASSUME NEW j \in 1 .. k - 1 PROVE a[j] = b[j]
    <3>1. j \in Keys /\ j < k
      BY <2>3, KeyAssumption DEF Keys
    <3>2. k \in Int /\ j \in Int
      BY <2>3, RowFacts
    <3>3. j \notin differ
      BY <2>2, <3>1, <3>2
    <3> QED BY <3>1, <3>3
  <2> QED BY <2>3, <2>4, <2>5 DEF InOrder
<1> QED BY <1>1, <1>2

(* Rows in order have their primary keys in order, which ascend.            *)
LEMMA PrimaryAscends ==
    ASSUME NEW a \in Rows, NEW b \in Rows, InOrder(a, b)
    PROVE  a[1] <= b[1]
<1>1. a[1] \in Int /\ b[1] \in Int /\ 1 \in Keys /\ 1 \notin Descending
  BY RowFacts
<1>2. CASE \A k \in Keys : a[k] = b[k]
  BY <1>1, <1>2
<1>3. ASSUME NEW k \in Keys, Precedes(k, a[k], b[k]), \A j \in 1 .. k - 1 : a[j] = b[j]
      PROVE  a[1] <= b[1]
  <2>1. k = 1 \/ 1 \in 1 .. k - 1
    BY DEF Keys
  <2> QED BY <1>1, <1>3, <2>1 DEF Precedes
<1> QED BY <1>2, <1>3 DEF InOrder

(* Adding one to the primary keys from `first' on keeps rows in order.      *)
Moved(a, first) == IF a[1] >= first THEN [a EXCEPT ![1] = @ + 1] ELSE a

LEMMA ShiftKeepsOrder ==
    ASSUME NEW a \in Rows, NEW b \in Rows, InOrder(a, b), NEW first \in Int
    PROVE  InOrder(Moved(a, first), Moved(b, first))
<1> DEFINE ma == Moved(a, first)
           mb == Moved(b, first)
<1>1. /\ a[1] \in Int /\ b[1] \in Int /\ 1 \in Keys /\ 1 \notin Descending
      /\ a[1] <= b[1] /\ Keys \subseteq Nat
  BY RowFacts, PrimaryAscends
<1>2. /\ ma[1] = IF a[1] >= first THEN a[1] + 1 ELSE a[1]
      /\ mb[1] = IF b[1] >= first THEN b[1] + 1 ELSE b[1]
      /\ \A k \in Keys : k # 1 => ma[k] = a[k] /\ mb[k] = b[k]
  BY <1>1 DEF Moved, Rows
<1>3. /\ a[1] = b[1] => ma[1] = mb[1]
      /\ a[1] < b[1] => ma[1] < mb[1]
  BY <1>1, <1>2
<1> HIDE DEF ma, mb
<1>4. ASSUME \A k \in Keys : a[k] = b[k]
      PROVE  InOrder(ma, mb)
  <2>1. \A k \in Keys : ma[k] = mb[k]
    BY <1>1, <1>2, <1>3, <1>4
  <2> QED BY <2>1 DEF InOrder
<1>5. ASSUME NEW k \in Keys, Precedes(k, a[k], b[k]), \A j \in 1 .. k - 1 : a[j] = b[j]
      PROVE  InOrder(ma, mb)
  <2>1. CASE k = 1
    <3>1. Precedes(1, ma[1], mb[1])
      BY <1>1, <1>3, <1>5, <2>1 DEF Precedes
    <3> QED BY <1>1, <3>1, <2>1 DEF InOrder
  <2>2. CASE k # 1
    <3>1. \A j \in 1 .. k - 1 : j \in Keys
      BY KeyAssumption DEF Keys
    <3>2. 1 \in 1 .. k - 1
      BY <2>2, KeyAssumption DEF Keys
    <3>3. \A j \in 1 .. k - 1 : ma[j] = mb[j]
      BY <1>2, <1>3, <1>5, <3>1, <3>2
    <3>4. Precedes(k, ma[k], mb[k])
      BY <1>2, <1>5, <2>2
    <3> QED BY <3>3, <3>4 DEF InOrder
  <2> QED BY <2>1, <2>2
<1>6. \/ \A k \in Keys : a[k] = b[k]
      \/ \E k \in Keys : /\ Precedes(k, a[k], b[k])
                         /\ \A j \in 1 .. k - 1 : a[j] = b[j]
  BY DEF InOrder
<1>7. InOrder(ma, mb)
  BY <1>4, <1>5, <1>6
<1> QED BY <1>7 DEF ma, mb
----------------------------------------------------------------------------
(* The steps.                                                               *)

LEMMA InitIInv == Init => IInv
<1> SUFFICES ASSUME Init PROVE IInv
  OBVIOUS
<1>1. rows \in Seq(Rows) /\ Len(rows) <= MaxRows
  BY BoundedSequences, KeyAssumption DEF Init
<1>2. isSorted \in BOOLEAN
  BY Zenon DEF Init
<1>3. newRow = 0 /\ (isSorted => Sorted(rows, {}))
  BY Zenon DEF Init
<1>4. TypeOK
  BY <1>1, <1>2, <1>3 DEF TypeOK
<1>5. FlagIsSound
  BY <1>3 DEF FlagIsSound, Sorted
<1> QED BY <1>4, <1>5 DEF IInv

LEMMA ElementsAreRows ==
    ASSUME TypeOK
    PROVE  /\ \A r \in 1 .. Len(rows) : rows[r] \in Rows
           /\ Len(rows) \in Nat
BY DEF TypeOK

LEMMA InsertKeepsIInv ==
    ASSUME IInv, NEW r \in 1 .. Len(rows) + 1, insert_row_into_table(r)
    PROVE  IInv'
<1>1. /\ rows \in Seq(Rows) /\ Len(rows) \in Nat /\ newRow = 0
      /\ Len(rows) < MaxRows /\ newRow' = r /\ rows' = InsertAt(rows, r, ZeroRow)
      /\ \A s \in 1 .. Len(rows) : rows[s] \in Rows
  BY ElementsAreRows DEF IInv, TypeOK, insert_row_into_table
<1>2. isSorted' = isSorted /\ isSorted \in BOOLEAN
  BY Zenon DEF IInv, TypeOK, insert_row_into_table
<1>3. ZeroRow \in Rows
  BY KeyAssumption DEF ZeroRow, Rows, Values
<1>4. /\ rows' \in Seq(Rows) /\ Len(rows') = Len(rows) + 1
      /\ \A i \in 1 .. Len(rows) + 1 :
            rows'[i] = IF i < r THEN rows[i] ELSE IF i = r THEN ZeroRow ELSE rows[i - 1]
  <2> DEFINE S == Rows
             zero == ZeroRow
  <2> HIDE DEF S, zero
  <2>1. rows \in Seq(S) /\ r \in 1 .. Len(rows) + 1 /\ zero \in S
    BY <1>1, <1>3 DEF S, zero
  <2>2. /\ InsertAt(rows, r, zero) \in Seq(S)
        /\ Len(InsertAt(rows, r, zero)) = Len(rows) + 1
        /\ \A i \in 1 .. Len(rows) + 1 :
              InsertAt(rows, r, zero)[i] = IF i < r THEN rows[i]
                                           ELSE IF i = r THEN zero ELSE rows[i - 1]
    BY <2>1, InsertAtProperties
  <2>3. rows' = InsertAt(rows, r, zero)
    BY <1>1 DEF zero
  <2> QED BY <2>2, <2>3 DEF S, zero
<1>5. TypeOK'
  BY <1>1, <1>2, <1>4, KeyAssumption DEF TypeOK
<1>6. ASSUME isSorted' PROVE Sorted(rows', {newRow'})
  <2>1. \A i, j \in 1 .. Len(rows) : i < j => InOrder(rows[i], rows[j])
    BY <1>1, <1>2, <1>6 DEF IInv, FlagIsSound, Sorted
  <2>2. ASSUME NEW i \in (1 .. Len(rows')) \ {newRow'},
               NEW j \in (1 .. Len(rows')) \ {newRow'}, i < j
        PROVE  InOrder(rows'[i], rows'[j])
    <3> DEFINE old(n) == IF n < r THEN n ELSE n - 1
    <3>1. /\ old(i) \in 1 .. Len(rows) /\ old(j) \in 1 .. Len(rows)
          /\ old(i) < old(j)
      BY <1>1, <1>4, <2>2
    <3>2. rows'[i] = rows[old(i)] /\ rows'[j] = rows[old(j)]
      BY <1>1, <1>4, <2>2
    <3> HIDE DEF old
    <3> QED BY <2>1, <3>1, <3>2
  <2> QED BY <2>2 DEF Sorted
<1> QED BY <1>5, <1>6 DEF IInv, FlagIsSound

(* Neighbours in order around row r put a table in order that is in order   *)
(* elsewhere.                                                               *)
LEMMA NeighboursSuffice ==
    ASSUME NEW t \in Seq(Rows), NEW r \in 1 .. Len(t), Sorted(t, {r}),
           r > 1 => InOrder(t[r - 1], t[r]),
           r < Len(t) => InOrder(t[r], t[r + 1])
    PROVE  Sorted(t, {})
<1>1. Len(t) \in Nat /\ \A i \in 1 .. Len(t) : t[i] \in Rows
  OBVIOUS
<1> SUFFICES ASSUME NEW i \in 1 .. Len(t), NEW j \in 1 .. Len(t), i < j
             PROVE  InOrder(t[i], t[j])
  BY DEF Sorted
<1>2. \A m, n \in 1 .. Len(t) : m # r /\ n # r /\ m < n => InOrder(t[m], t[n])
  BY DEF Sorted
<1>3. CASE i # r /\ j # r
  BY <1>2, <1>3
<1>4. CASE j = r
  <2>1. r - 1 \in 1 .. Len(t) /\ InOrder(t[r - 1], t[r])
    BY <1>1, <1>4
  <2>2. i = r - 1 \/ InOrder(t[i], t[r - 1])
    BY <1>1, <1>2, <1>4, <2>1
  <2> QED BY <1>1, <1>4, <2>1, <2>2, InOrderTransitive
<1>5. CASE i = r
  <2>1. r + 1 \in 1 .. Len(t) /\ InOrder(t[r], t[r + 1])
    BY <1>1, <1>5
  <2>2. j = r + 1 \/ InOrder(t[r + 1], t[j])
    BY <1>1, <1>2, <1>5, <2>1
  <2> QED BY <1>1, <1>5, <2>1, <2>2, InOrderTransitive
<1> QED BY <1>3, <1>4, <1>5

LEMMA CommitKeepsIInv ==
    ASSUME IInv, DisciplinedCommit
    PROVE  IInv'
<1>1. /\ newRow \in 1 .. Len(rows) /\ newRow' = 0 /\ rows' = rows
      /\ rows \in Seq(Rows) /\ Len(rows) \in Nat
  BY ElementsAreRows DEF DisciplinedCommit, md_commit_row_add, IInv, TypeOK
<1>2. isSorted' = (isSorted /\ validate_row_sorted_within_table(newRow))
  BY Zenon DEF DisciplinedCommit, md_commit_row_add
<1>3. isSorted' \in BOOLEAN
  BY <1>2, Zenon DEF IInv, TypeOK
<1>4. TypeOK'
  BY <1>1, <1>3 DEF IInv, TypeOK
<1>5. ASSUME isSorted' PROVE Sorted(rows, {})
  <2>1. isSorted /\ validate_row_sorted_within_table(newRow)
    BY <1>2, <1>5, Zenon
  <2>2. Sorted(rows, {newRow})
    BY <2>1 DEF IInv, FlagIsSound
  <2>3. newRow < Len(rows) => InOrder(rows[newRow], rows[newRow + 1])
    BY <1>1, <2>1 DEF DisciplinedCommit
  <2>4. newRow > 1 => InOrder(rows[newRow - 1], rows[newRow])
    <3> SUFFICES ASSUME newRow > 1 PROVE InOrder(rows[newRow - 1], rows[newRow])
      OBVIOUS
    <3>1. newRow - 1 \in 1 .. Len(rows)
      BY <1>1
    <3>2. rows[newRow - 1] \in Rows /\ rows[newRow] \in Rows
      BY <1>1, <3>1
    <3> QED BY <2>1, <3>2, ColumnwiseIsInOrder DEF validate_row_sorted_within_table
  <2> QED BY <1>1, <2>2, <2>3, <2>4, NeighboursSuffice
<1>6. FlagIsSound'
  BY <1>1, <1>5 DEF FlagIsSound, Sorted
<1> QED BY <1>4, <1>6 DEF IInv

LEMMA SetKeepsIInv ==
    ASSUME IInv, NEW r \in 1 .. Len(rows), NEW k \in Keys, NEW v \in Values,
           DisciplinedSet(r, k, v)
    PROVE  IInv'
<1> DEFINE new == [rows[r] EXCEPT ![k] = v]
<1>1. /\ rows' = [rows EXCEPT ![r] = new] /\ newRow' = newRow
      /\ rows \in Seq(Rows) /\ Len(rows) \in Nat /\ newRow \in 0 .. Len(rows)
      /\ \A s \in 1 .. Len(rows) : rows[s] \in Rows
  BY ElementsAreRows DEF DisciplinedSet, md_set_column_value, IInv, TypeOK
<1>2. new \in Rows
  BY <1>1 DEF Rows
<1> HIDE DEF new
<1>3. /\ rows' \in Seq(Rows) /\ Len(rows') = Len(rows) /\ rows'[r] = new
      /\ \A s \in 1 .. Len(rows) : s # r => rows'[s] = rows[s]
  BY <1>1, <1>2
<1>4. isSorted' = (isSorted /\ (newRow # 0 \/ StillSorted(rows', r)))
  BY Zenon DEF DisciplinedSet, md_set_column_value
<1>5. isSorted' \in BOOLEAN
  BY <1>4, Zenon DEF IInv, TypeOK
<1>6. TypeOK'
  BY <1>1, <1>3, <1>5 DEF IInv, TypeOK
<1>7. ASSUME isSorted' PROVE Sorted(rows', {newRow'})
  <2>1. isSorted /\ (newRow # 0 \/ StillSorted(rows', r))
    BY <1>4, <1>7, Zenon
  <2>2. \A i, j \in (1 .. Len(rows)) \ {newRow} : i < j => InOrder(rows[i], rows[j])
    BY <2>1 DEF IInv, FlagIsSound, Sorted
  <2>3. Sorted(rows', {newRow, r})
    BY <1>1, <1>3, <2>2 DEF Sorted
  <2>4. \/ newRow = r
        \/ newRow = 0 /\ (r > 1 => InOrder(rows[r - 1], new))
    BY <2>1 DEF DisciplinedSet, new
  <2>5. CASE newRow = r
    BY <1>1, <2>3, <2>5 DEF Sorted
  <2>6. CASE newRow = 0 /\ (r > 1 => InOrder(rows[r - 1], new))
    <3>1. StillSorted(rows', r) /\ r < Len(rows')
      BY <2>1, <2>6 DEF StillSorted
    <3>2. rows'[r] \in Rows /\ rows'[r + 1] \in Rows
      BY <1>1, <1>3, <3>1
    <3>3. InOrder(rows'[r], rows'[r + 1])
      BY <3>1, <3>2, ColumnwiseIsInOrder DEF StillSorted
    <3>4. r > 1 => InOrder(rows'[r - 1], rows'[r])
      BY <1>1, <1>3, <2>6
    <3>5. Sorted(rows', {r})
      BY <1>1, <1>3, <2>3, <2>6 DEF Sorted
    <3>6. Sorted(rows', {})
      BY <1>3, <3>3, <3>4, <3>5, NeighboursSuffice
    <3> QED BY <3>6 DEF Sorted
  <2> QED BY <2>4, <2>5, <2>6
<1> QED BY <1>6, <1>7 DEF IInv, FlagIsSound

LEMMA ShiftKeepsIInv ==
    ASSUME IInv, NEW first \in 1 .. MaxValue, update_shifted_row_references(first)
    PROVE  IInv'
<1>1. /\ rows \in Seq(Rows) /\ Len(rows) \in Nat /\ newRow \in 0 .. Len(rows)
      /\ newRow' = newRow
      /\ \A s \in 1 .. Len(rows) : rows[s] \in Rows
  BY ElementsAreRows DEF update_shifted_row_references, IInv, TypeOK
<1>2. \A s \in 1 .. Len(rows) : rows[s][1] >= first => rows[s][1] < MaxValue
  BY DEF update_shifted_row_references
<1>3. rows' = [s \in 1 .. Len(rows) |-> Moved(rows[s], first)]
  BY <1>1 DEF update_shifted_row_references, Moved
<1>4. ASSUME NEW s \in 1 .. Len(rows) PROVE Moved(rows[s], first) \in Rows
  <2>1. /\ rows[s] \in Rows /\ rows[s][1] \in Values /\ 1 \in Keys
        /\ rows[s][1] >= first => rows[s][1] < MaxValue
    BY <1>1, <1>2, RowFacts
  <2>2. rows[s][1] >= first => rows[s][1] + 1 \in Values
    BY <2>1, KeyAssumption DEF Values
  <2> QED BY <2>1, <2>2 DEF Moved, Rows
<1>5. rows' \in [1 .. Len(rows) -> Rows]
  BY <1>3, <1>4
<1>6. rows' \in Seq(Rows) /\ Len(rows') = Len(rows)
  BY <1>1, <1>5, FunctionIsSequence
<1>7. isSorted' \in BOOLEAN /\ (isSorted' => isSorted)
  BY Zenon DEF update_shifted_row_references, IInv, TypeOK
<1>8. TypeOK'
  BY <1>1, <1>6, <1>7 DEF IInv, TypeOK
<1>9. ASSUME isSorted' PROVE Sorted(rows', {newRow'})
  <2>1. Sorted(rows, {newRow})
    BY <1>7, <1>9 DEF IInv, FlagIsSound
  <2>2. ASSUME NEW i \in (1 .. Len(rows)) \ {newRow},
               NEW j \in (1 .. Len(rows)) \ {newRow}, i < j
        PROVE  InOrder(rows'[i], rows'[j])
    <3>1. /\ rows[i] \in Rows /\ rows[j] \in Rows /\ InOrder(rows[i], rows[j])
          /\ first \in Int
      BY <1>1, <2>1, <2>2 DEF Sorted
    <3> QED BY <1>3, <3>1, ShiftKeepsOrder
  <2> QED BY <1>1, <1>6, <2>2 DEF Sorted
<1> QED BY <1>8, <1>9 DEF IInv, FlagIsSound

LEMMA StepKeepsIInv == IInv /\ [DisciplinedNext]_vars => IInv'
<1> SUFFICES ASSUME IInv, [DisciplinedNext]_vars PROVE IInv'
  OBVIOUS
<1>1. ASSUME NEW r \in 1 .. Len(rows) + 1, insert_row_into_table(r) PROVE IInv'
  BY <1>1, InsertKeepsIInv
<1>2. ASSUME NEW r \in 1 .. Len(rows), NEW k \in Keys, NEW v \in Values,
             DisciplinedSet(r, k, v)
      PROVE  IInv'
  BY <1>2, SetKeepsIInv
<1>3. CASE Shift
  BY <1>3, ShiftKeepsIInv DEF Shift
<1>4. CASE DisciplinedCommit
  BY <1>4, CommitKeepsIInv
<1>5. CASE UNCHANGED vars
  BY <1>5 DEF vars, IInv, TypeOK, FlagIsSound, Sorted
<1> QED BY <1>1, <1>2, <1>3, <1>4, <1>5 DEF DisciplinedNext

(* A flagged table is in order whatever a disciplined caller inserts,       *)
(* writes, shifts and commits, so that an image saved between two adds is   *)
(* accepted by validate_tables (streams.c:306-360).                         *)
THEOREM DisciplinedFlagIsSound == DisciplinedSpec => []FlagIsSound
<1>1. IInv => FlagIsSound
  BY DEF IInv
<1> QED BY <1>1, InitIInv, StepKeepsIInv, PTL DEF DisciplinedSpec

(* The types of the table's state.                                          *)
THEOREM DisciplinedTypeCorrect == DisciplinedSpec => []TypeOK
<1>1. IInv => TypeOK
  BY DEF IInv
<1> QED BY <1>1, InitIInv, StepKeepsIInv, PTL DEF DisciplinedSpec
----------------------------------------------------------------------------
(* Searching.  The subtraction in col_compare_4bytes is right for values    *)
(* below Half only.                                                         *)

(* The column of primary keys, which ascends where the search relies on it. *)
LEMMA PrimaryColumn ==
    ASSUME IInv, MaxValue < Half
    PROVE  /\ KeyColumn(1) \in Seq(0 .. Half - 1)
           /\ Len(KeyColumn(1)) = Len(rows) /\ Len(rows) \in Nat
           /\ \A r \in 1 .. Len(rows) : /\ KeyColumn(1)[r] = rows[r][1]
                                        /\ rows[r][1] \in 0 .. Half - 1
           /\ isSorted /\ newRow = 0 => Ascending(KeyColumn(1))
           /\ Values \subseteq 0 .. Half - 1
<1> DEFINE n == Len(rows)
           c == KeyColumn(1)
<1>1. n \in Nat /\ \A r \in 1 .. n : rows[r] \in Rows
  BY ElementsAreRows DEF IInv, TypeOK
<1>2. Values \subseteq 0 .. Half - 1
  BY HalfAssumption, KeyAssumption DEF Values
<1>3. \A r \in 1 .. n : rows[r][1] \in 0 .. Half - 1
  BY <1>1, <1>2, RowFacts
<1>4. c \in [1 .. n -> 0 .. Half - 1] /\ \A r \in 1 .. n : c[r] = rows[r][1]
  <2>1. c = [r \in 1 .. n |-> rows[r][1]]
    BY DEF KeyColumn
  <2> HIDE DEF n, c
  <2> QED BY <1>3, <2>1
<1> HIDE DEF n, c
<1>5. c \in Seq(0 .. Half - 1) /\ Len(c) = n
  <2> DEFINE S == 0 .. Half - 1
  <2> HIDE DEF S
  <2>1. c \in [1 .. n -> S]
    BY <1>4 DEF S
  <2>2. c \in Seq(S) /\ Len(c) = n
    BY ONLY <1>1, <2>1, FunctionIsSequence
  <2> QED BY <2>2 DEF S
<1>6. ASSUME isSorted, newRow = 0 PROVE Ascending(c)
  <2>1. Sorted(rows, {0})
    BY <1>6, Zenon DEF IInv, FlagIsSound
  <2>2. ASSUME NEW i \in 1 .. n, NEW j \in 1 .. n, i < j PROVE rows[i][1] <= rows[j][1]
    <3>1. i \in (1 .. n) \ {0} /\ j \in (1 .. n) \ {0}
      BY <1>1
    <3>2. InOrder(rows[i], rows[j])
      BY <2>1, <2>2, <3>1 DEF Sorted, n
    <3> QED BY <1>1, <3>2, PrimaryAscends
  <2>3. \A i \in 1 .. n : rows[i][1] \in Int
    BY <1>3, HalfAssumption
  <2> QED BY <1>1, <1>4, <1>5, <2>2, <2>3 DEF Ascending
<1> QED BY <1>1, <1>2, <1>3, <1>4, <1>5, <1>6 DEF n, c

(* What find_row_from_cursor returns from the first row on.                 *)
LEMMA FoundRow ==
    ASSUME IInv, MaxValue < Half, rows # << >>, NEW v \in Values
    PROVE  LET r == find_row_from_cursor(1, 1, v)
           IN  IF r = 0 THEN \A s \in 1 .. Len(rows) : rows[s][1] # v
               ELSE r \in 1 .. Len(rows) /\ rows[r][1] = v
<1> DEFINE n == Len(rows)
           c == KeyColumn(1)
           hit == IF isSorted /\ newRow = 0 THEN md_bsearch(v, c, 1) ELSE md_lsearch(v, c, 1)
<1>1. /\ c \in Seq(0 .. Half - 1) /\ Len(c) = n /\ n \in Nat
      /\ \A r \in 1 .. n : c[r] = rows[r][1]
      /\ isSorted /\ newRow = 0 => Ascending(c)
      /\ v \in 0 .. Half - 1
  BY PrimaryColumn
<1>2. 1 \in 1 .. n
  BY EmptySeq DEF IInv, TypeOK
<1> HIDE DEF c, n
<1>3. IF hit = 0 THEN \A s \in 1 .. n : c[s] # v ELSE hit \in 1 .. n /\ c[hit] = v
  <2>1. CASE isSorted /\ newRow = 0
    <3>1. hit = md_bsearch(v, c, 1)
      BY <2>1, Zenon
    <3> QED BY <1>1, <1>2, <2>1, <3>1, BinarySearchFinds
  <2>2. CASE ~(isSorted /\ newRow = 0)
    <3>1. hit = md_lsearch(v, c, 1)
      BY <2>2, Zenon
    <3> QED BY <1>1, <1>2, <3>1, LinearSearchFinds
  <2> QED BY <2>1, <2>2
<1>4. find_row_from_cursor(1, 1, v) = IF hit = 0 THEN 0 ELSE hit - 1 + 1
  BY Zenon DEF find_row_from_cursor, c
<1> HIDE DEF hit
<1>5. find_row_from_cursor(1, 1, v) = hit
  BY <1>1, <1>3, <1>4
<1> QED BY <1>1, <1>3, <1>5 DEF n

(* Looking from the first row on, a row with the primary key is found       *)
(* exactly when there is one, in a flagged table by binary search           *)
(* (query.c:480-598).                                                       *)
THEOREM DisciplinedFindsPrimaryKey ==
    ASSUME MaxValue < Half
    PROVE  DisciplinedSpec => []FindsPrimaryKey
<1>1. IInv => FindsPrimaryKey
  <2> SUFFICES ASSUME IInv, NEW v \in Values, rows # << >>
               PROVE  LET r == find_row_from_cursor(1, 1, v)
                      IN  IF r = 0 THEN \A s \in 1 .. Len(rows) : rows[s][1] # v
                          ELSE rows[r][1] = v
    BY DEF FindsPrimaryKey
  <2> QED BY FoundRow
<1> QED BY <1>1, InitIInv, StepKeepsIInv, PTL DEF DisciplinedSpec

(* The rows from the first to the last with the value found are those of    *)
(* the range.                                                               *)
LEMMA FoundRange ==
    ASSUME IInv, MaxValue < Half, CanFindRange, rows # << >>, NEW v \in Values
    PROVE  md_find_range_from_cursor(1, v) = {r \in 1 .. Len(rows) : rows[r][1] = v}
<1> DEFINE n == Len(rows)
           c == KeyColumn(1)
           found == find_row_from_cursor(1, 1, v)
           starts == {s \in 1 .. found : \A r \in s .. found - 1 : col_compare(v, c[r]) <= 0}
           ends == {e \in found + 1 .. n + 1 :
                       \A r \in found + 1 .. e - 1 : col_compare(v, c[r]) >= 0}
<1>1. /\ Len(c) = n /\ n \in Nat /\ v \in Int
      /\ \A r \in 1 .. n : c[r] = rows[r][1] /\ c[r] \in Int
      /\ \A r \in 1 .. n : col_compare(v, c[r]) = v - c[r]
      /\ \A i, j \in 1 .. n : i <= j => c[i] <= c[j]
  <2>1. /\ Len(c) = n /\ n \in Nat /\ v \in 0 .. Half - 1
        /\ \A r \in 1 .. n : c[r] = rows[r][1] /\ c[r] \in 0 .. Half - 1
    BY PrimaryColumn
  <2>2. \A i, j \in 1 .. n : i <= j => c[i] <= c[j]
    <3>1. Ascending(c)
      BY PrimaryColumn, Zenon DEF CanFindRange
    <3> HIDE DEF c, n
    <3> QED BY <2>1, <3>1 DEF Ascending
  <2> HIDE DEF c, n
  <2>3. \A r \in 1 .. n : col_compare(v, c[r]) = v - c[r]
    BY <2>1, CompareIsExact
  <2> QED BY <2>1, <2>2, <2>3, HalfAssumption
<1>2. IF found = 0 THEN \A s \in 1 .. n : rows[s][1] # v
      ELSE found \in 1 .. n /\ rows[found][1] = v
  BY FoundRow
<1>3. md_find_range_from_cursor(1, v) = IF found = 0 THEN {} ELSE Min(starts) .. Max(ends) - 1
  <2> HIDE DEF found
  <2>1. ends = {e \in found + 1 .. Len(c) + 1 :
                   \A r \in found + 1 .. e - 1 : col_compare(v, c[r]) >= 0}
    BY <1>1
  <2> HIDE DEF c, n, ends
  <2> QED BY <2>1, Zenon DEF md_find_range_from_cursor, c, found
<1> HIDE DEF c, n, found
<1>4. CASE found = 0
  BY <1>2, <1>3, <1>4 DEF n
<1>5. CASE found # 0
  <2>1. found \in 1 .. n /\ c[found] = v
    BY <1>1, <1>2, <1>5
  <2>2. PICK s \in starts : s = Min(starts) /\ \A y \in starts : s <= y
    <3>1. starts \subseteq Nat /\ found \in starts
      BY <1>1, <2>1
    <3> HIDE DEF starts
    <3> QED BY <3>1, MinIsMember
  <2>3. PICK e \in ends : e = Max(ends) /\ \A y \in ends : e >= y
    <3>1. ends \subseteq 0 .. n + 1 /\ found + 1 \in ends /\ n + 1 \in Nat
      BY <1>1, <2>1
    <3> HIDE DEF ends
    <3> QED BY <3>1, MaxIsMember
  <2>4. s \in 1 .. found /\ \A r \in s .. found - 1 : c[r] >= v
    <3>1. s \in 1 .. found /\ \A r \in s .. found - 1 : col_compare(v, c[r]) <= 0
      BY <2>2
    <3>2. \A r \in s .. found - 1 : r \in 1 .. n
      BY <1>1, <2>1, <3>1
    <3> HIDE DEF starts
    <3>3. \A r \in s .. found - 1 : v - c[r] <= 0 /\ c[r] \in Int
      BY <1>1, <3>1, <3>2
    <3> QED BY <1>1, <3>1, <3>3
  <2>5. e \in found + 1 .. n + 1 /\ \A r \in found + 1 .. e - 1 : c[r] <= v
    <3>1. e \in found + 1 .. n + 1 /\ \A r \in found + 1 .. e - 1 : col_compare(v, c[r]) >= 0
      BY <2>3
    <3>2. \A r \in found + 1 .. e - 1 : r \in 1 .. n
      BY <1>1, <2>1, <3>1
    <3> HIDE DEF ends
    <3>3. \A r \in found + 1 .. e - 1 : v - c[r] >= 0 /\ c[r] \in Int
      BY <1>1, <3>1, <3>2
    <3> QED BY <1>1, <3>1, <3>3
  <2>6. \A r \in s .. e - 1 : c[r] = v
    BY <1>1, <2>1, <2>4, <2>5
  <2>7. \A r \in 1 .. s - 1 : c[r] # v
    <3> SUFFICES ASSUME s > 1, c[s - 1] >= v PROVE FALSE
      BY <1>1, <2>1, <2>4
    <3>1. s - 1 \in starts
      <4>1. \A r \in s - 1 .. found - 1 : c[r] >= v
        BY <1>1, <2>1, <2>4
      <4> QED BY <1>1, <2>1, <2>4, <4>1
    <3> HIDE DEF starts
    <3> QED BY <2>2, <2>4, <3>1
  <2>8. \A r \in e .. n : c[r] # v
    <3> SUFFICES ASSUME e <= n, c[e] <= v PROVE FALSE
      BY <1>1, <2>1, <2>5
    <3>1. e + 1 \in ends
      <4>1. \A r \in found + 1 .. e : c[r] <= v
        BY <1>1, <2>1, <2>5
      <4> QED BY <1>1, <2>1, <2>5, <4>1
    <3> HIDE DEF ends
    <3> QED BY <2>3, <2>5, <3>1
  <2>9. s .. e - 1 = {r \in 1 .. n : c[r] = v}
    BY <1>1, <2>1, <2>4, <2>5, <2>6, <2>7, <2>8
  <2> HIDE DEF starts, ends
  <2>10. md_find_range_from_cursor(1, v) = {r \in 1 .. n : c[r] = v}
    BY <1>3, <1>5, <2>2, <2>3, <2>9
  <2> QED BY <1>1, <2>10 DEF n
<1> QED BY <1>4, <1>5

(* Where the range operation is supported it reports all rows with the      *)
(* value and no other (query.c:600-691).                                    *)
THEOREM DisciplinedRangeIsComplete ==
    ASSUME MaxValue < Half
    PROVE  DisciplinedSpec => []RangeIsComplete
<1>1. IInv => RangeIsComplete
  <2> SUFFICES ASSUME IInv, CanFindRange, rows # << >>, NEW v \in Values
               PROVE  md_find_range_from_cursor(1, v)
                         = {r \in 1 .. Len(rows) : rows[r][1] = v}
    BY DEF RangeIsComplete
  <2> QED BY FoundRange
<1> QED BY <1>1, InitIInv, StepKeepsIInv, PTL DEF DisciplinedSpec
=============================================================================
