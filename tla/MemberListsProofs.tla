-------------------------- MODULE MemberListsProofs --------------------------
(***************************************************************************)
(* Member lists of any size, in three parts.                               *)
(*                                                                         *)
(* For every caller: the tables stay well-formed, the indirection table    *)
(* stays a permutation and no member moves.                                *)
(*                                                                         *)
(* For disciplined callers: their list columns stay ascending, which       *)
(* everything that reads lists assumes.                                    *)
(*                                                                         *)
(* What a disciplined caller gets: every member is in one list, at one     *)
(* place; from the member its owner is found again; a row that is added    *)
(* reaches its owner; and all of it is what ListStore promises.  The       *)
(* argument: the list column cuts the rows of the table it points into     *)
(* into intervals, one per owner, that follow each other without a gap.    *)
(* What a row stands for is a one-to-one function of the row.  An add puts *)
(* one row into one of the intervals.                                      *)
(***************************************************************************)
EXTENDS MemberLists, TableSearchProofs, FiniteSetTheorems

(* An image without the target table holds no members and no indirection.   *)
AbsentIsEmpty == ~present => member = << >> /\ ~indirect

(* The inductive invariant for any caller.                                  *)
IInv == TypeOK /\ ListColumnsInTable /\ PtrIsPermutation /\ AbsentIsEmpty
----------------------------------------------------------------------------
(* Facts about lists that hold under the invariant.                         *)

(* Both tables a list column can point into have a row for each member.     *)
LEMMA TableBounds ==
    ASSUME IInv
    PROVE  /\ Len(list) \in Nat /\ Len(member) \in Nat
           /\ EndRow = Len(member) + 1
           /\ \A o \in 1 .. Len(list) : list[o] \in 0 .. EndRow
<1>1. Len(list) \in Nat /\ Len(member) \in Nat
  BY DEF IInv, TypeOK
<1>2. EndRow = Len(member) + 1
  BY DEF IInv, PtrIsPermutation, EndRow, TargetRows
<1>3. \A o \in 1 .. Len(list) : list[o] \in Nat /\ list[o] <= EndRow
  BY DEF IInv, TypeOK, ListColumnsInTable
<1> HIDE DEF EndRow
<1> QED BY <1>1, <1>2, <1>3

(* A list that can be read starts and ends inside the table, and the        *)
(* indirection table is never needed when the target table is missing.      *)
LEMMA RangeInTable ==
    ASSUME IInv, NEW o \in 1 .. Len(list), CanReadList(o)
    PROVE  /\ RangeStart(o) \in 1 .. EndRow
           /\ RangeEnd(o) \in 1 .. EndRow
           /\ RangeCount(o) = 0 => RangeEnd(o) = RangeStart(o)
           /\ ~present => RangeEnd(o) = 1 /\ RangeStart(o) = 1 /\ EndRow = 1
<1>1. /\ EndRow \in Nat \ {0} /\ EndRow = Len(member) + 1
      /\ list[o] \in 0 .. EndRow
      /\ \A p \in 1 .. Len(list) : list[p] \in 0 .. EndRow
      /\ Len(list) \in Nat
  BY TableBounds
<1>2. ~present => EndRow = 1
  BY <1>1 DEF IInv, AbsentIsEmpty
<1>3. list[o] # 0 => NextStart(o) \in 1 .. EndRow
  <2> DEFINE later == {p \in o + 1 .. Len(list) : list[p] # 0}
  <2>1. CASE later = {}
    BY <1>1, <2>1 DEF NextStart
  <2>2. CASE later # {}
    <3>1. later \subseteq Nat
      BY <1>1
    <3>2. Min(later) \in later
      BY <2>2, <3>1, MinIsMember
    <3>3. Min(later) \in 1 .. Len(list) /\ list[Min(later)] # 0
      BY <1>1, <3>2
    <3>4. NextStart(o) = list[Min(later)]
      BY <2>2 DEF NextStart
    <3> QED BY <1>1, <3>3, <3>4
  <2> QED BY <2>1, <2>2
<1> HIDE DEF EndRow
<1>4. CASE ~present
  <2>1. list[o] \in {0, EndRow}
    BY <1>1, <1>2, <1>4
  <2>2. RangeCount(o) = 0 /\ RangeStart(o) = 1
    BY <1>4, <2>1 DEF RangeCount, RangeStart
  <2> QED BY <1>2, <1>4, <2>2 DEF RangeEnd
<1>5. CASE present
  <2>1. RangeStart(o) = list[o] /\ list[o] # 0
    BY <1>5 DEF RangeStart, CanReadList
  <2>2. RangeEnd(o) = list[o] + RangeCount(o)
    BY <2>1 DEF RangeEnd
  <2>3. RangeCount(o) = IF list[o] = EndRow THEN 0 ELSE NextStart(o) - list[o]
    BY <2>1 DEF RangeCount
  <2> QED BY <1>1, <1>3, <1>5, <2>1, <2>2, <2>3
<1> QED BY <1>4, <1>5

(* A sorted insert happens at the start of the list, or after one of its    *)
(* rows.                                                                    *)
LEMMA SortedPositionInTable ==
    ASSUME IInv, NEW o \in 1 .. Len(list), CanReadList(o), NEW v
    PROVE  /\ SortedPosition(o, v) \in 1 .. EndRow
           /\ SortedPosition(o, v) = RangeStart(o)
                 \/ SortedPosition(o, v) \in RangeStart(o) + 1 .. RangeEnd(o)
<1> DEFINE notAbove == {r \in RangeStart(o) .. RangeEnd(o) - 1 :
                           member[md_resolve_indirect_cursor(r)] <= v}
<1>1. EndRow \in Nat
  BY TableBounds
<1>2. RangeStart(o) \in 1 .. EndRow /\ RangeEnd(o) \in 1 .. EndRow
  BY RangeInTable
<1> HIDE DEF EndRow, RangeStart, RangeEnd
<1>3. CASE notAbove = {} \/ Max(notAbove) = 1
  <2>1. SortedPosition(o, v) = RangeStart(o)
    BY <1>3 DEF SortedPosition
  <2> QED BY <1>2, <2>1
<1>4. CASE notAbove # {} /\ Max(notAbove) # 1
  <2>1. notAbove \subseteq 0 .. EndRow
    BY <1>1, <1>2
  <2>2. Max(notAbove) \in notAbove
    BY <1>1, <1>4, <2>1, MaxIsMember
  <2>3. SortedPosition(o, v) = Max(notAbove) + 1
    BY <1>4 DEF SortedPosition
  <2>4. Max(notAbove) \in RangeStart(o) .. RangeEnd(o) - 1
    BY <2>2
  <2> HIDE DEF notAbove
  <2> QED BY <1>1, <1>2, <2>3, <2>4
<1> QED BY <1>3, <1>4
----------------------------------------------------------------------------
(* Every step keeps the invariant, whoever takes it.                        *)

(* What a new member does to the target table.                              *)
LEMMA AppendedMember ==
    ASSUME IInv, NEW v \in SortValues, append_member(v)
    PROVE  /\ member' \in Seq(SortValues) /\ Len(member') = Len(member) + 1
           /\ Len(member') <= MaxMembers
           /\ addingMember' \in BOOLEAN
<1>1. member \in Seq(SortValues) /\ Len(member) \in Nat /\ Len(member) < MaxMembers
  BY DEF IInv, TypeOK, append_member
<1>2. member' = Append(member, v)
  BY DEF append_member
<1>3. member' \in Seq(SortValues) /\ Len(member') = Len(member) + 1
  BY <1>1, <1>2
<1>4. addingMember' \in BOOLEAN
  BY Zenon DEF append_member
<1> QED BY <1>1, <1>3, <1>4, SizeAssumption

(* Moving references past an inserted row keeps them inside the table.      *)
LEMMA ShiftedReferences ==
    ASSUME IInv, NEW r \in Nat
    PROVE  /\ update_shifted_row_references(r) \in Seq(Nat)
           /\ Len(update_shifted_row_references(r)) = Len(list)
           /\ \A o \in 1 .. Len(list) :
                 /\ update_shifted_row_references(r)[o] =
                        IF list[o] >= r THEN list[o] + 1 ELSE list[o]
                 /\ update_shifted_row_references(r)[o] \in 0 .. EndRow + 1
<1> DEFINE shifted == update_shifted_row_references(r)
<1>1. /\ EndRow \in Nat /\ Len(list) \in Nat
      /\ \A o \in 1 .. Len(list) : list[o] \in 0 .. EndRow
  BY TableBounds
<1> HIDE DEF EndRow
<1>2. \A o \in 1 .. Len(list) :
         /\ shifted[o] = IF list[o] >= r THEN list[o] + 1 ELSE list[o]
         /\ shifted[o] \in 0 .. EndRow + 1
  BY <1>1 DEF update_shifted_row_references
<1>3. shifted \in [1 .. Len(list) -> Nat]
  <2>1. \A o \in 1 .. Len(list) : shifted[o] \in Nat
    BY <1>1, <1>2
  <2> QED BY <2>1 DEF update_shifted_row_references
<1> HIDE DEF shifted
<1>4. shifted \in Seq(Nat) /\ Len(shifted) = Len(list)
  BY <1>1, <1>3, FunctionIsSequence
<1> QED BY <1>2, <1>4 DEF shifted

LEMMA AppendKeepsIInv ==
    ASSUME IInv, NEW o \in 1 .. Len(list), NEW v \in SortValues, ~indirect,
           append_to_list(o, v), present' = TRUE, UNCHANGED addingOwner
    PROVE  IInv'
<1> DEFINE new     == Len(member) + 1
           shifted == update_shifted_row_references(new)
<1>1. /\ EndRow = new /\ new \in Nat /\ Len(list) \in Nat /\ Len(member) \in Nat
  BY TableBounds
<1>2. /\ member' \in Seq(SortValues) /\ Len(member') = Len(member) + 1
      /\ Len(member') <= MaxMembers /\ addingMember' \in BOOLEAN
  BY AppendedMember DEF append_to_list
<1>3. UNCHANGED <<ptr, indirect>>
  BY DEF append_to_list
<1>4. /\ shifted \in Seq(Nat) /\ Len(shifted) = Len(list)
      /\ \A p \in 1 .. Len(list) : shifted[p] \in 0 .. new + 1
  BY <1>1, ShiftedReferences
<1>5. list' = IF RangeCount(o) # 0 THEN shifted
              ELSE [p \in 1 .. Len(list) |->
                      IF p \in SameStart(shifted, o) THEN new ELSE shifted[p]]
  BY DEF append_to_list
<1> HIDE DEF shifted
<1>6. /\ list' \in Seq(Nat) /\ Len(list') = Len(list)
      /\ \A p \in 1 .. Len(list) : list'[p] \in 0 .. new + 1
  <2>1. CASE RangeCount(o) # 0
    BY <1>4, <1>5, <2>1
  <2>2. CASE RangeCount(o) = 0
    <3>1. \A p \in 1 .. Len(list) : list'[p] \in 0 .. new + 1
      BY <1>1, <1>4, <1>5, <2>2
    <3>2. list' \in [1 .. Len(list) -> 0 .. new + 1]
      BY <1>5, <2>2, <3>1
    <3>3. list' \in Seq(0 .. new + 1) /\ Len(list') = Len(list)
      BY <1>1, <3>2, FunctionIsSequence
    <3>4. 0 .. new + 1 \subseteq Nat
      BY <1>1
    <3> QED BY <3>1, <3>3, <3>4, SeqMonotonic
  <2> QED BY <2>1, <2>2
<1> HIDE DEF EndRow
<1>7. /\ indirect = FALSE /\ ptr = << >> /\ indirect' = FALSE /\ ptr' = << >>
  <2>1. ptr \in Seq(1 .. Len(member)) /\ Len(ptr) = 0
    BY DEF IInv, TypeOK, PtrIsPermutation
  <2>2. indirect = FALSE
    BY Zenon DEF IInv, TypeOK
  <2> QED BY <1>3, <2>1, <2>2, EmptySeq
<1>8. EndRow' = new + 1
  BY <1>2, <1>7 DEF EndRow, TargetRows
<1>9. TypeOK'
  <2>1. ptr' \in Seq(1 .. Len(member'))
    BY <1>7
  <2>2. present' \in BOOLEAN /\ indirect' \in BOOLEAN /\ addingOwner' \in BOOLEAN
    BY <1>7, Zenon DEF IInv, TypeOK
  <2>3. Len(list') <= MaxOwners
    BY <1>6 DEF IInv, TypeOK
  <2> QED BY <1>2, <1>6, <2>1, <2>2, <2>3 DEF TypeOK
<1>10. ListColumnsInTable'
  BY <1>1, <1>6, <1>8 DEF ListColumnsInTable
<1>11. PtrIsPermutation'
  BY <1>7 DEF PtrIsPermutation
<1> QED BY <1>9, <1>10, <1>11 DEF IInv, AbsentIsEmpty

LEMMA InsertKeepsIInv ==
    ASSUME IInv, NEW o \in 1 .. Len(list), NEW v \in SortValues, present,
           NEW rows \in Seq(1 .. Len(member)), Len(rows) = Len(member),
           \A i, j \in 1 .. Len(rows) : rows[i] = rows[j] => i = j,
           NEW r \in 1 .. EndRow,
           insert_indirect(o, r, rows, v), present' = TRUE, UNCHANGED addingOwner
    PROVE  IInv'
<1> DEFINE new     == Len(member) + 1
           shifted == update_shifted_row_references(r)
<1>1. /\ EndRow = new /\ new \in Nat /\ Len(list) \in Nat /\ Len(member) \in Nat
  BY TableBounds
<1>2. /\ member' \in Seq(SortValues) /\ Len(member') = new
      /\ Len(member') <= MaxMembers /\ addingMember' \in BOOLEAN
  BY AppendedMember DEF insert_indirect
<1>3. indirect' = TRUE /\ ptr' = InsertAt(rows, r, new)
  BY Zenon DEF insert_indirect
<1>4. /\ shifted \in Seq(Nat) /\ Len(shifted) = Len(list)
      /\ \A p \in 1 .. Len(list) : shifted[p] \in 0 .. new + 1
  <2>1. r \in Nat
    BY <1>1
  <2> QED BY <1>1, <2>1, ShiftedReferences
<1>5. list' = IF RangeCount(o) = 0 \/ list[o] = r
              THEN [shifted EXCEPT ![o] = r] ELSE shifted
  BY DEF insert_indirect
<1> HIDE DEF shifted
<1>6. /\ list' \in Seq(Nat) /\ Len(list') = Len(list)
      /\ \A p \in 1 .. Len(list) : list'[p] \in 0 .. new + 1
  <2>1. CASE list' = shifted
    BY <1>4, <2>1
  <2>2. CASE list' = [shifted EXCEPT ![o] = r]
    <3>1. r \in Nat /\ r \in 0 .. new + 1 /\ o \in 1 .. Len(shifted)
      BY <1>1, <1>4
    <3>2. /\ list' \in Seq(Nat) /\ Len(list') = Len(shifted)
          /\ \A p \in 1 .. Len(shifted) : list'[p] = IF p = o THEN r ELSE shifted[p]
      BY <1>4, <2>2, <3>1, ExceptSeq
    <3> QED BY <1>4, <3>1, <3>2
  <2> QED BY <1>5, <2>1, <2>2
<1>7. /\ ptr' \in Seq(1 .. new) /\ Len(ptr') = new
      /\ \A i \in 1 .. new : ptr'[i] = IF i < r THEN rows[i]
                                     ELSE IF i = r THEN new ELSE rows[i - 1]
  <2>1. rows \in Seq(1 .. new) /\ r \in 1 .. Len(rows) + 1 /\ new \in 1 .. new
    <3>1. 1 .. Len(member) \subseteq 1 .. new
      BY <1>1
    <3> QED BY <1>1, <3>1, SeqMonotonic
  <2>2. Len(rows) + 1 = new
    OBVIOUS
  <2> DEFINE S == 1 .. new
  <2> HIDE DEF S, new
  <2>3. /\ InsertAt(rows, r, new) \in Seq(S)
        /\ Len(InsertAt(rows, r, new)) = Len(rows) + 1
        /\ \A i \in 1 .. Len(rows) + 1 :
              InsertAt(rows, r, new)[i] = IF i < r THEN rows[i]
                                          ELSE IF i = r THEN new ELSE rows[i - 1]
    <3>1. rows \in Seq(S) /\ r \in 1 .. Len(rows) + 1 /\ new \in S
      BY <2>1 DEF S
    <3> QED BY ONLY <3>1, InsertAtProperties
  <2> QED BY <1>3, <2>2, <2>3 DEF S
<1>8. \A i \in 1 .. Len(member) : rows[i] \in 1 .. Len(member)
  BY ElementOfSeq
<1>9. EndRow' = new + 1
  BY <1>3, <1>7 DEF EndRow, TargetRows
<1> HIDE DEF EndRow
<1>10. TypeOK'
  <2>1. present' \in BOOLEAN /\ indirect' \in BOOLEAN /\ addingOwner' \in BOOLEAN
    BY <1>3, Zenon DEF IInv, TypeOK
  <2>2. Len(list') <= MaxOwners
    BY <1>6 DEF IInv, TypeOK
  <2> QED BY <1>2, <1>6, <1>7, <2>1, <2>2 DEF TypeOK
<1>11. ListColumnsInTable'
  BY <1>1, <1>6, <1>9 DEF ListColumnsInTable
<1>12. PtrIsPermutation'
  <2>1. \A i, j \in 1 .. new :
           InsertAt(rows, r, new)[i] = InsertAt(rows, r, new)[j] => i = j
    BY <1>1, InsertKeepsDistinct
  <2> QED BY <1>2, <1>3, <1>7, <2>1 DEF PtrIsPermutation
<1> QED BY <1>10, <1>11, <1>12 DEF IInv, AbsentIsEmpty

(* A list column with one more owner.                                       *)
LEMMA InsertedOwner ==
    ASSUME NEW l \in Seq(Nat), NEW o \in 1 .. Len(l) + 1, NEW start \in Nat
    PROVE  LET c == InsertAt(l, o, start)
           IN  /\ c \in Seq(Nat) /\ Len(c) = Len(l) + 1
               /\ \A i \in 1 .. Len(l) + 1 :
                     /\ i < o => i \in 1 .. Len(l) /\ c[i] = l[i]
                     /\ i = o => c[i] = start
                     /\ i > o => i - 1 \in 1 .. Len(l) /\ c[i] = l[i - 1]
<1> DEFINE S == Nat
           c == InsertAt(l, o, start)
<1> HIDE DEF S
<1>1. l \in Seq(S) /\ start \in S /\ Len(l) \in Nat /\ o \in 1 .. Len(l) + 1
  BY DEF S
<1>2. c \in Seq(S) /\ Len(c) = Len(l) + 1
  BY <1>1, InsertAtProperties
<1>3. \A i \in 1 .. Len(l) + 1 :
         c[i] = IF i < o THEN l[i] ELSE IF i = o THEN start ELSE l[i - 1]
  BY <1>1, InsertAtProperties
<1>4. \A i \in 1 .. Len(l) + 1 : /\ i < o => i \in 1 .. Len(l)
                                 /\ i > o => i - 1 \in 1 .. Len(l)
  BY <1>1
<1> HIDE DEF c
<1>5. \A i \in 1 .. Len(l) + 1 : /\ i < o => c[i] = l[i]
                                 /\ i = o => c[i] = start
                                 /\ i > o => c[i] = l[i - 1]
  BY <1>1, <1>3
<1>6. c \in Seq(Nat)
  BY <1>2 DEF S
<1>7. \A i \in 1 .. Len(l) + 1 :
         /\ i < o => i \in 1 .. Len(l) /\ c[i] = l[i]
         /\ i = o => c[i] = start
         /\ i > o => i - 1 \in 1 .. Len(l) /\ c[i] = l[i - 1]
  BY <1>4, <1>5, Zenon
<1> QED BY <1>2, <1>6, <1>7, Zenon DEF c

(* A new owner whose list column lies inside the table.                     *)
LEMMA NewOwnerKeepsIInv ==
    ASSUME IInv, NEW o \in 1 .. Len(list) + 1, NEW start \in 0 .. EndRow,
           Len(list) < MaxOwners,
           list' = InsertAt(list, o, start), addingOwner' = TRUE,
           UNCHANGED <<member, ptr, present, indirect, addingMember>>
    PROVE  IInv'
<1>1. /\ EndRow \in Nat /\ Len(list) \in Nat
      /\ \A p \in 1 .. Len(list) : list[p] \in 0 .. EndRow
  BY TableBounds
<1>2. EndRow' = EndRow
  BY DEF EndRow, TargetRows
<1> HIDE DEF EndRow
<1>3. list \in Seq(Nat) /\ start \in Nat /\ o \in 1 .. Len(list) + 1
  BY <1>1 DEF IInv, TypeOK
<1>4. /\ list' \in Seq(Nat) /\ Len(list') = Len(list) + 1
      /\ \A p \in 1 .. Len(list) + 1 :
            /\ p < o => p \in 1 .. Len(list) /\ list'[p] = list[p]
            /\ p = o => list'[p] = start
            /\ p > o => p - 1 \in 1 .. Len(list) /\ list'[p] = list[p - 1]
  <2> DEFINE c == InsertAt(list, o, start)
  <2>1. list' = c
    OBVIOUS
  <2>2. /\ c \in Seq(Nat) /\ Len(c) = Len(list) + 1
        /\ \A i \in 1 .. Len(list) + 1 :
              /\ i < o => i \in 1 .. Len(list) /\ c[i] = list[i]
              /\ i = o => c[i] = start
              /\ i > o => i - 1 \in 1 .. Len(list) /\ c[i] = list[i - 1]
    BY <1>3, InsertedOwner
  <2> HIDE DEF c
  <2> QED BY <2>1, <2>2
<1>5. ListColumnsInTable'
  <2> SUFFICES ASSUME NEW p \in 1 .. Len(list) + 1 PROVE list'[p] <= EndRow
    BY <1>2, <1>4 DEF ListColumnsInTable
  <2>1. CASE p < o
    <3>1. p \in 1 .. Len(list) /\ list'[p] = list[p]
      BY <1>4, <2>1
    <3> QED BY <1>1, <3>1
  <2>2. CASE p = o
    BY <1>1, <1>4, <2>2
  <2>3. CASE p > o
    <3>1. p - 1 \in 1 .. Len(list) /\ list'[p] = list[p - 1]
      BY <1>4, <2>3
    <3> QED BY <1>1, <3>1
  <2> QED BY <1>1, <2>1, <2>2, <2>3
<1>6. TypeOK'
  <2>1. Len(list') <= MaxOwners
    BY <1>1, <1>4, SizeAssumption
  <2>2. /\ member' \in Seq(SortValues) /\ Len(member') <= MaxMembers
        /\ ptr' \in Seq(1 .. Len(member'))
    BY DEF IInv, TypeOK
  <2>3. /\ present' \in BOOLEAN /\ indirect' \in BOOLEAN
        /\ addingOwner' \in BOOLEAN /\ addingMember' \in BOOLEAN
    BY Zenon DEF IInv, TypeOK
  <2> QED BY <1>4, <2>1, <2>2, <2>3 DEF TypeOK
<1>7. PtrIsPermutation' /\ AbsentIsEmpty'
  BY DEF IInv, PtrIsPermutation, AbsentIsEmpty
<1> QED BY <1>5, <1>6, <1>7 DEF IInv

LEMMA AppendIsInsertAt ==
    ASSUME NEW S, NEW s \in Seq(S), NEW e \in S
    PROVE  Append(s, e) = InsertAt(s, Len(s) + 1, e)
<1>1. Len(s) \in Nat /\ Len(s) + 1 \in 1 .. Len(s) + 1
  OBVIOUS
<1>2. /\ Append(s, e) \in Seq(S) /\ Len(Append(s, e)) = Len(s) + 1
      /\ \A i \in 1 .. Len(s) + 1 :
            Append(s, e)[i] = IF i = Len(s) + 1 THEN e ELSE s[i]
  OBVIOUS
<1> DEFINE t == InsertAt(s, Len(s) + 1, e)
<1>3. /\ t \in Seq(S) /\ Len(t) = Len(s) + 1
      /\ \A i \in 1 .. Len(s) + 1 :
            t[i] = IF i < Len(s) + 1 THEN s[i]
                   ELSE IF i = Len(s) + 1 THEN e ELSE s[i - 1]
  BY <1>1, InsertAtProperties
<1> HIDE DEF t
<1>4. \A i \in 1 .. Len(s) + 1 : Append(s, e)[i] = t[i]
  BY <1>1, <1>2, <1>3
<1>5. Append(s, e) = t
  BY <1>2, <1>3, <1>4, SeqEqual
<1> QED BY <1>5 DEF t

(* The indirection table as it is created stands for every member once.     *)
LEMMA FilledIndirection ==
    ASSUME IInv
    PROVE  LET rows == create_and_fill_indirect_table
           IN  /\ rows \in Seq(1 .. Len(member)) /\ Len(rows) = Len(member)
               /\ \A i, j \in 1 .. Len(rows) : rows[i] = rows[j] => i = j
<1> DEFINE rows == create_and_fill_indirect_table
<1>1. Len(member) \in Nat
  BY TableBounds
<1>2. /\ rows \in [1 .. Len(member) -> 1 .. Len(member)]
      /\ \A i \in 1 .. Len(member) : rows[i] = i
  BY <1>1 DEF create_and_fill_indirect_table
<1> HIDE DEF rows
<1>3. rows \in Seq(1 .. Len(member)) /\ Len(rows) = Len(member)
  BY <1>1, <1>2, FunctionIsSequence
<1> QED BY <1>2, <1>3 DEF rows

(* Adding a member where the list can be read.                              *)
LEMMA AddKeepsIInv ==
    ASSUME IInv, NEW o \in 1 .. Len(list), NEW v \in SortValues,
           NEW r \in 1 .. EndRow, CanReadList(o),
           ~present => r = EndRow,
           add_new_row_to_list(o, r, v), present' = TRUE, UNCHANGED addingOwner
    PROVE  IInv'
<1>1. CASE indirect
  <2>1. insert_indirect(o, r, ptr, v) /\ present
    BY <1>1 DEF add_new_row_to_list, IInv, AbsentIsEmpty
  <2>2. /\ ptr \in Seq(1 .. Len(member)) /\ Len(ptr) = Len(member)
        /\ \A i, j \in 1 .. Len(ptr) : ptr[i] = ptr[j] => i = j
    BY <1>1 DEF IInv, TypeOK, PtrIsPermutation
  <2> QED BY <2>1, <2>2, InsertKeepsIInv
<1>2. CASE ~indirect /\ r = EndRow
  <2>1. append_to_list(o, v)
    BY <1>2 DEF add_new_row_to_list
  <2> QED BY <1>2, <2>1, AppendKeepsIInv
<1>3. CASE ~indirect /\ r # EndRow
  <2> DEFINE rows == create_and_fill_indirect_table
  <2>1. insert_indirect(o, list[o], rows, v) /\ present
    BY <1>3 DEF add_new_row_to_list
  <2>2. list[o] \in 1 .. EndRow
    BY <2>1, RangeInTable DEF RangeStart
  <2>3. /\ rows \in Seq(1 .. Len(member)) /\ Len(rows) = Len(member)
        /\ \A i, j \in 1 .. Len(rows) : rows[i] = rows[j] => i = j
    BY FilledIndirection
  <2> HIDE DEF rows
  <2> QED BY <2>1, <2>2, <2>3, InsertKeepsIInv
<1> QED BY <1>1, <1>2, <1>3

LEMMA RefusedKeepsIInv ==
    ASSUME IInv, NEW o \in 1 .. Len(list), refused_add_to_list(o)
    PROVE  IInv'
<1>1. /\ ~indirect /\ present
      /\ ptr' = create_and_fill_indirect_table /\ indirect' = TRUE
      /\ UNCHANGED <<list, member, present, addingOwner, addingMember>>
  <2>1. CanReadList(o)
    BY DEF refused_add_to_list
  <2>2. ASSUME ~present PROVE FALSE
    <3>1. RangeEnd(o) = 1 /\ EndRow = 1
      BY <2>1, <2>2, RangeInTable
    <3>2. ASSUME NEW v \in SortValues PROVE SortedPosition(o, v) = 1
      <4>1. SortedPosition(o, v) \in 1 .. EndRow
        BY <2>1, SortedPositionInTable
      <4> QED BY <3>1, <4>1
    <3>3. PICK r \in {RangeEnd(o)} \cup {SortedPosition(o, v) : v \in SortValues} : r # EndRow
      BY Zenon DEF refused_add_to_list
    <3> QED BY <3>1, <3>2, <3>3
  <2> QED BY <2>2, Zenon DEF refused_add_to_list
<1>2. /\ ptr' \in Seq(1 .. Len(member)) /\ Len(ptr') = Len(member)
      /\ \A i, j \in 1 .. Len(ptr') : ptr'[i] = ptr'[j] => i = j
  BY <1>1, FilledIndirection
<1>3. TypeOK'
  <2>1. /\ present' \in BOOLEAN /\ indirect' \in BOOLEAN
        /\ addingOwner' \in BOOLEAN /\ addingMember' \in BOOLEAN
    BY <1>1, Zenon DEF IInv, TypeOK
  <2> QED BY <1>1, <1>2, <2>1 DEF IInv, TypeOK
<1>4. EndRow = Len(member) + 1
  BY TableBounds
<1>5. EndRow' = Len(member) + 1
  BY <1>1, <1>2 DEF EndRow, TargetRows
<1>6. ListColumnsInTable'
  BY <1>1, <1>4, <1>5 DEF IInv, ListColumnsInTable
<1>7. PtrIsPermutation' /\ AbsentIsEmpty'
  BY <1>1, <1>2 DEF PtrIsPermutation, AbsentIsEmpty
<1> QED BY <1>3, <1>6, <1>7 DEF IInv
----------------------------------------------------------------------------
LEMMA InitIInv == Init => IInv
<1> SUFFICES ASSUME Init PROVE IInv
  OBVIOUS
<1>1. addingOwner \in BOOLEAN /\ addingMember \in BOOLEAN
  BY Zenon DEF Init
<1>2. CASE NewImage
  <2>1. /\ member = << >> /\ ptr = << >> /\ list \in {<< >>, <<0>>}
        /\ present = FALSE /\ indirect = FALSE
    BY <1>2, Zenon DEF NewImage
  <2>2. /\ list \in Seq(Nat) /\ Len(list) <= 1
        /\ \A o \in 1 .. Len(list) : list[o] = 0
    <3>1. CASE list = << >>
      BY <3>1
    <3>2. CASE list = <<0>>
      <4>1. list \in Seq(Nat) /\ Len(list) = 1 /\ list[1] = 0
        BY <3>2
      <4>2. \A o \in 1 .. 1 : o = 1
        OBVIOUS
      <4> QED BY <4>1, <4>2
    <3> QED BY <2>1, <3>1, <3>2
  <2>3. EndRow = 1
    BY <2>1 DEF EndRow, TargetRows
  <2>4. TypeOK
    <3>1. Len(list) <= MaxOwners
      BY <2>2, SizeAssumption
    <3>2. present \in BOOLEAN /\ indirect \in BOOLEAN
      BY <2>1, Zenon
    <3>3. /\ member \in Seq(SortValues) /\ Len(member) <= MaxMembers
          /\ ptr \in Seq(1 .. Len(member))
      BY <2>1, SizeAssumption
    <3> QED BY <1>1, <2>2, <3>1, <3>2, <3>3 DEF TypeOK
  <2>5. ListColumnsInTable
    BY <2>2, <2>3 DEF ListColumnsInTable
  <2>6. PtrIsPermutation
    BY <2>1 DEF PtrIsPermutation
  <2> QED BY <2>1, <2>4, <2>5, <2>6 DEF IInv, AbsentIsEmpty
<1>3. CASE LoadedImage
  <2>1. /\ member \in Seq(SortValues) /\ Len(member) <= MaxMembers /\ Len(member) \in Nat
    BY <1>3, BoundedSequences, SizeAssumption DEF LoadedImage
  <2>2. present \in BOOLEAN /\ indirect \in BOOLEAN /\ (indirect => present)
    <3>1. present = (member # << >>) /\ indirect \in {FALSE, present}
      BY <1>3 DEF LoadedImage
    <3> QED BY <3>1, Zenon
  <2>3. /\ ptr \in Seq(1 .. Len(member))
        /\ Len(ptr) = IF indirect THEN Len(member) ELSE 0
        /\ \A i, j \in 1 .. Len(ptr) : ptr[i] = ptr[j] => i = j
    <3>1. CASE indirect
      <4>1. /\ ptr \in [1 .. Len(member) -> 1 .. Len(member)]
            /\ \A i, j \in 1 .. Len(member) : ptr[i] = ptr[j] => i = j
        BY <1>3, <3>1 DEF LoadedImage
      <4>2. ptr \in Seq(1 .. Len(member)) /\ Len(ptr) = Len(member)
        BY <2>1, <4>1, FunctionIsSequence
      <4> QED BY <3>1, <4>1, <4>2
    <3>2. CASE ~indirect
      BY <1>3, <3>2 DEF LoadedImage
    <3> QED BY <3>1, <3>2
  <2>4. /\ list \in Seq(1 .. Len(member) + 1) /\ Len(list) <= MaxOwners
    BY <1>3, BoundedSequences, SizeAssumption DEF LoadedImage
  <2>5. /\ list \in Seq(Nat)
        /\ \A o \in 1 .. Len(list) : list[o] \in 1 .. Len(member) + 1
    <3>1. 1 .. Len(member) + 1 \subseteq Nat
      BY <2>1
    <3> QED BY <2>4, <3>1, SeqMonotonic, ElementOfSeq
  <2>6. TypeOK
    BY <1>1, <2>1, <2>2, <2>3, <2>4, <2>5 DEF TypeOK
  <2>7. EndRow = Len(member) + 1
    BY <2>3 DEF EndRow, TargetRows
  <2>8. ListColumnsInTable
    BY <2>1, <2>5, <2>7 DEF ListColumnsInTable
  <2>9. PtrIsPermutation
    BY <2>3 DEF PtrIsPermutation
  <2>10. AbsentIsEmpty
    BY <1>3, <2>2 DEF LoadedImage, AbsentIsEmpty
  <2> QED BY <2>6, <2>8, <2>9, <2>10 DEF IInv
<1> QED BY <1>2, <1>3 DEF Init

LEMMA StepKeepsIInv == IInv /\ [Next]_vars => IInv'
<1> SUFFICES ASSUME IInv, [Next]_vars PROVE IInv'
  OBVIOUS
<1>1. ASSUME NEW o \in 1 .. Len(list), md_add_new_row_to_list(o)
      PROVE  IInv'
  <2>1. /\ CanReadList(o) /\ add_new_row_to_list(o, RangeEnd(o), 0)
        /\ present' = TRUE /\ UNCHANGED addingOwner
    BY <1>1 DEF md_add_new_row_to_list
  <2>2. RangeEnd(o) \in 1 .. EndRow /\ (~present => RangeEnd(o) = EndRow)
    BY <2>1, RangeInTable
  <2> QED BY <2>1, <2>2, AddKeepsIInv, SortAssumption
<1>2. ASSUME NEW o \in 1 .. Len(list), NEW v \in SortValues,
             md_add_new_row_to_sorted_list(o, v)
      PROVE  IInv'
  <2>1. /\ CanReadList(o) /\ add_new_row_to_list(o, SortedPosition(o, v), v)
        /\ present' = TRUE /\ UNCHANGED addingOwner
    BY <1>2 DEF md_add_new_row_to_sorted_list
  <2>2. SortedPosition(o, v) \in 1 .. EndRow
    BY <2>1, SortedPositionInTable
  <2>3. ~present => SortedPosition(o, v) = EndRow
    BY <2>1, <2>2, RangeInTable
  <2> QED BY <2>1, <2>2, <2>3, AddKeepsIInv
<1>3. ASSUME NEW o \in 1 .. Len(list), refused_add_to_list(o)
      PROVE  IInv'
  BY <1>3, RefusedKeepsIInv
<1>4. ASSUME NEW o \in 1 .. Len(list), md_insert_row_before(o)
      PROVE  IInv'
  <2>1. list[o] \in 0 .. EndRow /\ o \in 1 .. Len(list) + 1
    BY TableBounds
  <2> QED BY <1>4, <2>1, NewOwnerKeepsIInv DEF md_insert_row_before
<1>5. CASE md_append_row
  <2> DEFINE start == set_column_as_end_of_table_cursor
  <2>1. EndRow \in Nat /\ Len(list) + 1 \in 1 .. Len(list) + 1
    BY TableBounds
  <2>2. start \in 0 .. EndRow
    BY <2>1 DEF set_column_as_end_of_table_cursor
  <2>3. list \in Seq(Nat) /\ start \in Nat
    BY <2>1, <2>2 DEF IInv, TypeOK
  <2>4. list' = Append(list, start)
    BY <1>5 DEF md_append_row
  <2> HIDE DEF start
  <2>5. list' = InsertAt(list, Len(list) + 1, start)
    BY <2>3, <2>4, AppendIsInsertAt
  <2> QED BY <1>5, <2>1, <2>2, <2>5, NewOwnerKeepsIInv DEF md_append_row
<1>6. CASE md_commit_member \/ md_commit_owner
  <2>1. UNCHANGED <<list, member, ptr, present, indirect>>
    BY <1>6 DEF md_commit_member, md_commit_owner, tables
  <2>2. addingOwner' \in BOOLEAN /\ addingMember' \in BOOLEAN
    BY <1>6, Zenon DEF md_commit_member, md_commit_owner, IInv, TypeOK
  <2>3. TypeOK'
    BY <2>1, <2>2 DEF IInv, TypeOK
  <2>4. ListColumnsInTable' /\ PtrIsPermutation' /\ AbsentIsEmpty'
    BY <2>1 DEF IInv, ListColumnsInTable, PtrIsPermutation, AbsentIsEmpty,
                EndRow, TargetRows
  <2> QED BY <2>3, <2>4 DEF IInv
<1>7. CASE UNCHANGED vars
  BY <1>7 DEF vars, IInv, TypeOK, ListColumnsInTable, PtrIsPermutation, AbsentIsEmpty,
              EndRow, TargetRows
<1> QED BY <1>1, <1>2, <1>3, <1>4, <1>5, <1>6, <1>7 DEF Next, AddMember

(* The tables keep their types under any sequence of calls.                 *)
THEOREM TypeCorrect == Spec => []TypeOK
<1>1. IInv => TypeOK
  BY DEF IInv
<1> QED BY <1>1, InitIInv, StepKeepsIInv, PTL DEF Spec

(* No list column ever points past the end of the table it refers to, for   *)
(* any number of owners and members and any caller (query.c:5, 167).        *)
THEOREM ColumnsStayInTable == Spec => []ListColumnsInTable
<1>1. IInv => ListColumnsInTable
  BY DEF IInv
<1> QED BY <1>1, InitIInv, StepKeepsIInv, PTL DEF Spec

(* The indirection table stands for every member exactly once, for any      *)
(* caller (editor.c:75, write.c:659).                                       *)
THEOREM IndirectionIsPermutation == Spec => []PtrIsPermutation
<1>1. IInv => PtrIsPermutation
  BY DEF IInv
<1> QED BY <1>1, InitIInv, StepKeepsIInv, PTL DEF Spec

(* No step changes or removes a member: tokens stay valid (dnmd.h:531).     *)
THEOREM MembersKeepTheirRows == Spec => MembersNeverMove
<1>1. ASSUME IInv, [Next]_vars
      PROVE  [IsPrefix(member, member')]_vars
  <2>1. member \in Seq(SortValues) /\ Len(member) \in Nat
    BY <1>1 DEF IInv, TypeOK
  <2>2. ASSUME NEW v \in SortValues, append_member(v)
        PROVE  IsPrefix(member, member')
    <3>1. /\ member' \in Seq(SortValues) /\ Len(member') = Len(member) + 1
          /\ \A i \in 1 .. Len(member) : member'[i] = member[i]
      BY <2>1, <2>2 DEF append_member
    <3>2. SubSeq(member, 1, Len(member)) = SubSeq(member', 1, Len(member))
      BY <2>1, <3>1
    <3> QED BY <2>1, <3>1, <3>2 DEF IsPrefix
  <2>3. ASSUME UNCHANGED member
        PROVE  IsPrefix(member, member')
    BY <2>1, <2>3 DEF IsPrefix
  <2>4. ASSUME NEW o \in 1 .. Len(list), NEW v \in SortValues, NEW r,
               add_new_row_to_list(o, r, v)
        PROVE  append_member(v)
    BY <2>4 DEF add_new_row_to_list, insert_indirect, append_to_list
  <2>5. ASSUME NEW o \in 1 .. Len(list), AddMember(o)
        PROVE  IsPrefix(member, member')
    <3>1. 0 \in SortValues
      BY SortAssumption
    <3> QED BY <2>2, <2>4, <2>5, <3>1
            DEF AddMember, md_add_new_row_to_list, md_add_new_row_to_sorted_list
  <2>6. ASSUME NEW o \in 1 .. Len(list), refused_add_to_list(o) \/ md_insert_row_before(o)
        PROVE  UNCHANGED member
    BY <2>6 DEF refused_add_to_list, md_insert_row_before
  <2>7. ASSUME md_append_row \/ md_commit_member \/ md_commit_owner
        PROVE  UNCHANGED member
    BY <2>7 DEF md_append_row, md_commit_member, md_commit_owner, tables
  <2> QED BY <1>1, <2>3, <2>5, <2>6, <2>7 DEF Next
<1> QED BY <1>1, InitIInv, StepKeepsIInv, PTL DEF Spec, MembersNeverMove
----------------------------------------------------------------------------
(* Disciplined callers keep the list column ascending.                      *)

DInv == /\ IInv /\ ListsAscend
        /\ present /\ list # << >> /\ member # << >>

LEMMA DInvFacts ==
    ASSUME DInv
    PROVE  /\ Len(list) \in Nat \ {0} /\ Len(member) \in Nat \ {0}
           /\ EndRow = Len(member) + 1 /\ EndRow \in Nat
           /\ \A o \in 1 .. Len(list) : list[o] \in 1 .. EndRow
           /\ list[1] = 1
           /\ \A i, j \in 1 .. Len(list) : i <= j => list[i] <= list[j]
           /\ \A o \in 1 .. Len(list) : CanReadList(o) /\ RangeStart(o) = list[o]
<1>1. IInv /\ ListsAscend /\ present
  BY DEF DInv
<1>2. /\ Len(list) \in Nat /\ Len(member) \in Nat
      /\ EndRow = Len(member) + 1
      /\ \A o \in 1 .. Len(list) : list[o] \in 0 .. EndRow
  BY <1>1, TableBounds
<1>3. Len(list) # 0 /\ Len(member) # 0
  BY DEF DInv, IInv, TypeOK
<1>4. /\ \A o \in 1 .. Len(list) : list[o] >= 1
      /\ list[1] = 1
      /\ \A i, j \in 1 .. Len(list) : i <= j => list[i] <= list[j]
  BY DEF DInv, ListsAscend, Ascending
<1> HIDE DEF EndRow
<1>5. \A o \in 1 .. Len(list) : list[o] \in 1 .. EndRow
  BY <1>2, <1>4
<1>6. \A o \in 1 .. Len(list) : CanReadList(o) /\ RangeStart(o) = list[o]
  BY <1>1, <1>2, <1>4 DEF CanReadList, RangeStart
<1> QED BY <1>2, <1>3, <1>4, <1>5, <1>6

(* What is left to show of the new list column in each case.                *)
LEMMA AscendingColumn ==
    ASSUME NEW c \in Seq(Nat), Len(c) > 0, c[1] = 1,
           \A i, j \in 1 .. Len(c) : i <= j => c[i] <= c[j],
           list' = c
    PROVE  ListsAscend'
<1>1. \A i \in 1 .. Len(c) : c[i] \in Nat /\ 1 \in 1 .. Len(c) /\ 1 <= i
  OBVIOUS
<1>2. \A i \in 1 .. Len(c) : c[i] >= 1
  BY <1>1
<1> QED BY <1>2 DEF ListsAscend, Ascending

(* Appending to the target table: the empty lists up to o start at the new  *)
(* row, all later lists after it.                                           *)
LEMMA AppendKeepsAscending ==
    ASSUME DInv, NEW o \in 1 .. Len(list), NEW v,
           append_to_list(o, v), RangeCount(o) = 0 => list[o] = EndRow,
           list' \in Seq(Nat), Len(list') = Len(list)
    PROVE  ListsAscend'
<1> DEFINE new     == Len(member) + 1
           shifted == update_shifted_row_references(new)
<1>1. /\ Len(list) \in Nat \ {0} /\ new \in Nat /\ new > 1 /\ EndRow = new
      /\ \A p \in 1 .. Len(list) : list[p] \in 1 .. new
      /\ list[1] = 1
      /\ \A i, j \in 1 .. Len(list) : i <= j => list[i] <= list[j]
  BY DInvFacts
<1>2. \A p \in 1 .. Len(list) :
         shifted[p] = IF list[p] = new THEN new + 1 ELSE list[p]
  BY <1>1 DEF update_shifted_row_references
<1>3. list' = IF RangeCount(o) # 0 THEN shifted
              ELSE [p \in 1 .. Len(list) |->
                      IF p \in SameStart(shifted, o) THEN new ELSE shifted[p]]
  BY DEF append_to_list
<1> HIDE DEF shifted
<1>4. CASE RangeCount(o) # 0
  <2>1. list' = shifted
    BY <1>3, <1>4
  <2>2. \A i, j \in 1 .. Len(list) : i <= j => list'[i] <= list'[j]
    BY <1>1, <1>2, <2>1
  <2>3. list'[1] = 1
    BY <1>1, <1>2, <2>1
  <2> QED BY <1>1, <2>2, <2>3, AscendingColumn
<1>5. CASE RangeCount(o) = 0
  <2>1. list[o] = new
    BY <1>1, <1>5
  <2>2. \A p \in 1 .. Len(list) : p <= o => list'[p] = list[p]
    <3> SUFFICES ASSUME NEW p \in 1 .. Len(list), p <= o PROVE list'[p] = list[p]
      OBVIOUS
    <3>1. CASE list[p] = new
      <4>1. \A q \in p .. o : q \in 1 .. Len(list) /\ list[q] = new
        BY <1>1, <2>1, <3>1
      <4>2. \A q \in p .. o : shifted[q] = shifted[o]
        BY <1>2, <2>1, <4>1
      <4>3. p \in SameStart(shifted, o)
        BY <4>2 DEF SameStart
      <4> QED BY <1>3, <1>5, <3>1, <4>3
    <3>2. CASE list[p] # new
      <4>1. shifted[p] # shifted[o]
        BY <1>1, <1>2, <2>1, <3>2
      <4>2. p \in p .. o
        OBVIOUS
      <4>3. p \notin SameStart(shifted, o)
        BY <4>1, <4>2 DEF SameStart
      <4> QED BY <1>2, <1>3, <1>5, <3>2, <4>3
    <3> QED BY <3>1, <3>2
  <2>3. \A p \in 1 .. Len(list) : p > o => list'[p] = new + 1
    <3> SUFFICES ASSUME NEW p \in 1 .. Len(list), p > o PROVE list'[p] = new + 1
      OBVIOUS
    <3>1. list[p] = new
      BY <1>1, <2>1
    <3>2. p \notin SameStart(shifted, o)
      BY DEF SameStart
    <3> QED BY <1>2, <1>3, <1>5, <3>1, <3>2
  <2>4. \A i, j \in 1 .. Len(list) : i <= j => list'[i] <= list'[j]
    <3> SUFFICES ASSUME NEW i \in 1 .. Len(list), NEW j \in 1 .. Len(list), i <= j
                 PROVE  list'[i] <= list'[j]
      OBVIOUS
    <3>1. CASE j <= o
      BY <1>1, <2>2, <3>1
    <3>2. CASE i <= o /\ j > o
      BY <1>1, <2>2, <2>3, <3>2
    <3>3. CASE i > o
      BY <1>1, <2>3, <3>3
    <3> QED BY <3>1, <3>2, <3>3
  <2>5. list'[1] = 1
    BY <1>1, <2>2
  <2> QED BY <1>1, <2>4, <2>5, AscendingColumn
<1> QED BY <1>4, <1>5

(* Inserting into the indirection: where the new row becomes the first of   *)
(* its list, no earlier list starts there.                                  *)
LEMMA InsertKeepsAscending ==
    ASSUME DInv, NEW o \in 1 .. Len(list), NEW v, NEW rows, NEW r \in 1 .. EndRow,
           insert_indirect(o, r, rows, v),
           \/ r = list[o] /\ \A p \in 1 .. o - 1 : list[p] # list[o]
           \/ r > list[o] /\ RangeCount(o) # 0,
           list' \in Seq(Nat), Len(list') = Len(list)
    PROVE  ListsAscend'
<1> DEFINE shifted == update_shifted_row_references(r)
<1>1. /\ Len(list) \in Nat \ {0} /\ EndRow \in Nat
      /\ \A p \in 1 .. Len(list) : list[p] \in 1 .. EndRow
      /\ list[1] = 1
      /\ \A i, j \in 1 .. Len(list) : i <= j => list[i] <= list[j]
  BY DInvFacts
<1> HIDE DEF EndRow
<1>2. \A p \in 1 .. Len(list) :
         shifted[p] = IF list[p] >= r THEN list[p] + 1 ELSE list[p]
  BY <1>1 DEF update_shifted_row_references
<1>3. list' = IF RangeCount(o) = 0 \/ list[o] = r
              THEN [shifted EXCEPT ![o] = r] ELSE shifted
  BY DEF insert_indirect
<1>4. DOMAIN shifted = 1 .. Len(list)
  BY DEF update_shifted_row_references
<1> HIDE DEF shifted
<1>5. CASE r > list[o] /\ RangeCount(o) # 0
  <2>1. list' = shifted
    BY <1>1, <1>3, <1>5
  <2>2. \A i, j \in 1 .. Len(list) : i <= j => list'[i] <= list'[j]
    BY <1>1, <1>2, <2>1
  <2>3. list'[1] = 1
    BY <1>1, <1>2, <1>5, <2>1
  <2> QED BY <1>1, <2>2, <2>3, AscendingColumn
<1>6. CASE r = list[o] /\ \A p \in 1 .. o - 1 : list[p] # list[o]
  <2>1. list' = [shifted EXCEPT ![o] = r]
    BY <1>3, <1>6
  <2>2. \A p \in 1 .. Len(list) : p <= o => list'[p] = list[p]
    <3> SUFFICES ASSUME NEW p \in 1 .. Len(list), p <= o PROVE list'[p] = list[p]
      OBVIOUS
    <3>1. CASE p = o
      BY <1>4, <1>6, <2>1, <3>1
    <3>2. CASE p < o
      <4>1. list[p] < r
        BY <1>1, <1>6, <3>2
      <4> QED BY <1>1, <1>2, <1>4, <2>1, <3>2, <4>1
    <3> QED BY <3>1, <3>2
  <2>3. \A p \in 1 .. Len(list) : p > o => list'[p] = list[p] + 1
    <3> SUFFICES ASSUME NEW p \in 1 .. Len(list), p > o PROVE list'[p] = list[p] + 1
      OBVIOUS
    <3>1. list[p] >= r /\ p # o
      BY <1>1, <1>6
    <3> QED BY <1>1, <1>2, <1>4, <2>1, <3>1
  <2>4. \A i, j \in 1 .. Len(list) : i <= j => list'[i] <= list'[j]
    <3> SUFFICES ASSUME NEW i \in 1 .. Len(list), NEW j \in 1 .. Len(list), i <= j
                 PROVE  list'[i] <= list'[j]
      OBVIOUS
    <3>1. CASE j <= o
      BY <1>1, <2>2, <3>1
    <3>2. CASE i <= o /\ j > o
      BY <1>1, <2>2, <2>3, <3>2
    <3>3. CASE i > o
      BY <1>1, <2>3, <3>3
    <3> QED BY <3>1, <3>2, <3>3
  <2>5. list'[1] = 1
    BY <1>1, <2>2
  <2> QED BY <1>1, <2>4, <2>5, AscendingColumn
<1> QED BY <1>5, <1>6

LEMMA AddKeepsLength ==
    ASSUME IInv, NEW o \in 1 .. Len(list), NEW v, NEW r, add_new_row_to_list(o, r, v),
           list' \in Seq(Nat)
    PROVE  Len(list') = Len(list)
<1>1. Len(list) \in Nat
  BY TableBounds
<1>2. DOMAIN list' = 1 .. Len(list)
  BY DEF add_new_row_to_list, append_to_list, insert_indirect,
         update_shifted_row_references
<1>3. list' \in [1 .. Len(list) -> Nat]
  BY <1>2
<1> QED BY <1>1, <1>3, FunctionIsSequence

LEMMA DisciplinedAddKeepsAscending ==
    ASSUME DInv, IInv', NEW o \in 1 .. Len(list), NEW v \in SortValues,
           NEW r \in 1 .. EndRow, Disciplined(o, r),
           r = list[o] \/ (r > list[o] /\ RangeCount(o) # 0),
           add_new_row_to_list(o, r, v)
    PROVE  ListsAscend'
<1>1. list' \in Seq(Nat)
  BY DEF IInv, TypeOK
<1>2. Len(list') = Len(list)
  BY <1>1, AddKeepsLength DEF DInv
<1>3. CASE indirect
  <2>1. insert_indirect(o, r, ptr, v)
    BY <1>3 DEF add_new_row_to_list
  <2>2. r = list[o] => \A p \in 1 .. o - 1 : list[p] # list[o]
    BY <1>3 DEF Disciplined, BecomesFirst
  <2> QED BY <1>1, <1>2, <2>1, <2>2, InsertKeepsAscending
<1>4. CASE ~indirect /\ r = EndRow
  <2>1. append_to_list(o, v)
    BY <1>4 DEF add_new_row_to_list
  <2>2. RangeCount(o) = 0 => list[o] = EndRow
    BY <1>4
  <2> QED BY <1>1, <1>2, <2>1, <2>2, AppendKeepsAscending
<1>5. CASE ~indirect /\ r # EndRow
  <2>1. insert_indirect(o, list[o], create_and_fill_indirect_table, v)
    BY <1>5 DEF add_new_row_to_list
  <2>2. \A p \in 1 .. o - 1 : list[p] # list[o]
    BY <1>5 DEF Disciplined, BecomesFirst
  <2>3. list[o] \in 1 .. EndRow
    BY DInvFacts
  <2> QED BY <1>1, <1>2, <2>1, <2>2, <2>3, InsertKeepsAscending
<1> QED BY <1>3, <1>4, <1>5

LEMMA NewOwnerKeepsAscending ==
    ASSUME DInv, NEW o \in 1 .. Len(list) + 1, NEW start \in 1 .. EndRow,
           \/ o <= Len(list) /\ start = list[o]
           \/ o = Len(list) + 1 /\ start = EndRow,
           NEW c, c = InsertAt(list, o, start), list' = c
    PROVE  ListsAscend' /\ list' # << >>
<1>1. /\ Len(list) \in Nat \ {0} /\ EndRow \in Nat
      /\ \A p \in 1 .. Len(list) : list[p] \in 1 .. EndRow
      /\ list[1] = 1
      /\ \A i, j \in 1 .. Len(list) : i <= j => list[i] <= list[j]
  BY DInvFacts
<1> HIDE DEF EndRow
<1>2. list \in Seq(Nat) /\ start \in Nat /\ o \in 1 .. Len(list) + 1
  BY <1>1 DEF DInv, IInv, TypeOK
<1>3. /\ c \in Seq(Nat) /\ Len(c) = Len(list) + 1
      /\ \A i \in 1 .. Len(list) + 1 :
            /\ i < o => i \in 1 .. Len(list) /\ c[i] = list[i]
            /\ i = o => c[i] = start
            /\ i > o => i - 1 \in 1 .. Len(list) /\ c[i] = list[i - 1]
  BY <1>2, InsertedOwner
<1>4. \A i \in 1 .. Len(list) : /\ i < o => list[i] <= start
                                /\ i >= o => start <= list[i]
  BY <1>1
<1>5. \A i, j \in 1 .. Len(c) : i <= j => c[i] <= c[j]
  <2> SUFFICES ASSUME NEW i \in 1 .. Len(list) + 1, NEW j \in 1 .. Len(list) + 1, i <= j
               PROVE  c[i] <= c[j]
    BY <1>3
  <2>1. CASE j < o
    <3>1. i < o
      BY <1>1, <2>1
    <3>2. i \in 1 .. Len(list) /\ j \in 1 .. Len(list) /\ c[i] = list[i] /\ c[j] = list[j]
      BY <1>3, <2>1, <3>1
    <3> QED BY <1>1, <3>2
  <2>2. CASE i > o
    <3>1. j > o
      BY <1>1, <2>2
    <3>2. /\ i - 1 \in 1 .. Len(list) /\ c[i] = list[i - 1]
          /\ j - 1 \in 1 .. Len(list) /\ c[j] = list[j - 1]
      BY <1>3, <2>2, <3>1
    <3>3. i - 1 <= j - 1
      OBVIOUS
    <3> QED BY <1>1, <3>2, <3>3
  <2>3. CASE i < o /\ j = o
    <3>1. i \in 1 .. Len(list) /\ c[i] = list[i] /\ c[j] = start
      BY <1>3, <2>3
    <3>2. i < o => list[i] <= start
      BY <1>4, <3>1, Zenon
    <3>3. list[i] <= start
      BY <2>3, <3>2
    <3> QED BY <3>1, <3>3
  <2>4. CASE i = o /\ j = o
    BY <1>2, <1>3, <2>4
  <2>5. CASE i = o /\ j > o
    <3>1. j - 1 \in 1 .. Len(list) /\ c[j] = list[j - 1] /\ c[i] = start
      BY <1>3, <2>5
    <3>2. j - 1 >= o
      BY <2>5
    <3> QED BY <1>4, <3>1, <3>2
  <2>6. CASE i < o /\ j > o
    <3>1. /\ i \in 1 .. Len(list) /\ c[i] = list[i]
          /\ j - 1 \in 1 .. Len(list) /\ c[j] = list[j - 1]
      BY <1>3, <2>6
    <3>2. i <= j - 1
      BY <2>6
    <3> QED BY <1>1, <3>1, <3>2
  <2> QED BY <2>1, <2>2, <2>3, <2>4, <2>5, <2>6
<1>6. c[1] = 1
  <2>1. CASE o = 1
    BY <1>1, <1>3, <2>1
  <2>2. CASE o > 1
    BY <1>1, <1>3, <2>2
  <2> QED BY <2>1, <2>2
<1>7. Len(c) > 0
  BY <1>1, <1>3
<1>8. ListsAscend'
  BY <1>3, <1>5, <1>6, <1>7, AscendingColumn
<1> QED BY <1>3, <1>7, <1>8, EmptySeq

LEMMA DisciplinedStepKeepsDInv == DInv /\ [DisciplinedNext]_vars => DInv'
<1> SUFFICES ASSUME DInv, [DisciplinedNext]_vars PROVE DInv'
  OBVIOUS
<1>1. IInv'
  <2>1. DisciplinedNext => Next
    BY DEF DisciplinedNext, DisciplinedAdd, Next, AddMember
  <2> QED BY <2>1, StepKeepsIInv DEF DInv
<1>2. ASSUME NEW o \in 1 .. Len(list), NEW v \in SortValues, NEW r \in 1 .. EndRow,
             Disciplined(o, r),
             r = list[o] \/ (r > list[o] /\ RangeCount(o) # 0),
             add_new_row_to_list(o, r, v), present' = TRUE
      PROVE  DInv'
  <2>1. ListsAscend'
    BY <1>1, <1>2, DisciplinedAddKeepsAscending
  <2>2. list' # << >>
    <3>1. list' \in Seq(Nat)
      BY <1>1 DEF IInv, TypeOK
    <3>2. Len(list') = Len(list) /\ Len(list) # 0
      BY <1>2, <3>1, AddKeepsLength, DInvFacts DEF DInv
    <3> QED BY <3>2, EmptySeq
  <2>3. member' # << >>
    <3>1. member' = Append(member, v)
      BY <1>2 DEF add_new_row_to_list, append_to_list, insert_indirect, append_member
    <3>2. member \in Seq(SortValues)
      BY DEF DInv, IInv, TypeOK
    <3> QED BY <3>1, <3>2
  <2> QED BY <1>1, <1>2, <2>1, <2>2, <2>3 DEF DInv
<1>3. ASSUME NEW o \in 1 .. Len(list), DisciplinedAdd(o)
      PROVE  DInv'
  <2>1. CanReadList(o) /\ RangeStart(o) = list[o] /\ list[o] \in 1 .. EndRow /\ EndRow \in Nat
    BY DInvFacts
  <2>2. ASSUME Disciplined(o, RangeEnd(o)), md_add_new_row_to_list(o)
        PROVE  DInv'
    <3>1. /\ RangeEnd(o) \in 1 .. EndRow
          /\ RangeCount(o) = 0 => RangeEnd(o) = list[o]
      BY <2>1, RangeInTable DEF DInv
    <3>2. RangeEnd(o) = list[o] \/ (RangeEnd(o) > list[o] /\ RangeCount(o) # 0)
      <4>1. CASE RangeCount(o) = 0
        BY <3>1, <4>1
      <4>2. CASE RangeCount(o) # 0
        <5>1. RangeEnd(o) = list[o] + RangeCount(o) /\ RangeCount(o) = NextStart(o) - list[o]
          BY <2>1, <4>2 DEF RangeEnd, RangeCount
        <5>2. NextStart(o) \in Nat /\ NextStart(o) >= list[o]
          <6> DEFINE later == {p \in o + 1 .. Len(list) : list[p] # 0}
          <6>1. CASE later = {}
            BY <2>1, <6>1 DEF NextStart
          <6>2. CASE later # {}
            <7>1. Min(later) \in later
              BY <6>2, MinIsMember
            <7>2. Min(later) \in 1 .. Len(list) /\ o <= Min(later)
              BY <7>1
            <7>3. NextStart(o) = list[Min(later)]
              BY <6>2 DEF NextStart
            <7> HIDE DEF later
            <7> QED BY <7>2, <7>3, DInvFacts
          <6> QED BY <6>1, <6>2
        <5> HIDE DEF EndRow
        <5> QED BY <2>1, <4>2, <5>1, <5>2
      <4> QED BY <4>1, <4>2
    <3>3. /\ add_new_row_to_list(o, RangeEnd(o), 0) /\ present' = TRUE
          /\ 0 \in SortValues
      BY <2>2, SortAssumption DEF md_add_new_row_to_list
    <3> QED BY <1>2, <2>2, <3>1, <3>2, <3>3
  <2>3. ASSUME NEW v \in SortValues, Disciplined(o, SortedPosition(o, v)),
               md_add_new_row_to_sorted_list(o, v)
        PROVE  DInv'
    <3> DEFINE r == SortedPosition(o, v)
    <3>1. r \in 1 .. EndRow /\ (r = list[o] \/ r \in list[o] + 1 .. RangeEnd(o))
      BY <2>1, SortedPositionInTable DEF DInv
    <3>2. r = list[o] \/ (r > list[o] /\ RangeCount(o) # 0)
      <4>1. RangeCount(o) = 0 => RangeEnd(o) = list[o]
        BY <2>1, RangeInTable DEF DInv
      <4> HIDE DEF r
      <4> QED BY <2>1, <3>1, <4>1
    <3>3. add_new_row_to_list(o, r, v) /\ present' = TRUE
      BY <2>3 DEF md_add_new_row_to_sorted_list
    <3> QED BY <1>2, <2>3, <3>1, <3>2, <3>3
  <2> QED BY <1>3, <2>2, <2>3 DEF DisciplinedAdd
<1>4. ASSUME NEW o \in 1 .. Len(list), md_insert_row_before(o)
      PROVE  DInv'
  <2>1. list[o] \in 1 .. EndRow /\ o \in 1 .. Len(list) + 1 /\ o <= Len(list)
    BY DInvFacts
  <2>2. list' = InsertAt(list, o, list[o])
    BY <1>4 DEF md_insert_row_before
  <2>3. ListsAscend' /\ list' # << >>
    BY <2>1, <2>2, NewOwnerKeepsAscending
  <2> QED BY <1>1, <1>4, <2>3 DEF DInv, md_insert_row_before
<1>5. CASE md_append_row
  <2>1. EndRow \in 1 .. EndRow /\ Len(list) + 1 \in 1 .. Len(list) + 1 /\ EndRow \in Nat
    BY DInvFacts
  <2>2. list \in Seq(Nat)
    BY DEF DInv, IInv, TypeOK
  <2>3. list' = Append(list, EndRow)
    BY <1>5 DEF DInv, md_append_row, set_column_as_end_of_table_cursor
  <2> HIDE DEF EndRow
  <2>4. list' = InsertAt(list, Len(list) + 1, EndRow)
    BY <2>1, <2>2, <2>3, AppendIsInsertAt
  <2>5. ListsAscend' /\ list' # << >>
    BY <2>1, <2>4, NewOwnerKeepsAscending
  <2> QED BY <1>1, <1>5, <2>5 DEF DInv, md_append_row
<1>6. ASSUME UNCHANGED <<list, member, present>>
      PROVE  DInv'
  BY <1>1, <1>6 DEF DInv, ListsAscend, Ascending
<1>7. ASSUME NEW o \in 1 .. Len(list), refused_add_to_list(o)
      PROVE  UNCHANGED <<list, member, present>>
  BY <1>7 DEF refused_add_to_list
<1>8. md_commit_member \/ md_commit_owner \/ UNCHANGED vars
         => UNCHANGED <<list, member, present>>
  BY DEF md_commit_member, md_commit_owner, tables, vars
<1> QED BY <1>3, <1>4, <1>5, <1>6, <1>7, <1>8 DEF DisciplinedNext

LEMMA PresentInitDInv == PresentInit => DInv
<1> SUFFICES ASSUME PresentInit PROVE DInv
  OBVIOUS
<1>1. IInv
  BY InitIInv DEF PresentInit
<1>2. LoadedImage /\ present
  BY DEF PresentInit
<1>3. member # << >>
  BY <1>2 DEF LoadedImage
<1>4. /\ list # << >> /\ list[1] = 1 /\ Ascending(list)
      /\ list \in BoundedSeq(1 .. Len(member) + 1, MaxOwners)
  BY <1>2, <1>3 DEF LoadedImage
<1>5. \A o \in 1 .. Len(list) : list[o] >= 1
  <2>1. list \in Seq(1 .. Len(member) + 1)
    BY <1>4, BoundedSequences, SizeAssumption
  <2> QED BY <2>1, ElementOfSeq
<1> QED BY <1>1, <1>2, <1>3, <1>4, <1>5 DEF DInv, ListsAscend

(* For a disciplined caller the list column ascends from 1: every list ends *)
(* where the next begins, no count is negative, and the binary search for   *)
(* the owner of a member has the order it needs (query.c:216-267, 799-850). *)
THEOREM DisciplinedListsAscend == DisciplinedSpec => []ListsAscend
<1>1. DInv => ListsAscend
  BY DEF DInv
<1> QED BY <1>1, PresentInitDInv, DisciplinedStepKeepsDInv, PTL DEF DisciplinedSpec
----------------------------------------------------------------------------
(* Columns and intervals.                                                   *)

(* A list column l of owners of m members.                                  *)
Column(l, m) ==
    /\ l \in Seq(1 .. m + 1) /\ Len(l) > 0
    /\ l[1] = 1
    /\ \A i, j \in 1 .. Len(l) : i <= j => l[i] <= l[j]

(* The row after the interval of owner o.                                   *)
Stop(l, m, o) == IF o < Len(l) THEN l[o + 1] ELSE m + 1

(* The members of owner o, if row r stands for member t[r].                 *)
Walk(l, t, m, o) == [k \in 1 .. Stop(l, m, o) - l[o] |-> t[l[o] + k - 1]]

LEMMA ColumnFacts ==
    ASSUME NEW m \in Nat, NEW l, Column(l, m)
    PROVE  /\ Len(l) \in Nat \ {0}
           /\ \A o \in 1 .. Len(l) : /\ l[o] \in 1 .. m + 1
                                     /\ Stop(l, m, o) \in l[o] .. m + 1
           /\ \A o, p \in 1 .. Len(l) : p < o => Stop(l, m, p) <= l[o]
<1> DEFINE n == Len(l)
<1>1. /\ n \in Nat \ {0}
      /\ \A o \in 1 .. n : l[o] \in 1 .. m + 1
      /\ \A i, j \in 1 .. n : i <= j => l[i] <= l[j]
  BY DEF Column
<1> HIDE DEF n
<1>2. ASSUME NEW o \in 1 .. n PROVE Stop(l, m, o) \in l[o] .. m + 1
  BY <1>1 DEF Stop, n
<1>3. ASSUME NEW o \in 1 .. n, NEW p \in 1 .. n, p < o PROVE Stop(l, m, p) <= l[o]
  BY <1>1, <1>3 DEF Stop, n
<1> QED BY <1>1, <1>2, <1>3 DEF n

(* Every row is in the interval of one owner.                               *)
LEMMA RowHasOwner ==
    ASSUME NEW m \in Nat, NEW l, Column(l, m), NEW r \in 1 .. m
    PROVE  \E o \in 1 .. Len(l) : l[o] <= r /\ r < Stop(l, m, o)
<1> DEFINE n == Len(l)
           T == {o \in 1 .. n : l[o] <= r}
<1>1. /\ n \in Nat \ {0} /\ l[1] = 1
      /\ \A o \in 1 .. n : l[o] \in 1 .. m + 1
  BY ColumnFacts DEF Column
<1>2. 1 \in T /\ T \subseteq 0 .. n
  BY <1>1
<1>3. Max(T) \in T /\ \A o \in T : Max(T) >= o
  <2> HIDE DEF T, n
  <2> QED BY <1>1, <1>2, MaxIsMember
<1> DEFINE o == Max(T)
<1> HIDE DEF o
<1>4. o \in 1 .. n /\ l[o] <= r /\ \A p \in T : o >= p
  BY <1>3 DEF o
<1>5. r < Stop(l, m, o)
  <2>1. CASE o < n
    <3>1. o + 1 \in 1 .. n /\ o + 1 \notin T
      BY <1>1, <1>4, <2>1
    <3>2. l[o + 1] > r
      BY <1>1, <3>1
    <3> QED BY <2>1, <3>2 DEF Stop
  <2>2. CASE ~(o < n)
    BY <1>1, <2>2 DEF Stop
  <2> QED BY <2>1, <2>2
<1> QED BY <1>4, <1>5

LEMMA RowHasOneOwner ==
    ASSUME NEW m \in Nat, NEW l, Column(l, m), NEW r \in 1 .. m,
           NEW o \in 1 .. Len(l), l[o] <= r, r < Stop(l, m, o),
           NEW p \in 1 .. Len(l), l[p] <= r, r < Stop(l, m, p)
    PROVE  o = p
<1>1. /\ \A i \in 1 .. Len(l) : l[i] \in Int /\ Stop(l, m, i) \in Int
      /\ \A i, j \in 1 .. Len(l) : i < j => Stop(l, m, i) <= l[j]
      /\ Len(l) \in Nat
  BY ColumnFacts
<1>2. CASE o < p
  BY <1>1, <1>2
<1>3. CASE p < o
  BY <1>1, <1>3
<1> QED BY <1>1, <1>2, <1>3

(* The walk of an owner visits the rows of its interval.                    *)
VisitsInterval(l, t, m, o) ==
    /\ Walk(l, t, m, o) \in Seq(1 .. m)
    /\ Len(Walk(l, t, m, o)) = Stop(l, m, o) - l[o]
    /\ Stop(l, m, o) - l[o] \in 0 .. m
    /\ \A k \in 1 .. Stop(l, m, o) - l[o] :
          /\ l[o] + k - 1 \in 1 .. m
          /\ l[o] <= l[o] + k - 1 /\ l[o] + k - 1 < Stop(l, m, o)
          /\ Walk(l, t, m, o)[k] = t[l[o] + k - 1]

LEMMA WalkFacts ==
    ASSUME NEW m \in Nat, NEW l, Column(l, m), NEW t \in [1 .. m -> 1 .. m],
           NEW o \in 1 .. Len(l)
    PROVE  VisitsInterval(l, t, m, o)
<1> DEFINE a == l[o]
           z == Stop(l, m, o)
           S == 1 .. m
<1>1. a \in 1 .. m + 1 /\ z \in a .. m + 1
  BY ColumnFacts
<1>2. Walk(l, t, m, o) = [k \in 1 .. z - a |-> t[a + k - 1]]
  BY DEF Walk
<1> HIDE DEF a, z
<1>3. z - a \in 0 .. m /\ \A k \in 1 .. z - a : a + k - 1 \in S /\ a <= a + k - 1 /\ a + k - 1 < z
  BY <1>1
<1>4. [k \in 1 .. z - a |-> t[a + k - 1]] \in [1 .. z - a -> S]
  BY <1>3
<1>5. z - a \in Nat
  BY <1>3
<1> HIDE DEF S
<1>6. /\ [k \in 1 .. z - a |-> t[a + k - 1]] \in Seq(S)
      /\ Len([k \in 1 .. z - a |-> t[a + k - 1]]) = z - a
  BY ONLY <1>4, <1>5, FunctionIsSequence
<1> QED BY <1>2, <1>3, <1>6 DEF VisitsInterval, a, z, S

(* A one-to-one function on 1 .. m reaches every number.                    *)
LEMMA OneToOneIsOnto ==
    ASSUME NEW m \in Nat, NEW t \in [1 .. m -> 1 .. m],
           \A i, j \in 1 .. m : t[i] = t[j] => i = j,
           NEW v \in 1 .. m
    PROVE  \E r \in 1 .. m : t[r] = v
<1> DEFINE S == 1 .. m
<1>1. IsFiniteSet(S)
  BY FS_Interval
<1> HIDE DEF S
<1>2. t \in Injection(S, S)
  BY DEF Injection, IsInjective, S
<1>3. t \in Surjection(S, S)
  BY ONLY <1>1, <1>2, FS_Injection
<1> QED BY <1>3 DEF Surjection, S

(* A place of member v: an owner and a position in its walk.                *)
IsPlace(l, t, m, v, o, k) ==
    /\ o \in 1 .. Len(l) /\ k \in 1 .. Stop(l, m, o) - l[o]
    /\ Walk(l, t, m, o)[k] = v

(* Every member has exactly one place.                                      *)
LEMMA OnePlace ==
    ASSUME NEW m \in Nat, NEW l, Column(l, m), NEW t \in [1 .. m -> 1 .. m],
           \A i, j \in 1 .. m : t[i] = t[j] => i = j,
           NEW v \in 1 .. m
    PROVE  \E o, k : /\ IsPlace(l, t, m, v, o, k)
                     /\ \A p, j : IsPlace(l, t, m, v, p, j) => p = o /\ j = k
<1>1. PICK r \in 1 .. m : t[r] = v
  BY OneToOneIsOnto
<1>2. PICK o \in 1 .. Len(l) : l[o] <= r /\ r < Stop(l, m, o)
  BY RowHasOwner
<1> DEFINE k == r - l[o] + 1
<1>3. \A p \in 1 .. Len(l) :
         \A j \in 1 .. Stop(l, m, p) - l[p] :
            /\ l[p] + j - 1 \in 1 .. m
            /\ l[p] <= l[p] + j - 1 /\ l[p] + j - 1 < Stop(l, m, p)
            /\ Walk(l, t, m, p)[j] = t[l[p] + j - 1]
  <2> TAKE p \in 1 .. Len(l)
  <2>1. VisitsInterval(l, t, m, p)
    BY WalkFacts
  <2> QED BY <2>1 DEF VisitsInterval
<1>4. k \in 1 .. Stop(l, m, o) - l[o] /\ l[o] + k - 1 = r
  <2> DEFINE a == l[o]
             z == Stop(l, m, o)
  <2>1. a \in 1 .. m + 1 /\ z \in a .. m + 1 /\ a <= r /\ r < z
    BY <1>2, ColumnFacts
  <2> HIDE DEF a, z
  <2>2. r - a + 1 \in 1 .. z - a /\ a + (r - a + 1) - 1 = r
    BY <2>1
  <2> QED BY <2>2 DEF a, z
<1>5. IsPlace(l, t, m, v, o, k)
  <2> HIDE DEF k
  <2>1. Walk(l, t, m, o)[k] = t[l[o] + k - 1]
    BY <1>3, <1>4
  <2> QED BY <1>1, <1>4, <2>1 DEF IsPlace
<1>6. ASSUME NEW p, NEW j, IsPlace(l, t, m, v, p, j) PROVE p = o /\ j = k
  <2>1. p \in 1 .. Len(l) /\ j \in 1 .. Stop(l, m, p) - l[p] /\ Walk(l, t, m, p)[j] = v
    BY <1>6 DEF IsPlace
  <2>2. /\ l[p] + j - 1 \in 1 .. m
        /\ l[p] <= l[p] + j - 1 /\ l[p] + j - 1 < Stop(l, m, p)
        /\ Walk(l, t, m, p)[j] = t[l[p] + j - 1]
    BY <1>3, <2>1
  <2>3. l[p] + j - 1 = r
    BY <1>1, <2>1, <2>2
  <2>4. p = o
    <3>1. l[p] <= r /\ r < Stop(l, m, p)
      BY <2>2, <2>3
    <3> QED BY <1>2, <2>1, <3>1, RowHasOneOwner
  <2>5. l[p] \in 1 .. m + 1 /\ Stop(l, m, p) \in 1 .. m + 1
    <3>1. l[p] \in 1 .. m + 1 /\ Stop(l, m, p) \in l[p] .. m + 1
      BY <2>1, ColumnFacts
    <3> QED BY <3>1
  <2>6. j = k
    <3> DEFINE a == l[p]
               z == Stop(l, m, p)
    <3>1. a \in Int /\ z \in Int /\ j \in 1 .. z - a /\ a + j - 1 = r
      BY <2>1, <2>3, <2>5
    <3> HIDE DEF a, z
    <3>2. j = r - a + 1
      BY <3>1
    <3> QED BY <2>4, <3>2 DEF a
  <2> QED BY <2>4, <2>6
<1> HIDE DEF k
<1> QED BY <1>5, <1>6
----------------------------------------------------------------------------
(* The lists of a state.                                                    *)

(* The member that each row stands for which the list column can refer to.  *)
Standin == IF indirect THEN ptr ELSE [r \in 1 .. Len(member) |-> r]

(* The list column is cut into intervals, and the lists are their walks.    *)
WellCut ==
    /\ Len(member) \in Nat /\ Column(list, Len(member))
    /\ Standin \in [1 .. Len(member) -> 1 .. Len(member)]
    /\ \A i, j \in 1 .. Len(member) : Standin[i] = Standin[j] => i = j
    /\ EndRow = Len(member) + 1
    /\ \A o \in 1 .. Len(list) :
          /\ RangeCount(o) = Stop(list, Len(member), o) - list[o]
          /\ ListOf(o) = Walk(list, Standin, Len(member), o)

(* Without a null column a list ends where the next one starts.             *)
LEMMA ListEnds ==
    ASSUME Len(list) \in Nat, NEW o \in 1 .. Len(list),
           \A p \in o + 1 .. Len(list) : list[p] # 0
    PROVE  NextStart(o) = IF o < Len(list) THEN list[o + 1] ELSE EndRow
<1> DEFINE n == Len(list)
           later == {p \in o + 1 .. n : list[p] # 0}
<1>1. later = o + 1 .. n
  OBVIOUS
<1>2. NextStart(o) = IF later = {} THEN EndRow ELSE list[Min(later)]
  BY DEF NextStart
<1> HIDE DEF later
<1>3. CASE o < n
  <2>1. later # {} /\ later \subseteq Nat
    BY <1>1, <1>3
  <2>2. Min(later) \in later /\ \A y \in later : Min(later) <= y
    BY <2>1, MinIsMember
  <2>3. Min(later) = o + 1
    BY <1>1, <1>3, <2>2
  <2> QED BY <1>2, <1>3, <2>1, <2>3
<1>4. CASE ~(o < n)
  <2>1. later = {}
    BY <1>1, <1>4
  <2> QED BY <1>2, <1>4, <2>1
<1> QED BY <1>3, <1>4

LEMMA StateIsWellCut == DInv => WellCut
<1> SUFFICES ASSUME DInv PROVE WellCut
  OBVIOUS
<1> DEFINE n == Len(list)
           m == Len(member)
<1>1. /\ n \in Nat \ {0} /\ m \in Nat \ {0} /\ EndRow = m + 1
      /\ \A o \in 1 .. n : list[o] \in 1 .. m + 1
      /\ list[1] = 1
      /\ \A i, j \in 1 .. n : i <= j => list[i] <= list[j]
  BY DInvFacts
<1>2. Column(list, m)
  <2>1. list \in Seq(Nat)
    BY DEF DInv, IInv, TypeOK
  <2>2. list \in Seq(1 .. m + 1)
    <3> DEFINE S == 1 .. m + 1
    <3>1. list \in [1 .. n -> S]
      BY <1>1, <2>1
    <3> HIDE DEF S
    <3>2. list \in Seq(S)
      BY ONLY <1>1, <3>1, FunctionIsSequence
    <3> QED BY <3>2 DEF S
  <2> QED BY <1>1, <2>2 DEF Column
<1>3. /\ Standin \in [1 .. m -> 1 .. m]
      /\ \A i, j \in 1 .. m : Standin[i] = Standin[j] => i = j
      /\ \A r \in 1 .. m : md_resolve_indirect_cursor(r) = Standin[r]
  <2>1. CASE indirect
    <3>1. ptr \in Seq(1 .. m) /\ Len(ptr) = m
          /\ \A i, j \in 1 .. m : ptr[i] = ptr[j] => i = j
      BY <2>1 DEF DInv, IInv, TypeOK, PtrIsPermutation
    <3>2. Standin = ptr
      BY <2>1 DEF Standin
    <3>3. ptr \in [1 .. m -> 1 .. m]
      BY <3>1
    <3>4. ASSUME NEW r \in 1 .. m PROVE md_resolve_indirect_cursor(r) = ptr[r]
      <4>1. r # EndRow
        BY <1>1
      <4> QED BY <2>1, <4>1 DEF md_resolve_indirect_cursor
    <3> QED BY <3>1, <3>2, <3>3, <3>4
  <2>2. CASE ~indirect
    BY <2>2 DEF Standin, md_resolve_indirect_cursor
  <2> QED BY <2>1, <2>2
<1>4. ASSUME NEW o \in 1 .. n
      PROVE  /\ RangeCount(o) = Stop(list, m, o) - list[o]
             /\ ListOf(o) = Walk(list, Standin, m, o)
  <2> DEFINE a == list[o]
             z == Stop(list, m, o)
  <2>1. a \in 1 .. m + 1 /\ z \in a .. m + 1
    BY <1>1, <1>2, ColumnFacts
  <2>2. NextStart(o) = z
    <3>1. \A p \in o + 1 .. n : list[p] # 0
      BY <1>1
    <3> QED BY <1>1, <3>1, ListEnds DEF Stop
  <2>3. RangeCount(o) = z - a
    <3> HIDE DEF z
    <3>1. RangeCount(o) = IF a \in {0, m + 1} THEN 0 ELSE z - a
      BY <1>1, <2>2 DEF RangeCount
    <3> HIDE DEF a
    <3> QED BY <1>1, <2>1, <3>1
  <2>4. ListOf(o) = [k \in 1 .. z - a |-> Standin[a + k - 1]]
    <3>1. ListOf(o) = [k \in 1 .. RangeCount(o) |-> md_resolve_indirect_cursor(a + k - 1)]
      <4>1. ~(RangeCount(o) < 0)
        BY <1>1, <2>1, <2>3
      <4> QED BY <4>1 DEF ListOf
    <3> HIDE DEF a, z
    <3>2. \A k \in 1 .. z - a : a + k - 1 \in 1 .. m
      BY <1>1, <2>1
    <3>3. \A k \in 1 .. z - a : md_resolve_indirect_cursor(a + k - 1) = Standin[a + k - 1]
      BY <1>3, <3>2
    <3> QED BY <2>3, <3>1, <3>3
  <2> QED BY <2>3, <2>4 DEF Walk
<1> QED BY <1>1, <1>2, <1>3, <1>4 DEF WellCut

LEMMA NextStateIsWellCut == DInv' => WellCut'
BY StateIsWellCut, PTL

(* Whatever a disciplined caller does, every member is in exactly one list, *)
(* at one place.                                                            *)
THEOREM DisciplinedOwnedOnce == DisciplinedSpec => []OwnedOnce
<1>1. DInv => OwnedOnce
  <2> SUFFICES ASSUME DInv, NEW v \in 1 .. Len(member)
               PROVE  Cardinality({w \in (1 .. Len(list)) \X (1 .. Len(member)) :
                                      /\ w[2] <= Len(ListOf(w[1]))
                                      /\ ListOf(w[1])[w[2]] = v}) = 1
    BY DEF OwnedOnce
  <2> DEFINE n == Len(list)
             m == Len(member)
             Places == {w \in (1 .. n) \X (1 .. m) : /\ w[2] <= Len(ListOf(w[1]))
                                                     /\ ListOf(w[1])[w[2]] = v}
  <2>1. WellCut
    BY StateIsWellCut
  <2>2. PICK o, k : /\ IsPlace(list, Standin, m, v, o, k)
                    /\ \A p, j : IsPlace(list, Standin, m, v, p, j) => p = o /\ j = k
    BY <2>1, OnePlace DEF WellCut
  <2>3. \A p \in 1 .. n : /\ ListOf(p) = Walk(list, Standin, m, p)
                          /\ Len(ListOf(p)) = Stop(list, m, p) - list[p]
                          /\ Stop(list, m, p) - list[p] \in 0 .. m
    <3> TAKE p \in 1 .. n
    <3>1. VisitsInterval(list, Standin, m, p)
      BY <2>1, WalkFacts DEF WellCut
    <3> QED BY <2>1, <3>1 DEF VisitsInterval, WellCut
  <2>4. \A p \in 1 .. n : \A j \in 1 .. m :
           <<p, j>> \in Places <=> IsPlace(list, Standin, m, v, p, j)
    <3> TAKE p \in 1 .. n
    <3> TAKE j \in 1 .. m
    <3> DEFINE len == Stop(list, m, p) - list[p]
    <3>1. ListOf(p) = Walk(list, Standin, m, p) /\ Len(ListOf(p)) = len /\ len \in 0 .. m
      BY <2>3
    <3> HIDE DEF len
    <3>2. j \in 1 .. len <=> j <= len
      BY <3>1
    <3> QED BY <3>1, <3>2 DEF IsPlace, len
  <2>5. o \in 1 .. n /\ k \in 1 .. m
    <3> DEFINE len == Stop(list, m, o) - list[o]
    <3>1. o \in 1 .. n /\ k \in 1 .. len
      BY <2>2 DEF IsPlace
    <3>2. len \in 0 .. m
      BY <2>3, <3>1
    <3> HIDE DEF len
    <3> QED BY <2>1, <3>1, <3>2 DEF WellCut
  <2>6. <<o, k>> \in Places
    BY <2>2, <2>4, <2>5
  <2>7. \A w \in Places : w = <<o, k>>
    <3> SUFFICES ASSUME NEW p \in 1 .. n, NEW j \in 1 .. m, <<p, j>> \in Places
                 PROVE  p = o /\ j = k
      OBVIOUS
    <3> QED BY <2>2, <2>4
  <2> HIDE DEF Places
  <2>8. Places = {<<o, k>>}
    BY <2>6, <2>7
  <2>9. Cardinality(Places) = 1
    BY <2>8, FS_Singleton
  <2> QED BY <2>9 DEF Places
<1> QED BY <1>1, PresentInitDInv, DisciplinedStepKeepsDInv, PTL DEF DisciplinedSpec

(* The search for the owner of a row of the table the column points into.   *)
OwnerOfRow(l, r) ==
    LET hit == mdtable_bsearch_closest(r, l)
    IN  IF hit.res < 0 THEN hit.row - 1
        ELSE IF hit.res > 0 THEN hit.row
        ELSE CHOOSE o \in hit.row .. Len(l) :
                /\ \A p \in hit.row .. o : l[p] = r
                /\ o < Len(l) => l[o + 1] # r

LEMMA OwnerOfRowFound ==
    ASSUME NEW m \in Nat, m + 1 < Half, NEW l, Column(l, m), NEW r \in 1 .. m,
           NEW o \in 1 .. Len(l), l[o] <= r, r < Stop(l, m, o)
    PROVE  OwnerOfRow(l, r) = o
<1> DEFINE n == Len(l)
           hit == mdtable_bsearch_closest(r, l)
<1>1. /\ n \in Nat \ {0} /\ l[1] = 1
      /\ \A p \in 1 .. n : l[p] \in 1 .. m + 1
      /\ \A i, j \in 1 .. n : i <= j => l[i] <= l[j]
      /\ \A p \in 1 .. n : Stop(l, m, p) = IF p < n THEN l[p + 1] ELSE m + 1
  BY ColumnFacts DEF Column, Stop
<1>2. /\ hit.row \in 1 .. n /\ hit.res = r - l[hit.row]
      /\ hit.res < 0 => hit.row = 1
      /\ hit.res # 0 => \A p \in 1 .. n : p > hit.row => l[p] > r
  <2>1. l \in Seq(0 .. Half - 1) /\ l # << >>
    <3> DEFINE S == 0 .. Half - 1
    <3>1. /\ l \in Seq(1 .. m + 1) /\ Len(l) > 0
          /\ 1 .. m + 1 \subseteq S
      BY HalfAssumption DEF Column
    <3> HIDE DEF S
    <3>2. l \in Seq(S)
      BY <3>1, SeqMonotonic
    <3> QED BY <3>1, <3>2 DEF S
  <2>2. r \in 0 .. Half - 1
    BY HalfAssumption
  <2>3. Ascending(l)
    BY <1>1 DEF Ascending
  <2> QED BY <2>1, <2>2, <2>3, ClosestFinds
<1> HIDE DEF hit, n
<1>3. ~(hit.res < 0)
  BY <1>1, <1>2
<1>4. CASE hit.res > 0
  <2> DEFINE h == hit.row
  <2>1. h \in 1 .. n /\ l[h] <= r /\ \A p \in 1 .. n : p > h => l[p] > r
    BY <1>1, <1>2, <1>4
  <2> HIDE DEF h
  <2>2. r < Stop(l, m, h)
    <3>1. CASE h < n
      <4>1. h + 1 \in 1 .. n /\ h + 1 > h
        BY <1>1, <2>1, <3>1
      <4> QED BY <1>1, <2>1, <3>1, <4>1
    <3>2. CASE ~(h < n)
      BY <1>1, <2>1, <3>2
    <3> QED BY <3>1, <3>2
  <2>3. h = o
    BY <2>1, <2>2, RowHasOneOwner DEF n
  <2>4. OwnerOfRow(l, r) = h
    BY <1>3, <1>4 DEF OwnerOfRow, h, hit
  <2> QED BY <2>3, <2>4
<1>5. CASE hit.res = 0
  <2> DEFINE h == hit.row
             AtEnd(p) == /\ \A q \in h .. p : l[q] = r
                         /\ p < n => l[p + 1] # r
  <2>1. h \in 1 .. n /\ l[h] = r /\ o \in 1 .. n
    BY <1>1, <1>2, <1>5 DEF n
  <2>2. OwnerOfRow(l, r) = CHOOSE p \in h .. n : AtEnd(p)
    BY <1>3, <1>5 DEF OwnerOfRow, hit, n
  <2> HIDE DEF h
  <2>3. o \in h .. n
    <3> SUFFICES ASSUME o < h PROVE FALSE
      BY <1>1, <2>1
    <3>1. o < n /\ o + 1 \in 1 .. n /\ o + 1 <= h
      BY <1>1, <2>1
    <3>2. Stop(l, m, o) <= l[h]
      BY <1>1, <2>1, <3>1
    <3> QED BY <1>1, <2>1, <3>1, <3>2
  <2>4. AtEnd(o)
    <3>1. ASSUME NEW q \in h .. o PROVE l[q] = r
      <4>1. q \in 1 .. n /\ h <= q /\ q <= o
        BY <1>1, <2>1, <2>3
      <4>2. l[h] <= l[q] /\ l[q] <= l[o] /\ l[q] \in Int /\ l[o] \in Int
        BY <1>1, <2>1, <4>1
      <4> QED BY <2>1, <4>2
    <3>2. o < n => l[o + 1] # r
      BY <1>1, <2>1
    <3> QED BY <3>1, <3>2
  <2>5. ASSUME NEW p \in h .. n, AtEnd(p) PROVE p = o
    <3>1. p \in 1 .. n /\ l[p] = r
      BY <1>1, <2>1, <2>5
    <3>2. r < Stop(l, m, p)
      <4>1. CASE p < n
        <5>1. p + 1 \in 1 .. n /\ l[p + 1] # r /\ l[p] <= l[p + 1] /\ l[p + 1] \in Int
          BY <1>1, <2>5, <3>1, <4>1
        <5> QED BY <1>1, <3>1, <4>1, <5>1
      <4>2. CASE ~(p < n)
        BY <1>1, <3>1, <4>2
      <4> QED BY <4>1, <4>2
    <3> QED BY <3>1, <3>2, RowHasOneOwner DEF n
  <2> HIDE DEF AtEnd
  <2> QED BY <2>2, <2>3, <2>4, <2>5
<1> QED BY <1>1, <1>2, <1>3, <1>4, <1>5

(* From every member of every list the search finds the owner it is listed  *)
(* under (query.c:783-911), as long as the rows of the table stay in the    *)
(* range in which col_compare_4bytes subtracts exactly.                     *)
THEOREM DisciplinedOwnerFound ==
    ASSUME MaxMembers + 1 < Half
    PROVE  DisciplinedSpec => []OwnerFoundFromMember
<1>1. DInv => OwnerFoundFromMember
  <2> SUFFICES ASSUME DInv, NEW o \in 1 .. Len(list), NEW k \in 1 .. Len(ListOf(o))
               PROVE  find_range_element(ListOf(o)[k]) = o
    BY DEF OwnerFoundFromMember
  <2> DEFINE m == Len(member)
             r == list[o] + k - 1
  <2>1. WellCut /\ m \in Nat /\ m + 1 < Half /\ Column(list, m)
        /\ Standin \in [1 .. m -> 1 .. m]
        /\ \A i, j \in 1 .. m : Standin[i] = Standin[j] => i = j
    BY StateIsWellCut, HalfAssumption, SizeAssumption DEF WellCut, DInv, IInv, TypeOK
  <2>2. ListOf(o) = Walk(list, Standin, m, o) /\ VisitsInterval(list, Standin, m, o)
    BY <2>1, WalkFacts DEF WellCut
  <2>3. /\ r \in 1 .. m /\ list[o] <= r /\ r < Stop(list, m, o)
        /\ ListOf(o)[k] = Standin[r]
    BY <2>2 DEF VisitsInterval
  <2> HIDE DEF m, r
  <2>4. OwnerOfRow(list, r) = o
    BY <2>1, <2>3, OwnerOfRowFound
  <2>5. (IF indirect THEN md_lsearch(Standin[r], ptr, 1) ELSE Standin[r]) = r
    <3>1. CASE indirect
      <4>1. ptr \in Seq(1 .. m) /\ Len(ptr) = m /\ Standin = ptr
        BY <3>1 DEF DInv, IInv, TypeOK, PtrIsPermutation, Standin, m
      <4>2. ptr \in Seq(0 .. Half - 1) /\ ptr[r] \in 0 .. Half - 1 /\ 1 \in 1 .. Len(ptr)
        <5> DEFINE S == 0 .. Half - 1
        <5>1. 1 .. m \subseteq S
          BY <2>1, HalfAssumption
        <5>2. ptr[r] \in 1 .. m
          BY <2>3, <4>1
        <5> HIDE DEF S
        <5>3. ptr \in Seq(S)
          BY <4>1, <5>1, SeqMonotonic
        <5> QED BY <2>1, <2>3, <4>1, <5>1, <5>2, <5>3 DEF S
      <4> DEFINE f == md_lsearch(ptr[r], ptr, 1)
      <4>3. IF f = 0 THEN \A s \in 1 .. Len(ptr) : ptr[s] # ptr[r]
            ELSE f \in 1 .. Len(ptr) /\ ptr[f] = ptr[r]
        BY <4>2, LinearSearchFinds
      <4> HIDE DEF f
      <4>4. f \in 1 .. m /\ ptr[f] = ptr[r]
        BY <2>3, <4>1, <4>3
      <4>5. f = r
        BY <2>1, <2>3, <4>1, <4>4
      <4> QED BY <3>1, <4>1, <4>5 DEF f
    <3>2. CASE ~indirect
      BY <2>3, <3>2 DEF Standin, m
    <3> QED BY <3>1, <3>2
  <2>6. find_range_element(Standin[r]) = OwnerOfRow(list, r)
    <3> DEFINE x == IF indirect THEN md_lsearch(Standin[r], ptr, 1) ELSE Standin[r]
    <3>1. find_range_element(Standin[r]) = OwnerOfRow(list, x)
      BY DEF find_range_element, OwnerOfRow
    <3> HIDE DEF x
    <3>2. x = r
      BY <2>5 DEF x
    <3> QED BY <3>1, <3>2
  <2> QED BY <2>3, <2>4, <2>6
<1> QED BY <1>1, PresentInitDInv, DisciplinedStepKeepsDInv, PTL DEF DisciplinedSpec
----------------------------------------------------------------------------
(* Intervals after a change.                                                *)

(* Row q of the interval of owner o is new and stands for member m + 1.     *)
RowEnters(l, t, m, l2, t2, o, q) ==
    /\ q \in l[o] .. Stop(l, m, o)
    /\ \A p \in o .. Len(l) : l2[p] = IF p = o THEN l[p] ELSE l[p] + 1
    /\ \A x \in 1 .. m + 1 :
          t2[x] = IF x < q THEN t[x] ELSE IF x = q THEN m + 1 ELSE t[x - 1]

(* The walk of o visits it, and the others are as they were if the owners   *)
(* before o start where they started.                                       *)
WalkTakes(l, t, m, l2, t2, o, q) ==
    /\ Walk(l2, t2, m + 1, o) = InsertAt(Walk(l, t, m, o), q - l[o] + 1, m + 1)
    /\ q - l[o] + 1 \in 1 .. Len(Walk(l, t, m, o)) + 1
    /\ (\A p \in 1 .. o - 1 : l2[p] = l[p])
          => \A p \in 1 .. Len(l) :
                p # o => Walk(l2, t2, m + 1, p) = Walk(l, t, m, p)

LEMMA WalkAfterAdd ==
    ASSUME NEW m \in Nat, NEW l, Column(l, m), NEW t \in [1 .. m -> 1 .. m],
           NEW l2, Column(l2, m + 1), NEW t2 \in [1 .. m + 1 -> 1 .. m + 1],
           Len(l2) = Len(l),
           NEW o \in 1 .. Len(l), NEW q, RowEnters(l, t, m, l2, t2, o, q)
    PROVE  WalkTakes(l, t, m, l2, t2, o, q)
<1> USE DEF RowEnters
<1> DEFINE n == Len(l)
           a == l[o]
           z == Stop(l, m, o)
           w == Walk(l, t, m, o)
           k == q - a + 1
           S == 1 .. m + 1
<1>1. /\ n \in Nat \ {0} /\ a \in 1 .. m + 1 /\ z \in a .. m + 1
      /\ q \in a .. z /\ o \in 1 .. n
  BY ColumnFacts
<1>2. /\ w \in Seq(1 .. m) /\ Len(w) = z - a
      /\ \A j \in 1 .. z - a : w[j] = t[a + j - 1]
  <2>1. VisitsInterval(l, t, m, o)
    BY WalkFacts
  <2> QED BY <2>1 DEF VisitsInterval
<1>3. Stop(l2, m + 1, o) = z + 1 /\ l2[o] = a
  BY DEF Stop
<1>4. Walk(l2, t2, m + 1, o) = [j \in 1 .. (z + 1) - a |-> t2[a + j - 1]]
  <2> DEFINE F(b, y) == [j \in 1 .. y - b |-> t2[b + j - 1]]
  <2>1. Walk(l2, t2, m + 1, o) = F(l2[o], Stop(l2, m + 1, o))
    BY DEF Walk
  <2>2. F(l2[o], Stop(l2, m + 1, o)) = F(a, z + 1)
    <3> HIDE DEF F, a, z
    <3> QED BY <1>3
  <2> HIDE DEF F, a, z
  <2>3. Walk(l2, t2, m + 1, o) = F(a, z + 1)
    BY <2>1, <2>2
  <2> QED BY <2>3 DEF F
<1>5. w \in Seq(S) /\ k \in 1 .. Len(w) + 1 /\ m + 1 \in S
  <2>1. 1 .. m \subseteq S
    OBVIOUS
  <2> HIDE DEF S, w, a, z
  <2>2. w \in Seq(S)
    BY <1>2, <2>1, SeqMonotonic
  <2> QED BY <1>1, <1>2, <2>2 DEF S
<1>6. /\ InsertAt(w, k, m + 1) \in Seq(S)
      /\ Len(InsertAt(w, k, m + 1)) = Len(w) + 1
      /\ \A i \in 1 .. Len(w) + 1 :
            InsertAt(w, k, m + 1)[i] = IF i < k THEN w[i]
                                       ELSE IF i = k THEN m + 1 ELSE w[i - 1]
  <2> DEFINE e == m + 1
  <2>1. w \in Seq(S) /\ k \in 1 .. Len(w) + 1 /\ e \in S
    BY <1>5
  <2> HIDE DEF S, w, k, e
  <2>2. /\ InsertAt(w, k, e) \in Seq(S)
        /\ Len(InsertAt(w, k, e)) = Len(w) + 1
        /\ \A i \in 1 .. Len(w) + 1 :
              InsertAt(w, k, e)[i] = IF i < k THEN w[i]
                                     ELSE IF i = k THEN e ELSE w[i - 1]
    <3>1. InsertsOne(S, w, k, e)
      BY <2>1, InsertAtInserts
    <3> QED BY <3>1 DEF InsertsOne
  <2> QED BY <2>2 DEF e
<1> DEFINE u == InsertAt(w, k, m + 1)
<1>7. u = [j \in 1 .. (z + 1) - a |-> t2[a + j - 1]]
  <2>1. u \in Seq(S) /\ Len(u) = (z + 1) - a
    <3> HIDE DEF w, a, z, u, k
    <3> QED BY <1>1, <1>2, <1>6 DEF u
  <2>2. ASSUME NEW j \in 1 .. (z + 1) - a PROVE u[j] = t2[a + j - 1]
    <3> HIDE DEF w, a, z
    <3>1. a + j - 1 \in 1 .. m + 1
      BY <1>1
    <3>2. j \in 1 .. Len(w) + 1
      BY <1>1, <1>2
    <3>3. CASE j < k
      <4>1. j \in 1 .. z - a /\ a + j - 1 < q
        BY <1>1, <3>3
      <4> QED BY <1>2, <1>6, <3>1, <3>2, <3>3, <4>1
    <3>4. CASE j = k
      <4>1. a + j - 1 = q
        BY <1>1, <3>4
      <4>2. t2[a + j - 1] = m + 1
        BY <1>1, <3>1, <4>1
      <4> QED BY <1>1, <1>6, <3>2, <3>4, <4>2
    <3>5. CASE j > k
      <4>1. /\ j - 1 \in 1 .. z - a /\ a + j - 1 > q
            /\ a + (j - 1) - 1 = (a + j - 1) - 1
        BY <1>1, <3>5
      <4>2. u[j] = w[j - 1]
        BY <1>1, <1>6, <3>2, <3>5
      <4>3. w[j - 1] = t[a + (j - 1) - 1]
        BY <1>2, <4>1
      <4>4. t2[a + j - 1] = t[(a + j - 1) - 1]
        <5> DEFINE x == a + j - 1
        <5>1. x \in 1 .. m + 1 /\ x > q
          BY <3>1, <4>1
        <5> HIDE DEF x
        <5>2. t2[x] = t[x - 1]
          BY <1>1, <5>1
        <5> QED BY <5>2 DEF x
      <4> QED BY <4>1, <4>2, <4>3, <4>4
    <3> QED BY <1>1, <3>3, <3>4, <3>5
  <2> HIDE DEF u, a, z, S
  <2> QED BY <1>1, <2>1, <2>2
<1>8. ASSUME \A p \in 1 .. o - 1 : l2[p] = l[p], NEW p \in 1 .. n, p # o
      PROVE  Walk(l2, t2, m + 1, p) = Walk(l, t, m, p)
  <2> DEFINE b == l[p]
             y == Stop(l, m, p)
  <2>1. /\ b \in 1 .. m + 1 /\ y \in b .. m + 1
        /\ p < o => y <= a
        /\ o < p => z <= b
    BY ColumnFacts
  <2>2. CASE p < o
    <3>1. l2[p] = b
      BY <1>1, <1>8, <2>2
    <3>2. Stop(l2, m + 1, p) = y
      <4>1. p + 1 \in 1 .. n /\ p < n
        BY <1>1, <2>2
      <4>2. l2[p + 1] = l[p + 1]
        <5>1. CASE p + 1 = o
          BY <1>3, <5>1
        <5>2. CASE p + 1 # o
          <6>1. p + 1 \in 1 .. o - 1
            BY <1>1, <2>2, <5>2
          <6> QED BY <1>8, <6>1
        <5> QED BY <5>1, <5>2
      <4> QED BY <4>1, <4>2 DEF Stop
    <3>3. \A j \in 1 .. y - b : t2[b + j - 1] = t[b + j - 1]
      <4> HIDE DEF a, b, y, z
      <4> TAKE j \in 1 .. y - b
      <4> DEFINE x == b + j - 1
      <4>1. x \in 1 .. m + 1 /\ x < q
        BY <1>1, <2>1, <2>2
      <4> HIDE DEF x
      <4>2. t2[x] = t[x]
        BY <4>1
      <4> QED BY <4>2 DEF x
    <3>4. Walk(l2, t2, m + 1, p) = [j \in 1 .. y - b |-> t2[b + j - 1]]
      BY <3>1, <3>2 DEF Walk
    <3>5. Walk(l, t, m, p) = [j \in 1 .. y - b |-> t[b + j - 1]]
      BY DEF Walk
    <3> HIDE DEF b, y
    <3> QED BY <3>3, <3>4, <3>5
  <2>3. CASE p > o
    <3>1. l2[p] = b + 1
      BY <1>1, <2>3
    <3>2. Stop(l2, m + 1, p) = y + 1
      <4>1. CASE p < n
        <5>1. p + 1 \in o .. n /\ p + 1 # o
          BY <1>1, <2>3, <4>1
        <5>2. l2[p + 1] = l[p + 1] + 1
          BY <5>1
        <5> QED BY <4>1, <5>2 DEF Stop
      <4>2. CASE ~(p < n)
        BY <4>2 DEF Stop
      <4> QED BY <4>1, <4>2
    <3>3. \A j \in 1 .. y - b : t2[(b + 1) + j - 1] = t[b + j - 1]
      <4> HIDE DEF a, b, y, z
      <4> TAKE j \in 1 .. y - b
      <4> DEFINE x == (b + 1) + j - 1
      <4>1. x \in 1 .. m + 1 /\ x > q /\ x - 1 = b + j - 1
        BY <1>1, <2>1, <2>3
      <4> HIDE DEF x
      <4>2. t2[x] = t[x - 1]
        BY <1>1, <4>1
      <4> QED BY <4>1, <4>2 DEF x
    <3>4. Walk(l2, t2, m + 1, p) = [j \in 1 .. (y + 1) - (b + 1) |-> t2[(b + 1) + j - 1]]
      BY <3>1, <3>2 DEF Walk
    <3>5. Walk(l, t, m, p) = [j \in 1 .. y - b |-> t[b + j - 1]]
      BY DEF Walk
    <3>6. (y + 1) - (b + 1) = y - b
      <4> HIDE DEF b, y
      <4> QED BY <2>1
    <3> HIDE DEF b, y
    <3> QED BY <3>3, <3>4, <3>5, <3>6
  <2> QED BY <1>8, <2>2, <2>3
<1> HIDE DEF u, w, k
<1>9. Walk(l2, t2, m + 1, o) = u
  BY <1>4, <1>7
<1>10. Walk(l2, t2, m + 1, o) = InsertAt(Walk(l, t, m, o), q - l[o] + 1, m + 1)
  BY <1>9 DEF u, w, k
<1>11. q - l[o] + 1 \in 1 .. Len(Walk(l, t, m, o)) + 1
  BY <1>5 DEF w, k
<1> QED BY <1>8, <1>10, <1>11 DEF WalkTakes

(* Row o of the owner table is new and its interval is empty.               *)
OwnerEnters(l, m, l2, o) ==
    /\ Len(l2) = Len(l) + 1
    /\ \A i \in 1 .. Len(l) + 1 :
          /\ i < o => l2[i] = l[i]
          /\ i = o => l2[i] = IF o <= Len(l) THEN l[o] ELSE m + 1
          /\ i > o => l2[i] = l[i - 1]

WalksMakeRoom(l, t, m, l2, o) ==
    \A p \in 1 .. Len(l) + 1 :
       Walk(l2, t, m, p) = IF p < o THEN Walk(l, t, m, p)
                           ELSE IF p = o THEN << >> ELSE Walk(l, t, m, p - 1)

LEMMA WalkAfterNewOwner ==
    ASSUME NEW m \in Nat, NEW l, Column(l, m), NEW t \in [1 .. m -> 1 .. m],
           NEW o \in 1 .. Len(l) + 1, NEW l2, OwnerEnters(l, m, l2, o)
    PROVE  WalksMakeRoom(l, t, m, l2, o)
<1> USE DEF OwnerEnters
<1> DEFINE n == Len(l)
           F(b, y) == [j \in 1 .. y - b |-> t[b + j - 1]]
<1>1. /\ n \in Nat \ {0} /\ o \in 1 .. n + 1
      /\ \A p \in 1 .. n : l[p] \in 1 .. m + 1
  BY ColumnFacts
<1>2. \A p \in 1 .. n + 1 : Walk(l2, t, m, p) = F(l2[p], Stop(l2, m, p))
  BY DEF Walk
<1>3. \A p \in 1 .. n : Walk(l, t, m, p) = F(l[p], Stop(l, m, p))
  BY DEF Walk
<1>4. \A p \in 1 .. n + 1 : Stop(l2, m, p) = IF p < n + 1 THEN l2[p + 1] ELSE m + 1
  BY DEF Stop
<1>5. \A p \in 1 .. n : Stop(l, m, p) = IF p < n THEN l[p + 1] ELSE m + 1
  BY DEF Stop
<1>6. \A i \in 1 .. n + 1 : /\ i < o => l2[i] = l[i]
                            /\ i = o => l2[i] = IF o <= n THEN l[o] ELSE m + 1
                            /\ i > o => l2[i] = l[i - 1]
  OBVIOUS
<1>7. \A b \in Int : F(b, b) = << >>
  OBVIOUS
<1> SUFFICES ASSUME NEW p \in 1 .. n + 1
             PROVE  Walk(l2, t, m, p) = IF p < o THEN Walk(l, t, m, p)
                                        ELSE IF p = o THEN << >> ELSE Walk(l, t, m, p - 1)
  BY DEF WalksMakeRoom
<1> HIDE DEF n, F
<1>8. CASE p < o
  <2>1. p \in 1 .. n /\ p < n + 1 /\ l2[p] = l[p] /\ p + 1 \in 1 .. n + 1
    BY <1>1, <1>6, <1>8
  <2>2. l2[p + 1] = IF p < n THEN l[p + 1] ELSE m + 1
    <3>1. CASE p + 1 < o
      <4>1. p < n
        BY <1>1, <3>1
      <4> QED BY <1>6, <2>1, <3>1, <4>1
    <3>2. CASE p + 1 = o
      <4>1. p < n <=> o <= n
        BY <1>1, <3>2
      <4> QED BY <1>6, <2>1, <3>2, <4>1
    <3> QED BY <1>1, <1>8, <3>1, <3>2
  <2>3. Stop(l2, m, p) = Stop(l, m, p)
    BY <1>4, <1>5, <2>1, <2>2
  <2> QED BY <1>2, <1>3, <1>8, <2>1, <2>3
<1>9. CASE p = o
  <2>1. l2[p] \in Int /\ Stop(l2, m, p) = l2[p]
    <3>1. CASE p < n + 1
      <4>1. p + 1 \in 1 .. n + 1 /\ p + 1 > o /\ (p + 1) - 1 = o /\ o <= n /\ p \in 1 .. n
        BY <1>1, <1>9, <3>1
      <4>2. l2[p + 1] = l[o] /\ l2[p] = l[o]
        BY <1>6, <1>9, <4>1
      <4> QED BY <1>1, <1>4, <1>9, <3>1, <4>1, <4>2
    <3>2. CASE ~(p < n + 1)
      <4>1. ~(o <= n)
        BY <1>1, <1>9, <3>2
      <4>2. l2[p] = m + 1
        BY <1>6, <1>9, <4>1
      <4> QED BY <1>4, <3>2, <4>2
    <3> QED BY <3>1, <3>2
  <2> QED BY <1>1, <1>2, <1>7, <1>9, <2>1
<1>10. CASE p > o
  <2>1. p - 1 \in 1 .. n /\ l2[p] = l[p - 1]
    BY <1>1, <1>6, <1>10
  <2>2. Stop(l2, m, p) = Stop(l, m, p - 1)
    <3>1. CASE p < n + 1
      <4>1. p + 1 \in 1 .. n + 1 /\ p + 1 > o /\ (p + 1) - 1 = p /\ (p - 1) + 1 = p /\ p - 1 < n
        BY <1>1, <1>10, <3>1
      <4>2. l2[p + 1] = l[p]
        BY <1>6, <4>1
      <4> QED BY <1>4, <1>5, <2>1, <3>1, <4>1, <4>2
    <3>2. CASE ~(p < n + 1)
      <4>1. ~(p - 1 < n)
        BY <1>1, <3>2
      <4> QED BY <1>4, <1>5, <2>1, <3>2, <4>1
    <3> QED BY <3>1, <3>2
  <2>3. Walk(l2, t, m, p) = Walk(l, t, m, p - 1)
    BY <1>2, <1>3, <2>1, <2>2
  <2>4. ~(p < o) /\ p # o
    BY <1>1, <1>10
  <2> QED BY <2>3, <2>4
<1>11. p < o \/ p = o \/ p > o
  BY <1>1
<1> QED BY <1>8, <1>9, <1>10, <1>11
----------------------------------------------------------------------------
(* An added member.                                                         *)

(* Row q enters the interval of owner o and stands for the new member.      *)
RowAdded(o, q) ==
    /\ Len(member') = Len(member) + 1
    /\ RowEnters(list, Standin, Len(member), list', Standin', o, q)

(* The owners before o start where they started.                            *)
EarlierStay(o) == \A p \in 1 .. o - 1 : list'[p] = list[p]

(* The new row is appended at the end of the table, without indirection.    *)
LEMMA AppendAddsRow ==
    ASSUME DInv, NEW o \in 1 .. Len(list), NEW v \in SortValues,
           ~indirect, append_to_list(o, v), Stop(list, Len(member), o) = EndRow
    PROVE  RowAdded(o, EndRow) /\ EarlierStay(o)
<1> DEFINE n == Len(list)
           m == Len(member)
           new == m + 1
           shifted == update_shifted_row_references(new)
<1>1. /\ n \in Nat \ {0} /\ m \in Nat /\ EndRow = new
      /\ \A p \in 1 .. n : list[p] \in 1 .. new
      /\ \A i, j \in 1 .. n : i <= j => list[i] <= list[j]
  BY DInvFacts
<1>2. \A p \in o + 1 .. n : list[p] = new
  <2>1. WellCut
    BY StateIsWellCut
  <2>2. Column(list, m)
    BY <2>1 DEF WellCut
  <2>3. \A p \in o + 1 .. n : p \in 1 .. n /\ o < p
    BY <1>1
  <2>4. \A p \in o + 1 .. n : new <= list[p]
    <3> TAKE p \in o + 1 .. n
    <3>1. p \in 1 .. n /\ o < p
      BY <2>3
    <3>2. Stop(list, m, o) <= list[p]
      BY <1>1, <2>2, <3>1, ColumnFacts
    <3> QED BY <1>1, <3>2
  <2> QED BY <1>1, <2>3, <2>4
<1>3. \A p \in 1 .. n : shifted[p] = IF list[p] = new THEN new + 1 ELSE list[p]
  BY <1>1 DEF update_shifted_row_references
<1>4. list' = IF RangeCount(o) # 0 THEN shifted
              ELSE [p \in 1 .. n |-> IF p \in SameStart(shifted, o) THEN new ELSE shifted[p]]
  BY DEF append_to_list
<1>5. RangeCount(o) = new - list[o]
  <2>1. WellCut
    BY StateIsWellCut
  <2> QED BY <1>1, <2>1 DEF WellCut
<1> HIDE DEF shifted
<1>6. /\ \A p \in 1 .. o : list'[p] = list[p]
      /\ \A p \in o + 1 .. n : list'[p] = list[p] + 1
  <2>1. CASE RangeCount(o) # 0
    <3>1. list' = shifted /\ list[o] # new
      BY <1>1, <1>4, <1>5, <2>1
    <3>2. \A p \in 1 .. o : p \in 1 .. n /\ list[p] # new
      BY <1>1, <3>1
    <3> QED BY <1>1, <1>2, <1>3, <3>1, <3>2
  <2>2. CASE RangeCount(o) = 0
    <3>1. list[o] = new
      BY <1>1, <1>5, <2>2
    <3>2. list' = [p \in 1 .. n |-> IF p \in SameStart(shifted, o) THEN new ELSE shifted[p]]
      BY <1>4, <2>2
    <3>3. ASSUME NEW p \in 1 .. o PROVE list'[p] = list[p]
      <4>1. p \in 1 .. n
        BY <1>1
      <4>2. CASE list[p] = new
        <5>1. \A q \in p .. o : q \in 1 .. n /\ list[q] = new
          BY <1>1, <3>1, <4>2
        <5>2. \A q \in p .. o : shifted[q] = shifted[o]
          BY <1>3, <3>1, <5>1
        <5>3. p \in SameStart(shifted, o)
          BY <5>2 DEF SameStart
        <5> QED BY <3>2, <4>1, <4>2, <5>3
      <4>3. CASE list[p] # new
        <5>1. shifted[p] # shifted[o]
          BY <1>1, <1>3, <3>1, <4>1, <4>3
        <5>2. p \notin SameStart(shifted, o)
          BY <5>1 DEF SameStart
        <5> QED BY <1>3, <3>2, <4>1, <4>3, <5>2
      <4> QED BY <4>2, <4>3
    <3>4. ASSUME NEW p \in o + 1 .. n PROVE list'[p] = list[p] + 1
      <4>1. p \in 1 .. n /\ p \notin SameStart(shifted, o) /\ list[p] = new
        BY <1>1, <1>2 DEF SameStart
      <4> QED BY <1>3, <3>2, <4>1
    <3> QED BY <3>3, <3>4
  <2> QED BY <2>1, <2>2
<1>7. Len(member') = m + 1 /\ ~indirect'
  <2>1. member' = Append(member, v) /\ member \in Seq(SortValues)
    BY DEF append_to_list, append_member, DInv, IInv, TypeOK
  <2>2. Len(member') = m + 1
    BY <2>1
  <2>3. ~indirect'
    BY Zenon DEF append_to_list
  <2> QED BY <2>2, <2>3
<1>8. \A x \in 1 .. m + 1 : Standin'[x] = x /\ (x <= m => Standin[x] = x)
  BY <1>1, <1>7 DEF Standin
<1>9. list[o] \in 1 .. new
  BY <1>1
<1> QED BY <1>1, <1>6, <1>7, <1>8, <1>9 DEF RowAdded, RowEnters, EarlierStay

(* The new row is inserted into the indirection table.                      *)
LEMMA InsertAddsRow ==
    ASSUME DInv, NEW o \in 1 .. Len(list), NEW v \in SortValues,
           NEW rows \in Seq(1 .. Len(member)), Len(rows) = Len(member),
           \A x \in 1 .. Len(member) : rows[x] = Standin[x],
           NEW r \in list[o] .. Stop(list, Len(member), o),
           insert_indirect(o, r, rows, v)
    PROVE  /\ RowAdded(o, r)
           /\ (r = list[o] => \A p \in 1 .. o - 1 : list[p] # list[o]) => EarlierStay(o)
<1> DEFINE n == Len(list)
           m == Len(member)
           z == Stop(list, m, o)
           shifted == update_shifted_row_references(r)
<1>1. /\ n \in Nat \ {0} /\ m \in Nat \ {0} /\ EndRow = m + 1
      /\ \A p \in 1 .. n : list[p] \in 1 .. m + 1
      /\ \A i, j \in 1 .. n : i <= j => list[i] <= list[j]
  BY DInvFacts
<1>2. /\ RangeCount(o) = z - list[o] /\ z \in list[o] .. m + 1
      /\ \A p \in o + 1 .. n : p \in 1 .. n /\ z <= list[p]
  <2>1. WellCut /\ Column(list, m)
    BY StateIsWellCut DEF WellCut
  <2>2. \A p \in o + 1 .. n : p \in 1 .. n /\ o < p
    BY <1>1
  <2>3. z \in list[o] .. m + 1 /\ RangeCount(o) = z - list[o]
    BY <1>1, <2>1, ColumnFacts DEF WellCut
  <2>4. \A p \in o + 1 .. n : z <= list[p]
    <3> TAKE p \in o + 1 .. n
    <3>1. p \in 1 .. n /\ o < p
      BY <2>2
    <3> QED BY <1>1, <2>1, <3>1, ColumnFacts
  <2> HIDE DEF z
  <2> QED BY <2>2, <2>3, <2>4
<1> HIDE DEF z
<1>3. r \in list[o] .. z
  BY DEF z
<1>4. /\ \A p \in 1 .. n : shifted[p] = IF list[p] >= r THEN list[p] + 1 ELSE list[p]
      /\ DOMAIN shifted = 1 .. n
  BY DEF update_shifted_row_references
<1>5. list' = IF RangeCount(o) = 0 \/ list[o] = r THEN [shifted EXCEPT ![o] = r] ELSE shifted
  BY DEF insert_indirect
<1> HIDE DEF shifted
<1>6. list'[o] = list[o] /\ \A p \in 1 .. n : p # o => list'[p] = shifted[p]
  <2>1. CASE r = list[o]
    <3>1. list' = [shifted EXCEPT ![o] = r]
      BY <1>5, <2>1
    <3> QED BY <1>4, <2>1, <3>1
  <2>2. CASE r # list[o]
    <3>1. RangeCount(o) # 0 /\ list[o] < r
      BY <1>1, <1>2, <1>3, <2>2
    <3>2. list' = shifted
      BY <1>5, <2>2, <3>1
    <3> QED BY <1>1, <1>4, <3>1, <3>2
  <2> QED BY <2>1, <2>2
<1>7. \A p \in o .. n : list'[p] = IF p = o THEN list[p] ELSE list[p] + 1
  <2> SUFFICES ASSUME NEW p \in o + 1 .. n PROVE list'[p] = list[p] + 1
    BY <1>1, <1>6
  <2>1. p \in 1 .. n /\ p # o /\ list[p] >= r
    BY <1>1, <1>2, <1>3
  <2> QED BY <1>4, <1>6, <2>1
<1>8. Len(member') = m + 1 /\ indirect' /\ ptr' = InsertAt(rows, r, m + 1)
  <2>1. member' = Append(member, v) /\ member \in Seq(SortValues)
    BY DEF insert_indirect, append_member, DInv, IInv, TypeOK
  <2>2. Len(member') = m + 1
    BY <2>1
  <2>3. indirect'
    BY Zenon DEF insert_indirect
  <2>4. ptr' = InsertAt(rows, r, m + 1)
    BY DEF insert_indirect
  <2> QED BY <2>2, <2>3, <2>4
<1>9. \A x \in 1 .. m + 1 :
         Standin'[x] = IF x < r THEN Standin[x]
                       ELSE IF x = r THEN m + 1 ELSE Standin[x - 1]
  <2>1. Standin' = InsertAt(rows, r, m + 1)
    BY <1>8 DEF Standin
  <2>2. InsertsOne(1 .. m + 1, rows, r, m + 1)
    <3>1. 1 .. m \subseteq 1 .. m + 1 /\ m + 1 \in 1 .. m + 1 /\ r \in 1 .. Len(rows) + 1
      <4>1. Len(rows) = m /\ o \in 1 .. n
        OBVIOUS
      <4> HIDE DEF m, n
      <4>2. m \in Nat /\ r \in list[o] .. z /\ z \in list[o] .. m + 1 /\ list[o] \in 1 .. m + 1
        BY <1>1, <1>2, <1>3, <4>1
      <4>3. r \in 1 .. m + 1
        BY <4>2
      <4> QED BY <4>1, <4>2, <4>3
    <3>2. rows \in Seq(1 .. m + 1)
      BY <3>1, SeqMonotonic
    <3> QED BY <3>1, <3>2, InsertAtInserts
  <2>3. \A x \in 1 .. m + 1 : Standin'[x] = IF x < r THEN rows[x]
                                            ELSE IF x = r THEN m + 1 ELSE rows[x - 1]
    BY <2>1, <2>2 DEF InsertsOne
  <2> TAKE x \in 1 .. m + 1
  <2>4. r \in 1 .. m + 1
    BY <1>1, <1>2, <1>3
  <2>5. /\ x < r => x \in 1 .. m
        /\ x > r => x - 1 \in 1 .. m
        /\ x < r \/ x = r \/ x > r
    BY <1>1, <2>4
  <2> QED BY <2>3, <2>5
<1>10. RowAdded(o, r)
  BY <1>3, <1>7, <1>8, <1>9 DEF RowAdded, RowEnters, z
<1>11. ASSUME r = list[o] => \A p \in 1 .. o - 1 : list[p] # list[o]
       PROVE  EarlierStay(o)
  <2> SUFFICES ASSUME NEW p \in 1 .. o - 1 PROVE list'[p] = list[p]
    BY DEF EarlierStay
  <2>1. p \in 1 .. n /\ p # o /\ list[p] <= list[o]
    BY <1>1
  <2>2. list[p] < r
    <3>1. /\ list[p] \in Int /\ list[o] \in Int /\ r \in Int
          /\ list[o] <= r
      BY <1>1, <1>2, <1>3, <2>1
    <3>2. CASE r = list[o]
      <4>1. list[p] # list[o]
        BY <1>11, <3>2
      <4> QED BY <2>1, <3>1, <3>2, <4>1
    <3>3. CASE r # list[o]
      BY <2>1, <3>1, <3>3
    <3> QED BY <3>2, <3>3
  <2> QED BY <1>1, <1>4, <1>6, <2>1, <2>2
<1> QED BY <1>10, <1>11

(* The row that a call enters which is to insert before row r.              *)
EntersAt(o, r) == IF indirect \/ r = EndRow THEN r ELSE list[o]

(* Where callers insert is in the interval of the owner or at its end.      *)
LEMMA InsertionPoints ==
    ASSUME DInv, NEW o \in 1 .. Len(list)
    PROVE  /\ RangeEnd(o) = Stop(list, Len(member), o)
           /\ RangeEnd(o) \in list[o] .. Stop(list, Len(member), o)
           /\ \A v : SortedPosition(o, v) \in list[o] .. Stop(list, Len(member), o)
<1> DEFINE z == Stop(list, Len(member), o)
<1>1. /\ RangeCount(o) = z - list[o]
      /\ list[o] \in 1 .. Len(member) + 1 /\ z \in list[o] .. Len(member) + 1
      /\ Len(member) \in Nat
  BY StateIsWellCut, ColumnFacts DEF WellCut
<1>2. RangeStart(o) = list[o] /\ CanReadList(o) /\ IInv
  BY DInvFacts DEF DInv
<1> HIDE DEF z
<1>3. RangeEnd(o) = z
  BY <1>1, <1>2 DEF RangeEnd
<1>4. ASSUME NEW v PROVE SortedPosition(o, v) \in list[o] .. z
  <2>1. SortedPosition(o, v) = list[o] \/ SortedPosition(o, v) \in list[o] + 1 .. z
    BY <1>2, <1>3, SortedPositionInTable
  <2> QED BY <1>1, <2>1
<1> QED BY <1>1, <1>3, <1>4 DEF z

LEMMA AddAddsRow ==
    ASSUME DInv, NEW o \in 1 .. Len(list), NEW v \in SortValues,
           NEW r \in list[o] .. Stop(list, Len(member), o),
           add_new_row_to_list(o, r, v)
    PROVE  RowAdded(o, EntersAt(o, r)) /\ (Disciplined(o, r) => EarlierStay(o))
<1> DEFINE m == Len(member)
           z == Stop(list, m, o)
<1>1. /\ m \in Nat /\ EndRow = m + 1
      /\ list[o] \in 1 .. m + 1 /\ z \in list[o] .. m + 1
      /\ RangeCount(o) = z - list[o]
      /\ Standin \in [1 .. m -> 1 .. m]
  BY StateIsWellCut, ColumnFacts DEF WellCut
<1>2. CASE indirect
  <2>1. EntersAt(o, r) = r /\ insert_indirect(o, r, ptr, v)
    BY <1>2 DEF EntersAt, add_new_row_to_list
  <2>2. ptr \in Seq(1 .. m) /\ Len(ptr) = m /\ Standin = ptr
    BY <1>2 DEF DInv, IInv, TypeOK, PtrIsPermutation, Standin
  <2>3. /\ RowAdded(o, r)
        /\ (r = list[o] => \A p \in 1 .. o - 1 : list[p] # list[o]) => EarlierStay(o)
    BY <2>1, <2>2, InsertAddsRow
  <2>4. Disciplined(o, r) => (r = list[o] => \A p \in 1 .. o - 1 : list[p] # list[o])
    BY <1>2 DEF Disciplined, BecomesFirst
  <2> QED BY <2>1, <2>3, <2>4
<1>3. CASE ~indirect /\ r = EndRow
  <2>1. EntersAt(o, r) = EndRow /\ append_to_list(o, v)
    BY <1>3 DEF EntersAt, add_new_row_to_list
  <2>2. z = EndRow
    <3> HIDE DEF z
    <3>1. r \in list[o] .. z
      BY DEF z
    <3> QED BY <1>1, <1>3, <3>1
  <2> QED BY <1>3, <2>1, <2>2, AppendAddsRow
<1>4. CASE ~indirect /\ r # EndRow
  <2> DEFINE rows == create_and_fill_indirect_table
  <2>1. EntersAt(o, r) = list[o] /\ insert_indirect(o, list[o], rows, v)
    BY <1>4 DEF EntersAt, add_new_row_to_list
  <2>2. rows \in Seq(1 .. m) /\ Len(rows) = m
    BY FilledIndirection DEF DInv
  <2>3. \A x \in 1 .. m : rows[x] = Standin[x]
    BY <1>4 DEF create_and_fill_indirect_table, Standin
  <2>4. list[o] \in list[o] .. z
    <3> HIDE DEF z
    <3> QED BY <1>1
  <2> HIDE DEF rows
  <2>5. /\ RowAdded(o, list[o])
        /\ (\A p \in 1 .. o - 1 : list[p] # list[o]) => EarlierStay(o)
    BY <2>1, <2>2, <2>3, <2>4, InsertAddsRow
  <2>6. Disciplined(o, r) => \A p \in 1 .. o - 1 : list[p] # list[o]
    BY <1>4 DEF Disciplined, BecomesFirst
  <2> QED BY <2>1, <2>5, <2>6
<1> QED BY <1>2, <1>3, <1>4

(* The list of the owner has the new member at one place, and the others    *)
(* are as they were.                                                        *)
LEMMA ListsAfterAdd ==
    ASSUME DInv, DInv', NEW o \in 1 .. Len(list), Len(list') = Len(list),
           NEW q, RowAdded(o, q)
    PROVE  /\ q - list[o] + 1 \in 1 .. Len(ListOf(o)) + 1
           /\ ListOf(o)' = InsertAt(ListOf(o), q - list[o] + 1, Len(member) + 1)
           /\ EarlierStay(o) => \A p \in 1 .. Len(list) : p # o => ListOf(p)' = ListOf(p)
<1> DEFINE m == Len(member)
<1>1. /\ m \in Nat /\ Column(list, m) /\ Standin \in [1 .. m -> 1 .. m]
      /\ \A p \in 1 .. Len(list) : ListOf(p) = Walk(list, Standin, m, p)
  BY StateIsWellCut DEF WellCut
<1>2. Len(member') = m + 1 /\ RowEnters(list, Standin, m, list', Standin', o, q)
  BY DEF RowAdded
<1>3. WellCut'
  BY NextStateIsWellCut
<1>4. /\ Column(list', m + 1) /\ Standin' \in [1 .. m + 1 -> 1 .. m + 1]
      /\ \A p \in 1 .. Len(list) : ListOf(p)' = Walk(list', Standin', m + 1, p)
  BY <1>2, <1>3 DEF WellCut
<1> HIDE DEF m
<1>5. WalkTakes(list, Standin, m, list', Standin', o, q)
  BY <1>1, <1>2, <1>4, WalkAfterAdd
<1>6. EarlierStay(o) => \A p \in 1 .. Len(list) : p # o => ListOf(p)' = ListOf(p)
  BY <1>1, <1>4, <1>5 DEF EarlierStay, WalkTakes
<1>7. /\ q - list[o] + 1 \in 1 .. Len(ListOf(o)) + 1
      /\ ListOf(o)' = InsertAt(ListOf(o), q - list[o] + 1, Len(member) + 1)
  BY <1>1, <1>4, <1>5 DEF WalkTakes, m
<1> QED BY <1>6, <1>7

(* An add puts the new member into the list of its owner, and a disciplined *)
(* one disturbs no other list.                                              *)
LEMMA AddedToList ==
    ASSUME DInv, DInv', NEW o \in 1 .. Len(list), NEW v \in SortValues,
           NEW r \in list[o] .. Stop(list, Len(member), o),
           add_new_row_to_list(o, r, v)
    PROVE  /\ Len(member') = Len(member) + 1 /\ Len(list') = Len(list)
           /\ \E k \in 1 .. Len(ListOf(o)) + 1 :
                 ListOf(o)' = InsertAt(ListOf(o), k, Len(member) + 1)
           /\ Disciplined(o, r) =>
                 \A p \in 1 .. Len(list) : p # o => ListOf(p)' = ListOf(p)
<1> DEFINE q == EntersAt(o, r)
<1>1. RowAdded(o, q) /\ (Disciplined(o, r) => EarlierStay(o))
  BY AddAddsRow
<1>2. Len(list') = Len(list)
  <2>1. IInv /\ list' \in Seq(Nat)
    BY DEF DInv, IInv, TypeOK
  <2> QED BY <2>1, AddKeepsLength
<1>3. Len(member') = Len(member) + 1
  BY <1>1 DEF RowAdded
<1> HIDE DEF q
<1>4. /\ q - list[o] + 1 \in 1 .. Len(ListOf(o)) + 1
      /\ ListOf(o)' = InsertAt(ListOf(o), q - list[o] + 1, Len(member) + 1)
      /\ EarlierStay(o) => \A p \in 1 .. Len(list) : p # o => ListOf(p)' = ListOf(p)
  BY <1>1, <1>2, ListsAfterAdd
<1> QED BY <1>1, <1>2, <1>3, <1>4

LEMMA ListHoldsMembers ==
    ASSUME DInv, NEW o \in 1 .. Len(list)
    PROVE  ListOf(o) \in Seq(1 .. Len(member)) /\ Len(ListOf(o)) \in Nat
<1>1. /\ Len(member) \in Nat /\ Column(list, Len(member))
      /\ Standin \in [1 .. Len(member) -> 1 .. Len(member)]
      /\ ListOf(o) = Walk(list, Standin, Len(member), o)
  BY StateIsWellCut DEF WellCut
<1>2. VisitsInterval(list, Standin, Len(member), o)
  BY <1>1, WalkFacts
<1>3. ListOf(o) \in Seq(1 .. Len(member))
  BY <1>1, <1>2 DEF VisitsInterval
<1>4. Len(ListOf(o)) \in Nat
  BY <1>3
<1> QED BY <1>3, <1>4

(* An add that leaves the list column ascending is a disciplined one: where *)
(* the row comes first, earlier empty owners would be shifted past o.       *)
LEMMA AscendingAddIsDisciplined ==
    ASSUME DInv, DInv', NEW o \in 1 .. Len(list), NEW v \in SortValues,
           NEW r \in list[o] .. Stop(list, Len(member), o),
           add_new_row_to_list(o, r, v)
    PROVE  Disciplined(o, r)
<1> SUFFICES ASSUME BecomesFirst(o, r), NEW p \in 1 .. o - 1, list[p] = list[o]
             PROVE  FALSE
  BY DEF Disciplined
<1>1. /\ Len(list) \in Nat /\ Len(list') = Len(list)
      /\ o \in 1 .. Len(list) /\ p \in 1 .. Len(list) /\ p <= o /\ p # o
  <2>1. IInv /\ list' \in Seq(Nat) /\ Len(list) \in Nat
    BY DEF DInv, IInv, TypeOK
  <2>2. Len(list') = Len(list)
    BY <2>1, AddKeepsLength
  <2> QED BY <2>1, <2>2
<1>2. list[o] \in Nat /\ (RangeCount(o) = 0 => r = list[o])
  BY StateIsWellCut, ColumnFacts DEF WellCut
<1>3. \E rows : insert_indirect(o, list[o], rows, v)
  <2>1. CASE indirect
    BY <1>2, <2>1 DEF BecomesFirst, add_new_row_to_list
  <2>2. CASE ~indirect
    BY <2>2 DEF BecomesFirst, add_new_row_to_list
  <2> QED BY <2>1, <2>2
<1>4. list' = [update_shifted_row_references(list[o]) EXCEPT ![o] = list[o]]
  BY <1>3 DEF insert_indirect
<1>5. list'[o] = list[o] /\ list'[p] = list[o] + 1
  BY <1>1, <1>2, <1>4 DEF update_shifted_row_references
<1>6. list'[p] <= list'[o]
  BY <1>1 DEF DInv, ListsAscend, Ascending
<1> QED BY <1>2, <1>5, <1>6

(* A row that a disciplined caller adds is in the list it was added to,     *)
(* also when the indirection table had to be created, it is the last one if *)
(* it had not, and no other list changes (write.c:752-781).                 *)
THEOREM DisciplinedAddReachesOwner == DisciplinedSpec => AddReachesItsOwner
<1>1. ASSUME DInv, DInv', NEW o \in 1 .. Len(list), md_add_new_row_to_list(o)
      PROVE  /\ \A p \in 1 .. Len(list) : p # o => ListOf(p)' = ListOf(p)
             /\ \E k \in 1 .. Len(ListOf(o)') : (ListOf(o)')[k] = Len(member')
             /\ indirect \/ RangeEnd(o) = EndRow =>
                   ListOf(o)' = Append(ListOf(o), Len(member'))
  <2> DEFINE s == ListOf(o)
             m == Len(member)
             r == RangeEnd(o)
             q == EntersAt(o, r)
             k == q - list[o] + 1
             S == 1 .. m + 1
  <2>1. /\ 0 \in SortValues /\ r \in list[o] .. Stop(list, m, o)
        /\ r = Stop(list, m, o) /\ add_new_row_to_list(o, r, 0)
    BY <1>1, InsertionPoints, SortAssumption DEF md_add_new_row_to_list
  <2>2. RowAdded(o, q) /\ EarlierStay(o)
    <3> HIDE DEF r
    <3> QED BY <1>1, <2>1, AddAddsRow, AscendingAddIsDisciplined
  <2>3. Len(member') = m + 1 /\ Len(list') = Len(list)
    <3>1. IInv /\ list' \in Seq(Nat)
      BY <1>1 DEF DInv, IInv, TypeOK
    <3>2. Len(list') = Len(list)
      BY <2>1, <3>1, AddKeepsLength
    <3> QED BY <2>2, <3>2 DEF RowAdded
  <2> HIDE DEF q
  <2>4. /\ k \in 1 .. Len(s) + 1 /\ ListOf(o)' = InsertAt(s, k, m + 1)
        /\ \A p \in 1 .. Len(list) : p # o => ListOf(p)' = ListOf(p)
    BY <1>1, <2>2, <2>3, ListsAfterAdd
  <2>5. s \in Seq(S) /\ m + 1 \in S /\ Len(s) \in Nat
    <3>1. s \in Seq(1 .. m) /\ m \in Nat /\ Len(s) \in Nat
      BY <1>1, ListHoldsMembers, DInvFacts
    <3> HIDE DEF s, m
    <3>2. 1 .. m \subseteq S /\ m + 1 \in S
      BY <3>1
    <3> HIDE DEF S
    <3> QED BY <3>1, <3>2, SeqMonotonic
  <2>6. InsertsOne(S, s, k, m + 1)
    <3> HIDE DEF s, k, m, S
    <3> QED BY <2>4, <2>5, InsertAtInserts
  <2>7. ASSUME indirect \/ r = EndRow PROVE ListOf(o)' = Append(s, m + 1)
    <3>1. q = Stop(list, m, o)
      BY <2>1, <2>7 DEF q, EntersAt
    <3>2. Len(s) = Stop(list, m, o) - list[o]
      <4>1. /\ m \in Nat /\ Column(list, m) /\ Standin \in [1 .. m -> 1 .. m]
            /\ s = Walk(list, Standin, m, o)
        BY <1>1, StateIsWellCut DEF WellCut
      <4> HIDE DEF s, m
      <4>2. VisitsInterval(list, Standin, m, o)
        BY <4>1, WalkFacts
      <4> QED BY <4>1, <4>2 DEF VisitsInterval
    <3>3. k = Len(s) + 1
      BY <3>1, <3>2
    <3> HIDE DEF s, k, m, S
    <3>4. Append(s, m + 1) = InsertAt(s, k, m + 1)
      BY <2>5, <3>3, AppendIsInsertAt
    <3> QED BY <2>4, <3>4
  <2> HIDE DEF s, k, m, S, r
  <2>8. k \in 1 .. Len(InsertAt(s, k, m + 1)) /\ InsertAt(s, k, m + 1)[k] = m + 1
    BY <2>4, <2>5, <2>6 DEF InsertsOne
  <2>9. \E i \in 1 .. Len(ListOf(o)') : (ListOf(o)')[i] = Len(member')
    BY <2>3, <2>4, <2>8
  <2> QED BY <2>3, <2>4, <2>7, <2>9 DEF s, r
<1>2. ASSUME DInv, DInv'
      PROVE  [\A o \in 1 .. Len(list) :
                 md_add_new_row_to_list(o) =>
                    /\ \A p \in 1 .. Len(list) : p # o => ListOf(p)' = ListOf(p)
                    /\ \E k \in 1 .. Len(ListOf(o)') : ListOf(o)'[k] = Len(member')
                    /\ indirect \/ RangeEnd(o) = EndRow =>
                          ListOf(o)' = Append(ListOf(o), Len(member'))]_vars
  BY <1>1, <1>2
<1> QED BY <1>2, PresentInitDInv, DisciplinedStepKeepsDInv, PTL
        DEF DisciplinedSpec, AddReachesItsOwner
----------------------------------------------------------------------------
(* The refinement.                                                          *)

(* What a state shows of its lists.                                         *)
Lists == [o \in 1 .. Len(list) |-> ListOf(o)]

ListsFit ==
    /\ Lists \in Seq(Seq(1 .. Len(member))) /\ Len(Lists) = Len(list)
    /\ \A o \in 1 .. Len(list) : Lists[o] = ListOf(o)

LEMMA ListsAreSequences == DInv => ListsFit
<1> SUFFICES ASSUME DInv PROVE ListsFit
  OBVIOUS
<1> DEFINE S == Seq(1 .. Len(member))
<1>1. Len(list) \in Nat
  BY DInvFacts
<1>2. \A o \in 1 .. Len(list) : ListOf(o) \in S
  BY ListHoldsMembers
<1> HIDE DEF S
<1>3. Lists \in [1 .. Len(list) -> S]
  BY <1>2 DEF Lists
<1>4. Lists \in Seq(S) /\ Len(Lists) = Len(list)
  BY ONLY <1>1, <1>3, FunctionIsSequence
<1> QED BY <1>4 DEF ListsFit, Lists, S

LEMMA NextListsAreSequences == DInv' => ListsFit'
BY ListsAreSequences, PTL

LEMMA StoreInit == DInv => Store!Init
<1> SUFFICES ASSUME DInv PROVE Store!Init
  OBVIOUS
<1> DEFINE m == Len(member)
<1>1. m \in Nat /\ WellCut /\ Column(list, m)
  BY StateIsWellCut DEF WellCut
<1>2. /\ Lists \in Seq(Seq(1 .. m)) /\ Len(Lists) = Len(list)
      /\ \A o \in 1 .. Len(list) : Lists[o] = ListOf(o)
  BY ListsAreSequences DEF ListsFit
<1>3. \A v : \A p \in 1 .. Len(list) : \A j :
         j \in 1 .. Len(Lists[p]) /\ Lists[p][j] = v
            <=> IsPlace(list, Standin, m, v, p, j)
  <2> TAKE v
  <2> TAKE p \in 1 .. Len(list)
  <2>1. VisitsInterval(list, Standin, m, p) /\ Lists[p] = Walk(list, Standin, m, p)
    BY <1>1, <1>2, WalkFacts DEF WellCut
  <2> QED BY <2>1 DEF VisitsInterval, IsPlace
<1>4. ASSUME NEW v \in 1 .. m
      PROVE  \E o \in 1 .. Len(Lists) : \E k \in 1 .. Len(Lists[o]) :
                /\ Lists[o][k] = v
                /\ \A p \in 1 .. Len(Lists) : \A j \in 1 .. Len(Lists[p]) :
                      Lists[p][j] = v => p = o /\ j = k
  <2>1. PICK o, k : /\ IsPlace(list, Standin, m, v, o, k)
                    /\ \A p, j : IsPlace(list, Standin, m, v, p, j) => p = o /\ j = k
    BY <1>1, OnePlace DEF WellCut
  <2>2. o \in 1 .. Len(list)
    BY <2>1 DEF IsPlace
  <2>3. k \in 1 .. Len(Lists[o]) /\ Lists[o][k] = v
    BY <1>3, <2>1, <2>2
  <2>4. \A p \in 1 .. Len(list) : \A j \in 1 .. Len(Lists[p]) :
           Lists[p][j] = v => p = o /\ j = k
    <3> SUFFICES ASSUME NEW p \in 1 .. Len(list), NEW j \in 1 .. Len(Lists[p]),
                        Lists[p][j] = v
                 PROVE  p = o /\ j = k
      OBVIOUS
    <3> HIDE DEF m
    <3>1. IsPlace(list, Standin, m, v, p, j)
      BY <1>3, Zenon
    <3> QED BY <2>1, <3>1, Zenon
  <2>5. o \in 1 .. Len(Lists)
    BY <1>2, <2>2
  <2>6. \A p \in 1 .. Len(Lists) : \A j \in 1 .. Len(Lists[p]) :
           Lists[p][j] = v => p = o /\ j = k
    BY <1>2, <2>4
  <2> HIDE DEF m
  <2> QED BY <2>3, <2>5, <2>6, Zenon
<1> QED BY <1>1, <1>2, <1>4 DEF Store!Init, Lists

LEMMA StoreAddsMember ==
    ASSUME DInv, DInv', NEW o \in 1 .. Len(list), NEW v \in SortValues,
           NEW r \in list[o] .. Stop(list, Len(member), o),
           add_new_row_to_list(o, r, v), Disciplined(o, r)
    PROVE  Store!AddMember(o)
<1> DEFINE e == Len(member) + 1
<1>1. /\ Len(member') = e /\ Len(list') = Len(list)
      /\ \E k \in 1 .. Len(ListOf(o)) + 1 : ListOf(o)' = InsertAt(ListOf(o), k, e)
      /\ \A p \in 1 .. Len(list) : p # o => ListOf(p)' = ListOf(p)
  BY AddedToList
<1>2. PICK k \in 1 .. Len(ListOf(o)) + 1 : ListOf(o)' = InsertAt(ListOf(o), k, e)
  BY <1>1
<1>3. Lists' = [Lists EXCEPT ![o] = InsertAt(Lists[o], k, e)]
  <2> HIDE DEF e
  <2>1. Lists[o] = ListOf(o)
    BY DEF Lists
  <2>2. Lists' = [p \in 1 .. Len(list) |-> ListOf(p)']
    BY <1>1 DEF Lists
  <2>3. \A p \in 1 .. Len(list) :
           ListOf(p)' = IF p = o THEN InsertAt(ListOf(o), k, e) ELSE ListOf(p)
    BY <1>1, <1>2
  <2> QED BY <2>1, <2>2, <2>3 DEF Lists
<1>4. k \in 1 .. Len(Lists[o]) + 1
  BY DEF Lists
<1> QED BY <1>1, <1>3, <1>4 DEF Store!AddMember, Store!InsertAt, Lists, InsertAt

LEMMA StoreAddsOwner ==
    ASSUME DInv, DInv', NEW o \in 1 .. Len(list) + 1,
           list' = InsertAt(list, o, IF o <= Len(list) THEN list[o] ELSE EndRow),
           UNCHANGED <<member, ptr, indirect>>
    PROVE  Store!AddOwner(o)
<1> DEFINE n == Len(list)
           m == Len(member)
           start == IF o <= n THEN list[o] ELSE EndRow
           T == Seq(1 .. m)
<1>1. /\ n \in Nat /\ m \in Nat /\ EndRow = m + 1 /\ Column(list, m)
      /\ Standin \in [1 .. m -> 1 .. m] /\ list \in Seq(Nat)
      /\ \A p \in 1 .. n : ListOf(p) = Walk(list, Standin, m, p)
  BY StateIsWellCut, DInvFacts DEF WellCut, DInv, IInv, TypeOK
<1>2. OwnerEnters(list, m, list', o)
  <2>1. start \in Nat /\ o \in 1 .. Len(list) + 1
    BY <1>1
  <2>2. InsertsOne(Nat, list, o, start)
    <3> HIDE DEF start
    <3> QED BY <1>1, <2>1, InsertAtInserts
  <2>3. list' = InsertAt(list, o, start)
    OBVIOUS
  <2> HIDE DEF m
  <2> QED BY <1>1, <2>2, <2>3 DEF InsertsOne, OwnerEnters
<1>3. \A p \in 1 .. n + 1 : ListOf(p)' = Walk(list', Standin, m, p)
  <2>1. WellCut' /\ Standin' = Standin /\ Len(member') = m
    BY NextStateIsWellCut DEF Standin
  <2> QED BY <1>2, <2>1 DEF WellCut, OwnerEnters
<1>4. WalksMakeRoom(list, Standin, m, list', o)
  <2> HIDE DEF m
  <2> QED BY <1>1, <1>2, WalkAfterNewOwner
<1>5. ListsFit /\ ListsFit'
  BY ListsAreSequences, NextListsAreSequences
<1>6. \A i \in 1 .. n + 1 :
         (Lists')[i] = IF i < o THEN Lists[i] ELSE IF i = o THEN << >> ELSE Lists[i - 1]
  <2> TAKE i \in 1 .. n + 1
  <2>1. /\ i < o => i \in 1 .. n
        /\ i > o => i - 1 \in 1 .. n
        /\ i < o \/ i = o \/ i > o
        /\ o \in Int /\ i \in Int
    BY <1>1
  <2>2. (Lists')[i] = ListOf(i)'
    BY <1>2, <1>5 DEF ListsFit, OwnerEnters
  <2>3. \A p \in 1 .. n : Lists[p] = Walk(list, Standin, m, p)
    BY <1>1, <1>5 DEF ListsFit
  <2>4. \A p \in 1 .. n + 1 :
           Walk(list', Standin, m, p) = IF p < o THEN Walk(list, Standin, m, p)
                                        ELSE IF p = o THEN << >>
                                        ELSE Walk(list, Standin, m, p - 1)
    BY <1>4 DEF WalksMakeRoom
  <2> HIDE DEF m, n
  <2> QED BY <1>3, <2>1, <2>2, <2>3, <2>4
<1>7. InsertsOne(T, Lists, o, << >>)
  <2>1. Lists \in Seq(T) /\ Len(Lists) = n /\ << >> \in T
    BY <1>5 DEF ListsFit
  <2> HIDE DEF T
  <2> QED BY <2>1, InsertAtInserts
<1>8. Lists' = InsertAt(Lists, o, << >>)
  <2>1. Lists' \in Seq(T) /\ Len(Lists') = n + 1 /\ Len(Lists) = n
    BY <1>2, <1>5 DEF ListsFit, OwnerEnters
  <2> HIDE DEF T
  <2>2. /\ InsertAt(Lists, o, << >>) \in Seq(T) /\ Len(InsertAt(Lists, o, << >>)) = n + 1
        /\ \A i \in 1 .. n + 1 :
              InsertAt(Lists, o, << >>)[i] = IF i < o THEN Lists[i]
                                             ELSE IF i = o THEN << >> ELSE Lists[i - 1]
    BY <1>7, <2>1 DEF InsertsOne
  <2> QED BY <1>6, <2>1, <2>2, SeqEqual
<1> QED BY <1>8 DEF Store!AddOwner, Store!InsertAt, Lists, InsertAt

LEMMA StoreStutters ==
    ASSUME DInv, DInv', list' = list, member' = member, Standin' = Standin
    PROVE  UNCHANGED Store!vars
<1>1. ListsFit /\ ListsFit' /\ WellCut /\ WellCut'
  BY ListsAreSequences, NextListsAreSequences, StateIsWellCut, NextStateIsWellCut
<1>2. \A p \in 1 .. Len(list) : ListOf(p)' = ListOf(p)
  BY <1>1 DEF WellCut
<1>3. Lists' = Lists
  BY <1>2 DEF Lists
<1> QED BY <1>3 DEF Store!vars, Lists

(* Whatever indirection tables it takes, a disciplined caller gets what     *)
(* ListStore promises: every step enters one new member into one list,      *)
(* enters one empty list among the others, or changes no list at all.       *)
THEOREM DisciplinedListsAreAStore == DisciplinedSpec => ImplementsListStore
<1>1. ASSUME DInv, DInv', [DisciplinedNext]_vars
      PROVE  [Store!Next]_(Store!vars)
  <2> DEFINE n == Len(list)
  <2>1. /\ n \in Nat \ {0} /\ list \in Seq(Nat) /\ present
        /\ EndRow = Len(member) + 1 /\ Len(Lists) = n
    BY <1>1, DInvFacts, ListsAreSequences DEF DInv, IInv, TypeOK, ListsFit
  <2>2. \A o \in 1 .. n : Store!AddMember(o) => Store!Next
    BY <2>1 DEF Store!Next, Lists
  <2>3. \A o \in 1 .. n + 1 : Store!AddOwner(o) => Store!Next
    BY <2>1 DEF Store!Next, Lists
  <2>4. ASSUME NEW o \in 1 .. n, DisciplinedAdd(o) PROVE Store!AddMember(o)
    <3>1. CASE Disciplined(o, RangeEnd(o)) /\ md_add_new_row_to_list(o)
      <4>1. /\ add_new_row_to_list(o, RangeEnd(o), 0)
            /\ RangeEnd(o) \in list[o] .. Stop(list, Len(member), o)
            /\ 0 \in SortValues
        BY <1>1, <3>1, InsertionPoints, SortAssumption DEF md_add_new_row_to_list
      <4> QED BY <1>1, <3>1, <4>1, StoreAddsMember
    <3>2. ASSUME NEW v \in SortValues, Disciplined(o, SortedPosition(o, v)),
                 md_add_new_row_to_sorted_list(o, v)
          PROVE  Store!AddMember(o)
      <4>1. /\ add_new_row_to_list(o, SortedPosition(o, v), v)
            /\ SortedPosition(o, v) \in list[o] .. Stop(list, Len(member), o)
        BY <1>1, <3>2, InsertionPoints DEF md_add_new_row_to_sorted_list
      <4> QED BY <1>1, <3>2, <4>1, StoreAddsMember
    <3> QED BY <2>4, <3>1, <3>2 DEF DisciplinedAdd
  <2>5. ASSUME NEW o \in 1 .. n, md_insert_row_before(o) PROVE Store!AddOwner(o)
    <3>1. /\ list' = InsertAt(list, o, list[o]) /\ UNCHANGED <<member, ptr, indirect>>
          /\ o \in 1 .. n + 1 /\ o <= n
      BY <2>1, <2>5 DEF md_insert_row_before
    <3> QED BY <1>1, <3>1, StoreAddsOwner
  <2>6. ASSUME md_append_row PROVE Store!AddOwner(n + 1)
    <3>1. /\ list' = Append(list, EndRow) /\ UNCHANGED <<member, ptr, indirect>>
          /\ n + 1 \in 1 .. n + 1 /\ ~(n + 1 <= n) /\ EndRow \in Nat
      BY <1>1, <2>1, <2>6, DInvFacts DEF md_append_row, set_column_as_end_of_table_cursor
    <3>2. list' = InsertAt(list, n + 1, EndRow)
      BY <2>1, <3>1, AppendIsInsertAt
    <3> QED BY <1>1, <3>1, <3>2, StoreAddsOwner
  <2>7. ASSUME NEW o \in 1 .. n, refused_add_to_list(o) PROVE UNCHANGED Store!vars
    <3>1. /\ ~indirect /\ indirect' = TRUE /\ ptr' = create_and_fill_indirect_table
          /\ list' = list /\ member' = member
      BY <2>7, Zenon DEF refused_add_to_list
    <3>2. Standin' = Standin
      BY <3>1 DEF Standin, create_and_fill_indirect_table
    <3> QED BY <1>1, <3>1, <3>2, StoreStutters
  <2>8. ASSUME md_commit_member \/ md_commit_owner \/ UNCHANGED vars
        PROVE  UNCHANGED Store!vars
    <3>1. UNCHANGED tables
      BY <2>8 DEF md_commit_member, md_commit_owner, vars, tables
    <3>2. list' = list /\ member' = member /\ Standin' = Standin
      BY <3>1 DEF tables, Standin
    <3> QED BY <1>1, <3>2, StoreStutters
  <2> HIDE DEF n
  <2>9. n \in 1 .. n + 1 /\ n + 1 \in 1 .. n + 1 /\ 1 .. n \subseteq 1 .. n + 1
    BY <2>1
  <2> QED BY <1>1, <2>2, <2>3, <2>4, <2>5, <2>6, <2>7, <2>8, <2>9 DEF DisciplinedNext, n
<1> QED BY <1>1, PresentInitDInv, StoreInit, DisciplinedStepKeepsDInv, PTL
        DEF DisciplinedSpec, ImplementsListStore, Store!Spec
----------------------------------------------------------------------------
(* Sorted lists.                                                            *)

(* The rows of the interval of o stand for members in ascending order.      *)
RowsSorted(o) ==
    \A x, y \in list[o] .. Stop(list, Len(member), o) - 1 :
       x <= y => member[Standin[x]] <= member[Standin[y]]

SortedByRows == \A o \in 1 .. Len(list) : SortedList(o) <=> RowsSorted(o)

LEMMA ListIsSortedByRows == DInv => SortedByRows
<1> SUFFICES ASSUME DInv, NEW o \in 1 .. Len(list)
             PROVE  SortedList(o) <=> RowsSorted(o)
  BY DEF SortedByRows
<1> DEFINE m == Len(member)
           l == ListOf(o)
           a == list[o]
           z == Stop(list, m, o)
           s == [k \in 1 .. Len(l) |-> member[l[k]]]
<1>1. /\ m \in Nat /\ Column(list, m) /\ Standin \in [1 .. m -> 1 .. m]
      /\ l = Walk(list, Standin, m, o)
  BY StateIsWellCut DEF WellCut
<1>2. VisitsInterval(list, Standin, m, o)
  BY <1>1, WalkFacts
<1>3. /\ Len(l) = z - a /\ z - a \in 0 .. m
      /\ \A k \in 1 .. z - a : a + k - 1 \in 1 .. m /\ l[k] = Standin[a + k - 1]
  BY <1>1, <1>2 DEF VisitsInterval
<1>4. a \in 1 .. m + 1 /\ z \in a .. m + 1
  BY <1>1, ColumnFacts
<1>5. Len(s) = z - a /\ \A k \in 1 .. z - a : s[k] = member[Standin[a + k - 1]]
  <2> HIDE DEF l, z, a
  <2>1. Len(l) \in Nat
    BY <1>3
  <2> QED BY <1>3, <2>1
<1>6. SortedList(o) <=> \A i, j \in 1 .. z - a : i <= j => s[i] <= s[j]
  <2>1. SortedList(o) <=> Ascending(s)
    BY DEF SortedList
  <2> HIDE DEF s, z, a
  <2> QED BY <1>5, <2>1 DEF Ascending
<1>7. RowsSorted(o) <=> \A x, y \in a .. z - 1 :
                           x <= y => member[Standin[x]] <= member[Standin[y]]
  BY DEF RowsSorted
<1> HIDE DEF m, l, a, z, s
<1>8. ASSUME \A i, j \in 1 .. z - a : i <= j => s[i] <= s[j],
             NEW x \in a .. z - 1, NEW y \in a .. z - 1, x <= y
      PROVE  member[Standin[x]] <= member[Standin[y]]
  <2> DEFINE i == x - a + 1
             j == y - a + 1
  <2>1. i \in 1 .. z - a /\ j \in 1 .. z - a /\ i <= j /\ a + i - 1 = x /\ a + j - 1 = y
    BY <1>4, <1>8
  <2> HIDE DEF i, j
  <2>2. s[i] <= s[j]
    BY <1>8, <2>1
  <2> QED BY <1>5, <2>1, <2>2
<1>9. ASSUME \A x, y \in a .. z - 1 : x <= y => member[Standin[x]] <= member[Standin[y]],
             NEW i \in 1 .. z - a, NEW j \in 1 .. z - a, i <= j
      PROVE  s[i] <= s[j]
  <2> DEFINE x == a + i - 1
             y == a + j - 1
  <2>1. x \in a .. z - 1 /\ y \in a .. z - 1 /\ x <= y
    BY <1>4, <1>9
  <2>2. s[i] = member[Standin[x]] /\ s[j] = member[Standin[y]]
    BY <1>5
  <2> HIDE DEF x, y
  <2> QED BY <1>9, <2>1, <2>2
<1> QED BY <1>6, <1>7, <1>8, <1>9

LEMMA NextListIsSortedByRows == DInv' => SortedByRows'
BY ListIsSortedByRows, PTL

(* The position found for v parts a sorted interval: what is before it is   *)
(* not above v, what is after it is.                                        *)
LEMMA SortedPositionParts ==
    ASSUME DInv, NEW o \in 1 .. Len(list), NEW v \in SortValues,
           RowsSorted(o), ~ScanStopsAtRow1(o, v)
    PROVE  \A x \in list[o] .. Stop(list, Len(member), o) - 1 :
              IF x < SortedPosition(o, v) THEN member[Standin[x]] <= v
              ELSE v <= member[Standin[x]]
<1> DEFINE m == Len(member)
           a == list[o]
           z == Stop(list, m, o)
           notAbove == {r \in a .. z - 1 : member[md_resolve_indirect_cursor(r)] <= v}
<1>1. /\ m \in Nat /\ a \in 1 .. m + 1 /\ z \in a .. m + 1 /\ EndRow = m + 1
      /\ Standin \in [1 .. m -> 1 .. m] /\ RangeCount(o) = z - a
      /\ RangeStart(o) = a /\ RangeEnd(o) = z
      /\ member \in Seq(SortValues)
  BY StateIsWellCut, ColumnFacts, InsertionPoints, DInvFacts DEF WellCut, DInv, IInv, TypeOK
<1>2. SortedPosition(o, v) = IF notAbove = {} THEN a
                             ELSE IF Max(notAbove) = 1 THEN a ELSE Max(notAbove) + 1
  BY <1>1 DEF SortedPosition
<1>3. /\ v \in Nat
      /\ \A x \in a .. z - 1 : /\ x \in 1 .. m /\ member[Standin[x]] \in Nat
                               /\ x \in notAbove <=> member[Standin[x]] <= v
  <2>1. v \in Nat /\ \A x \in 1 .. m : member[x] \in Nat
    <3>1. \A x \in 1 .. m : member[x] \in SortValues
      BY <1>1
    <3>2. SortValues \subseteq Nat /\ v \in SortValues
      BY SortAssumption
    <3> HIDE DEF m
    <3> QED BY <3>1, <3>2
  <2>2. \A x \in 1 .. m : Standin[x] \in 1 .. m /\ md_resolve_indirect_cursor(x) = Standin[x]
    BY <1>1 DEF md_resolve_indirect_cursor, Standin
  <2> HIDE DEF a, z, m
  <2>3. \A x \in a .. z - 1 : x \in 1 .. m
    BY <1>1
  <2> QED BY <2>1, <2>2, <2>3
<1>4. \A x, y \in a .. z - 1 : x <= y => member[Standin[x]] <= member[Standin[y]]
  BY DEF RowsSorted
<1>5. notAbove \subseteq a .. z - 1
  OBVIOUS
<1>6. notAbove # {} => SortedPosition(o, v) # a
  <2> SUFFICES ASSUME NEW y \in notAbove, SortedPosition(o, v) = a PROVE FALSE
    OBVIOUS
  <2>1. y \in a .. z - 1 /\ member[Standin[y]] <= v
    BY <1>3, <1>5
  <2>2. ListOf(o) = Walk(list, Standin, m, o) /\ VisitsInterval(list, Standin, m, o)
    BY StateIsWellCut, WalkFacts DEF WellCut
  <2> HIDE DEF m, notAbove
  <2>3. Len(ListOf(o)) = z - a /\ \A k \in 1 .. z - a : ListOf(o)[k] = Standin[a + k - 1]
    BY <2>2 DEF VisitsInterval
  <2> HIDE DEF a, z
  <2>4. y - a + 1 \in 1 .. z - a /\ a + (y - a + 1) - 1 = y
    BY <1>1, <2>1
  <2>5. y - a + 1 \in 1 .. Len(ListOf(o)) /\ ListOf(o)[y - a + 1] = Standin[y]
    BY <2>3, <2>4
  <2> QED BY <2>1, <2>5 DEF ScanStopsAtRow1, a
<1> SUFFICES ASSUME NEW x \in a .. z - 1
             PROVE  IF x < SortedPosition(o, v) THEN member[Standin[x]] <= v
                    ELSE v <= member[Standin[x]]
  OBVIOUS
<1> HIDE DEF m, a, z, notAbove
<1>7. CASE notAbove = {}
  <2>1. ~(x < SortedPosition(o, v))
    BY <1>1, <1>2, <1>7
  <2>2. v <= member[Standin[x]]
    BY <1>3, <1>7
  <2> QED BY <2>1, <2>2
<1>8. CASE notAbove # {}
  <2> DEFINE top == Max(notAbove)
  <2>1. notAbove \subseteq 0 .. m
    BY <1>1, <1>5
  <2>2. top \in notAbove /\ \A y \in notAbove : top >= y
    BY <1>1, <1>8, <2>1, MaxIsMember
  <2> HIDE DEF top
  <2>3. top \in a .. z - 1 /\ top # 1
    BY <1>2, <1>5, <1>6, <1>8, <2>2 DEF top
  <2>4. SortedPosition(o, v) = top + 1
    BY <1>2, <1>8, <2>3 DEF top
  <2>5. CASE x <= top
    <3>1. member[Standin[x]] <= member[Standin[top]] /\ member[Standin[top]] <= v
      BY <1>3, <1>4, <2>2, <2>3, <2>5
    <3>2. member[Standin[x]] <= v
      BY <1>3, <2>3, <3>1
    <3>3. x < SortedPosition(o, v)
      BY <1>1, <2>3, <2>4, <2>5
    <3> QED BY <3>2, <3>3
  <2>6. CASE x > top
    <3>1. x \notin notAbove
      BY <1>1, <2>2, <2>3, <2>6
    <3>2. v <= member[Standin[x]]
      BY <1>3, <3>1
    <3>3. ~(x < SortedPosition(o, v))
      BY <1>1, <2>3, <2>4, <2>6
    <3> QED BY <3>2, <3>3
  <2> QED BY <1>1, <2>3, <2>5, <2>6
<1> QED BY <1>7, <1>8

(* A sorted insert of a disciplined caller keeps an ascending list          *)
(* ascending, for any values of the sort column, but for the two adds that  *)
(* misplace a member (write.c:783-863).                                     *)
THEOREM DisciplinedSortedInsert == DisciplinedSpec => SortedInsertKeepsOrder
<1>1. ASSUME DInv, DInv', NEW o \in 1 .. Len(list), NEW v \in SortValues,
             md_add_new_row_to_sorted_list(o, v), SortedList(o),
             ~ScanStopsAtRow1(o, v), ~ResumesAtStart(o, v)
      PROVE  SortedList(o)'
  <2> DEFINE m == Len(member)
             a == list[o]
             z == Stop(list, m, o)
             q == SortedPosition(o, v)
             val(x) == member[Standin[x]]
             val2(x) == (member')[(Standin')[x]]
  <2>1. q \in a .. z /\ add_new_row_to_list(o, q, v)
    BY <1>1, InsertionPoints DEF md_add_new_row_to_sorted_list
  <2>2. EntersAt(o, q) = q
    BY <1>1 DEF EntersAt, ResumesAtStart
  <2>3. RowAdded(o, q)
    <3> HIDE DEF q
    <3>1. RowAdded(o, EntersAt(o, q))
      BY <1>1, <2>1, AddAddsRow
    <3> QED BY <2>2, <3>1 DEF q
  <2>4. Len(list') = Len(list) /\ list'[o] = a /\ Stop(list', Len(member'), o) = z + 1
    <3>1. IInv /\ list' \in Seq(Nat) /\ Len(list) \in Nat
      BY <1>1 DEF DInv, IInv, TypeOK
    <3>2. Len(list') = Len(list)
      BY <2>1, <3>1, AddKeepsLength
    <3>3. /\ Len(member') = m + 1
          /\ \A p \in o .. Len(list) : list'[p] = IF p = o THEN list[p] ELSE list[p] + 1
      BY <2>3 DEF RowAdded, RowEnters
    <3> HIDE DEF m
    <3>4. o < Len(list) => o + 1 \in o .. Len(list) /\ o + 1 # o /\ o \in o .. Len(list)
      BY <3>1
    <3>5. o \in o .. Len(list)
      BY <3>1
    <3> QED BY <3>2, <3>3, <3>4, <3>5 DEF Stop
  <2>5. /\ m \in Nat /\ a \in 1 .. m + 1 /\ z \in a .. m + 1
        /\ Standin \in [1 .. m -> 1 .. m] /\ v \in Nat
        /\ \A x \in 1 .. m : member[x] \in Nat
    <3>1. m \in Nat /\ a \in 1 .. m + 1 /\ z \in a .. m + 1
          /\ Standin \in [1 .. m -> 1 .. m]
      BY <1>1, StateIsWellCut, ColumnFacts DEF WellCut
    <3>2. \A x \in 1 .. m : member[x] \in SortValues
      BY <1>1 DEF DInv, IInv, TypeOK
    <3>3. SortValues \subseteq Nat /\ v \in SortValues
      BY SortAssumption
    <3> HIDE DEF m, a, z
    <3> QED BY <3>1, <3>2, <3>3
  <2>6. \A x \in 1 .. m + 1 : val2(x) = IF x < q THEN val(x)
                                        ELSE IF x = q THEN v ELSE val(x - 1)
    <3>1. member' = Append(member, v) /\ member \in Seq(SortValues)
      BY <1>1, <2>1 DEF add_new_row_to_list, append_to_list, insert_indirect,
                        append_member, DInv, IInv, TypeOK
    <3>2. (member')[m + 1] = v /\ \A i \in 1 .. m : (member')[i] = member[i]
      BY <3>1
    <3>3. \A x \in 1 .. m + 1 :
             Standin'[x] = IF x < q THEN Standin[x]
                           ELSE IF x = q THEN m + 1 ELSE Standin[x - 1]
      BY <2>3 DEF RowAdded, RowEnters
    <3> HIDE DEF m, a, z, q
    <3> TAKE x \in 1 .. m + 1
    <3>4. q \in 1 .. m + 1
      BY <2>1, <2>5
    <3>5. CASE x < q
      <4>1. x \in 1 .. m
        BY <2>5, <3>4, <3>5
      <4>2. Standin'[x] = Standin[x] /\ Standin[x] \in 1 .. m
        BY <2>5, <3>3, <3>5, <4>1
      <4> QED BY <3>2, <3>5, <4>2
    <3>6. CASE x = q
      BY <3>2, <3>3, <3>6
    <3>7. CASE x > q
      <4>1. x - 1 \in 1 .. m /\ ~(x < q) /\ x # q
        BY <2>5, <3>4, <3>7
      <4>2. Standin'[x] = Standin[x - 1] /\ Standin[x - 1] \in 1 .. m
        BY <2>5, <3>3, <4>1
      <4> QED BY <3>2, <4>1, <4>2
    <3> QED BY <2>5, <3>4, <3>5, <3>6, <3>7
  <2>7. RowsSorted(o)
    BY <1>1, ListIsSortedByRows DEF SortedByRows
  <2>8. \A x \in a .. z - 1 : IF x < q THEN val(x) <= v ELSE v <= val(x)
    BY <1>1, <2>7, SortedPositionParts
  <2>9. \A x, y \in a .. z - 1 : x <= y => val(x) <= val(y)
    BY <2>7 DEF RowsSorted
  <2>10. \A x \in a .. z - 1 : val(x) \in Nat
    <3> HIDE DEF a, z, m
    <3>1. \A x \in a .. z - 1 : x \in 1 .. m
      BY <2>5
    <3> QED BY <2>5, <3>1
  <2>11. \A x \in a .. z : val2(x) = IF x < q THEN val(x)
                                     ELSE IF x = q THEN v ELSE val(x - 1)
    <3> HIDE DEF a, z, m, q, val, val2
    <3>1. \A x \in a .. z : x \in 1 .. m + 1
      BY <2>5
    <3> QED BY <2>6, <3>1
  <2>12. \A x, y \in a .. (z + 1) - 1 : x <= y => val2(x) <= val2(y)
    <3> SUFFICES ASSUME NEW x \in a .. (z + 1) - 1, NEW y \in a .. (z + 1) - 1, x <= y
                 PROVE  val2(x) <= val2(y)
      OBVIOUS
    <3> HIDE DEF a, z, m, q, val, val2
    <3>1. /\ x \in a .. z /\ y \in a .. z
          /\ x < q => x \in a .. z - 1
          /\ y < q => y \in a .. z - 1
          /\ x > q => x - 1 \in a .. z - 1 /\ ~(x - 1 < q)
          /\ y > q => y - 1 \in a .. z - 1 /\ ~(y - 1 < q)
          /\ x < q \/ x = q \/ x > q
          /\ y < q \/ y = q \/ y > q
          /\ q \in Int /\ x \in Int /\ y \in Int
      BY <2>1, <2>5
    <3>2. CASE x < q /\ y < q
      BY <2>9, <2>11, <3>1, <3>2
    <3>3. CASE x < q /\ y = q
      BY <2>8, <2>11, <3>1, <3>3
    <3>4. CASE x < q /\ y > q
      <4>1. val(x) <= v /\ v <= val(y - 1)
        BY <2>8, <3>1, <3>4
      <4>2. val2(x) = val(x) /\ val2(y) = val(y - 1)
        BY <2>11, <3>1, <3>4
      <4>3. val(x) \in Nat /\ val(y - 1) \in Nat
        BY <2>10, <3>1, <3>4
      <4> QED BY <2>5, <4>1, <4>2, <4>3
    <3>5. CASE x = q /\ y = q
      BY <2>5, <2>11, <3>1, <3>5
    <3>6. CASE x = q /\ y > q
      BY <2>8, <2>11, <3>1, <3>6
    <3>7. CASE x > q
      <4>1. y > q /\ x - 1 <= y - 1
        BY <3>1, <3>7
      <4>2. val(x - 1) <= val(y - 1)
        BY <2>9, <3>1, <3>7, <4>1
      <4> QED BY <2>11, <3>1, <3>7, <4>1, <4>2
    <3>8. ~(x = q /\ y < q)
      BY <3>1
    <3> QED BY <3>1, <3>2, <3>3, <3>4, <3>5, <3>6, <3>7, <3>8
  <2>13. RowsSorted(o)'
    <3> HIDE DEF a, z, m
    <3> QED BY <2>4, <2>12 DEF RowsSorted
  <2>14. SortedByRows' /\ o \in 1 .. Len(list')
    BY <1>1, <2>4, NextListIsSortedByRows
  <2> QED BY <2>13, <2>14 DEF SortedByRows
<1>2. ASSUME DInv, DInv'
      PROVE  [\A o \in 1 .. Len(list), v \in SortValues :
                 /\ md_add_new_row_to_sorted_list(o, v)
                 /\ SortedList(o)
                 /\ ~ScanStopsAtRow1(o, v) /\ ~ResumesAtStart(o, v)
                 => SortedList(o)']_vars
  BY <1>1, <1>2
<1> QED BY <1>2, PresentInitDInv, DisciplinedStepKeepsDInv, PTL
        DEF DisciplinedSpec, SortedInsertKeepsOrder
----------------------------------------------------------------------------
(* Any caller.                                                              *)

(* A call that adds no row leaves every list as it was, for any caller and  *)
(* also where a list ends before it starts (write.c:735-742).               *)
THEOREM RefusedCallsKeepLists == Spec => NoRowNoChange
<1>1. ASSUME IInv, NEW o \in 1 .. Len(list), refused_add_to_list(o),
             NEW p \in 1 .. Len(list)
      PROVE  ListOf(p)' = ListOf(p)
  <2> DEFINE m == Len(member)
             later == {i \in p + 1 .. Len(list) : list[i] # 0}
             count == IF RangeCount(p) < 0 THEN EndRow - list[p] ELSE RangeCount(p)
  <2>1. /\ m \in Nat /\ Len(list) \in Nat /\ EndRow = m + 1
        /\ \A i \in 1 .. Len(list) : list[i] \in 0 .. m + 1
    BY <1>1, TableBounds
  <2>2. /\ ~indirect /\ indirect' = TRUE /\ ptr' = [i \in 1 .. m |-> i]
        /\ list' = list /\ member' = member
    BY <1>1, Zenon DEF refused_add_to_list, create_and_fill_indirect_table
  <2>3. EndRow' = EndRow
    <3>1. Len(ptr') = m
      BY <2>1, <2>2
    <3> QED BY <2>2, <3>1 DEF EndRow, TargetRows
  <2>4. NextStart(p) \in 0 .. m + 1
    <3> SUFFICES ASSUME later # {} PROVE list[Min(later)] \in 0 .. m + 1
      BY <2>1 DEF NextStart
    <3>1. later \subseteq Nat
      BY <2>1
    <3> HIDE DEF later
    <3>2. Min(later) \in later
      BY <3>1, MinIsMember
    <3>3. Min(later) \in 1 .. Len(list)
      BY <2>1, <3>2 DEF later
    <3> QED BY <2>1, <3>3
  <2>5. NextStart(p)' = NextStart(p)
    BY <2>2, <2>3 DEF NextStart
  <2>6. RangeCount(p)' = RangeCount(p)
    BY <2>2, <2>3, <2>5 DEF RangeCount
  <2>7. /\ ListOf(p) = [k \in 1 .. count |-> md_resolve_indirect_cursor(list[p] + k - 1)]
        /\ ListOf(p)' = [k \in 1 .. count |-> md_resolve_indirect_cursor(list[p] + k - 1)']
    BY <2>2, <2>3, <2>6 DEF ListOf
  <2>8. \A k \in 1 .. count : list[p] + k - 1 \in 1 .. m
    <3> DEFINE a == list[p]
               z == NextStart(p)
    <3>1. a \in 0 .. m + 1 /\ z \in 0 .. m + 1
      BY <2>1, <2>4
    <3>2. count = IF a \in {0, m + 1} THEN 0 ELSE IF z - a < 0 THEN (m + 1) - a ELSE z - a
      <4>1. RangeCount(p) = IF a \in {0, m + 1} THEN 0 ELSE z - a
        BY <2>1 DEF RangeCount
      <4> HIDE DEF a, z, m
      <4>2. CASE a \in {0, m + 1}
        <5>1. RangeCount(p) = 0 /\ ~(0 < 0)
          BY <4>1, <4>2
        <5> QED BY <4>2, <5>1
      <4>3. CASE a \notin {0, m + 1}
        BY <2>1, <4>1, <4>3 DEF a
      <4> QED BY <4>2, <4>3
    <3> HIDE DEF a, z, m, count
    <3> SUFFICES ASSUME NEW k \in 1 .. count PROVE a + k - 1 \in 1 .. m
      BY DEF a
    <3> QED BY <2>1, <3>1, <3>2
  <2>9. \A r \in 1 .. m : md_resolve_indirect_cursor(r)' = md_resolve_indirect_cursor(r)
    BY <2>1, <2>2, <2>3 DEF md_resolve_indirect_cursor
  <2> HIDE DEF count, m
  <2>10. \A k \in 1 .. count : md_resolve_indirect_cursor(list[p] + k - 1)'
                                 = md_resolve_indirect_cursor(list[p] + k - 1)
    <3> TAKE k \in 1 .. count
    <3> DEFINE r == list[p] + k - 1
    <3>1. r' = r
      BY <2>2
    <3> QED BY <2>2, <2>8, <2>9
  <2> QED BY <2>7, <2>10
<1>2. ASSUME UNCHANGED tables, NEW p \in 1 .. Len(list)
      PROVE  ListOf(p)' = ListOf(p)
  BY <1>2 DEF tables, ListOf, RangeCount, NextStart, EndRow, TargetRows,
              md_resolve_indirect_cursor
<1>3. ASSUME IInv, NEW o, NEW v \in SortValues, NEW r, add_new_row_to_list(o, r, v)
      PROVE  Len(member') # Len(member)
  <2>1. append_member(v)
    BY <1>3 DEF add_new_row_to_list, append_to_list, insert_indirect
  <2> QED BY <1>3, <2>1, AppendedMember, TableBounds
<1>4. ASSUME IInv, NEW o \in 1 .. Len(list), AddMember(o)
      PROVE  Len(member') # Len(member)
  <2>1. 0 \in SortValues
    BY SortAssumption
  <2> QED BY <1>3, <1>4, <2>1 DEF AddMember, md_add_new_row_to_list,
                                  md_add_new_row_to_sorted_list
<1>5. ASSUME IInv, NEW start \in Nat, NEW o \in 1 .. Len(list) + 1,
             list' = InsertAt(list, o, start)
      PROVE  Len(list') # Len(list)
  <2>1. list \in Seq(Nat) /\ Len(list) \in Nat
    BY <1>5 DEF IInv, TypeOK
  <2>2. InsertsOne(Nat, list, o, start)
    BY <1>5, <2>1, InsertAtInserts
  <2> QED BY <1>5, <2>1, <2>2 DEF InsertsOne
<1>6. ASSUME IInv, md_append_row \/ \E o \in 1 .. Len(list) : md_insert_row_before(o)
      PROVE  Len(list') # Len(list)
  <2>1. /\ list \in Seq(Nat) /\ Len(list) \in Nat /\ EndRow \in Nat
        /\ \A o \in 1 .. Len(list) : list[o] \in Nat /\ o \in 1 .. Len(list) + 1
    BY <1>6, TableBounds DEF IInv, TypeOK
  <2>2. CASE md_append_row
    <3>1. list' = Append(list, set_column_as_end_of_table_cursor)
      BY <2>2 DEF md_append_row
    <3> QED BY <2>1, <3>1
  <2>3. CASE \E o \in 1 .. Len(list) : md_insert_row_before(o)
    <3>1. PICK o \in 1 .. Len(list) : list' = InsertAt(list, o, list[o])
      BY <2>3 DEF md_insert_row_before
    <3> QED BY <1>5, <1>6, <2>1, <3>1
  <2> QED BY <1>6, <2>2, <2>3
<1>7. ASSUME IInv, [Next]_vars, Len(member') = Len(member), Len(list') = Len(list),
             NEW p \in 1 .. Len(list)
      PROVE  ListOf(p)' = ListOf(p)
  <2>1. CASE \E o \in 1 .. Len(list) : refused_add_to_list(o)
    BY <1>1, <1>7, <2>1
  <2>2. CASE md_commit_member \/ md_commit_owner \/ UNCHANGED vars
    <3>1. UNCHANGED tables
      BY <2>2 DEF md_commit_member, md_commit_owner, vars, tables
    <3> QED BY <1>2, <3>1
  <2> QED BY <1>4, <1>6, <1>7, <2>1, <2>2 DEF Next
<1>8. ASSUME IInv, [Next]_vars
      PROVE  [Len(member') = Len(member) /\ Len(list') = Len(list)
                 => \A o \in 1 .. Len(list) : ListOf(o)' = ListOf(o)]_vars
  BY <1>7, <1>8
<1> QED BY <1>8, InitIInv, StepKeepsIInv, PTL DEF Spec, NoRowNoChange
==============================================================================
