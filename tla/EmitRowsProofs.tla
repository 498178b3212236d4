--------------------------- MODULE EmitRowsProofs ---------------------------
(***************************************************************************)
(* The calls of IMetaDataEmit that keep rows for a parent, for any number  *)
(* of parents and rows: what a disciplined caller finds in the tables and  *)
(* in the flags.                                                           *)
(*                                                                         *)
(* The argument: the number of a parent tells the parent, so that parents  *)
(* do not share rows.  While a flagged table is in order a search finds    *)
(* the row of a parent if there is one, and a range misses none.  A call   *)
(* then changes the rows of one table, or two, and the flags of one        *)
(* parent; what holds of the other tables is not touched (NothingChanged). *)
(***************************************************************************)
EXTENDS EmitRows, TableSearchProofs
----------------------------------------------------------------------------
(* Kinds and keys.                                                          *)

AllKinds == {"TypeDef", "Field", "MethodDef", "Param", "Property", "Assembly", "GenericParam",
             "Event"}

LEMMA KindsFacts ==
    ASSUME NEW t \in Tables
    PROVE  /\ Len(Kinds[t]) \in 1 .. 3
           /\ DOMAIN Kinds[t] = 1 .. Len(Kinds[t])
           /\ \A i \in 1 .. Len(Kinds[t]) : Kinds[t][i] \in AllKinds
           /\ \A i, j \in 1 .. Len(Kinds[t]) : Kinds[t][i] = Kinds[t][j] => i = j
<1>1. CASE t \in {"FieldMarshal", "ImplMap", "MethodSemantics", "GenericParam"}
  <2>1. /\ Len(Kinds[t]) = 2 /\ DOMAIN Kinds[t] = 1 .. 2
        /\ Kinds[t][1] \in AllKinds /\ Kinds[t][2] \in AllKinds /\ Kinds[t][1] # Kinds[t][2]
    BY <1>1 DEF Kinds, AllKinds
  <2> QED BY <2>1
<1>2. CASE t \in {"Constant", "DeclSecurity", "CustomAttribute"}
  <2>1. /\ Len(Kinds[t]) = 3 /\ DOMAIN Kinds[t] = 1 .. 3
        /\ Kinds[t][1] \in AllKinds /\ Kinds[t][2] \in AllKinds /\ Kinds[t][3] \in AllKinds
        /\ Kinds[t][1] # Kinds[t][2] /\ Kinds[t][2] # Kinds[t][3] /\ Kinds[t][1] # Kinds[t][3]
    BY <1>2 DEF Kinds, AllKinds
  <2> QED BY <2>1
<1>3. CASE t \in {"GenericParamConstraint", "FieldRva", "FieldLayout", "ClassLayout",
                  "InterfaceImpl", "EventMap", "PropertyMap"}
  <2>1. Len(Kinds[t]) = 1 /\ DOMAIN Kinds[t] = 1 .. 1 /\ Kinds[t][1] \in AllKinds
    BY <1>3 DEF Kinds, AllKinds
  <2> QED BY <2>1
<1> QED BY <1>1, <1>2, <1>3 DEF Tables, Kinds

LEMMA Digits ==
    ASSUME NEW n \in Nat, NEW l \in 1 .. 3, NEW i \in 1 .. l
    PROVE  /\ n * l + i - 1 \in Nat
           /\ (n * l + i - 1) % l = i - 1
           /\ (n * l + i - 1) \div l = n
<1>1. CASE l = 1
  BY <1>1
<1>2. CASE l = 2
  BY <1>2
<1>3. CASE l = 3
  BY <1>3
<1> QED BY <1>1, <1>2, <1>3

(* A key tells its parent: Key and TokenOf are inverses.                    *)
LEMMA KeyTellsToken ==
    ASSUME NEW t \in Tables, NEW i \in 1 .. Len(Kinds[t]), NEW n \in Nat
    PROVE  /\ Key(t, <<Kinds[t][i], n>>) = n * Len(Kinds[t]) + i - 1
           /\ Key(t, <<Kinds[t][i], n>>) \in Nat
           /\ TokenOf(t, Key(t, <<Kinds[t][i], n>>)) = <<Kinds[t][i], n>>
<1> DEFINE l == Len(Kinds[t])
           j == CHOOSE j \in DOMAIN Kinds[t] : Kinds[t][j] = Kinds[t][i]
<1>1. l \in 1 .. 3 /\ DOMAIN Kinds[t] = 1 .. l /\ j = i
  BY KindsFacts
<1>2. Key(t, <<Kinds[t][i], n>>) = n * l + j - 1
  BY DEF Key
<1> HIDE DEF l, j
<1>3. Key(t, <<Kinds[t][i], n>>) = n * l + i - 1
  BY <1>1, <1>2
<1>4. i \in 1 .. l
  BY DEF l
<1>5. (n * l + i - 1) \in Nat /\ (n * l + i - 1) % l = i - 1 /\ (n * l + i - 1) \div l = n
  BY <1>1, <1>4, Digits
<1>6. TokenOf(t, n * l + i - 1) = <<Kinds[t][(i - 1) + 1], n>>
  BY <1>5 DEF TokenOf, l
<1>7. (i - 1) + 1 = i
  BY <1>1, <1>4
<1> QED BY <1>3, <1>5, <1>6, <1>7 DEF l

(* The last row there may be of a kind, with e events so far.               *)
Limit(kind, e) == IF kind = "Event" THEN e ELSE Count[kind]

(* The parents of rows of table t, nil ones (of row 0) included.            *)
Owners(t, e) ==
    UNION {{Kinds[t][i]} \X (0 .. Limit(Kinds[t][i], e)) : i \in DOMAIN Kinds[t]}

LEMMA OwnerFacts ==
    ASSUME NEW t \in Tables, NEW e \in 0 .. MaxEvents, NEW tk \in Owners(t, e)
    PROVE  /\ Key(t, tk) \in 0 .. Half - 1
           /\ TokenOf(t, Key(t, tk)) = tk
           /\ tk[2] \in Nat
           /\ <<tk[1], 0>> \in Owners(t, e)
           /\ NilOf(t, Key(t, tk)) = Key(t, <<tk[1], 0>>)
<1> DEFINE l == Len(Kinds[t])
<1>1. l \in 1 .. 3 /\ DOMAIN Kinds[t] = 1 .. l
  BY KindsFacts
<1>2. PICK i \in 1 .. l : tk \in {Kinds[t][i]} \X (0 .. Limit(Kinds[t][i], e))
  BY <1>1 DEF Owners
<1>3. Limit(Kinds[t][i], e) \in Nat /\ 3 * Limit(Kinds[t][i], e) + 2 < Half
  <2>1. Kinds[t][i] \in AllKinds
    BY <1>1, KindsFacts
  <2>2. CASE Kinds[t][i] = "Event"
    BY <2>2, CountAssumption, HalfAssumption DEF Limit
  <2>3. CASE Kinds[t][i] # "Event"
    <3>1. Kinds[t][i] \in DOMAIN Count
      BY <2>1, <2>3, CountAssumption DEF AllKinds
    <3> QED BY <2>3, <3>1, CountAssumption DEF Limit
  <2> QED BY <2>2, <2>3
<1> DEFINE n == tk[2]
<1>4. tk = <<Kinds[t][i], n>> /\ n \in 0 .. Limit(Kinds[t][i], e) /\ tk[1] = Kinds[t][i]
  BY <1>2
<1> HIDE DEF n
<1>5. /\ Key(t, tk) = n * l + i - 1
      /\ TokenOf(t, Key(t, tk)) = tk
  BY <1>1, <1>3, <1>4, KeyTellsToken
<1>6. n * l + i - 1 \in 0 .. Half - 1
  <2>1. CASE l = 1
    BY <1>3, <1>4, <2>1, HalfAssumption
  <2>2. CASE l = 2
    BY <1>3, <1>4, <2>2, HalfAssumption
  <2>3. CASE l = 3
    BY <1>3, <1>4, <2>3, HalfAssumption
  <2> QED BY <1>1, <2>1, <2>2, <2>3
<1>7. <<tk[1], 0>> \in Owners(t, e)
  <2>1. <<tk[1], 0>> \in {Kinds[t][i]} \X (0 .. Limit(Kinds[t][i], e))
    BY <1>3, <1>4
  <2> QED BY <1>1, <2>1 DEF Owners
<1>8. NilOf(t, Key(t, tk)) = Key(t, <<tk[1], 0>>)
  BY <1>5 DEF NilOf
<1> QED BY <1>3, <1>4, <1>5, <1>6, <1>7, <1>8 DEF n

LEMMA KeysDiffer ==
    ASSUME NEW t \in Tables, NEW e \in 0 .. MaxEvents,
           NEW tk \in Owners(t, e), NEW uk \in Owners(t, e), Key(t, tk) = Key(t, uk)
    PROVE  tk = uk
BY OwnerFacts

(* What the calls of Next pass as parents are parents.                      *)
LEMMA ParentsAreOwners ==
    ASSUME NEW t \in Tables, NEW e \in 0 .. MaxEvents, NEW kind, NEW n \in Nat, n <= Limit(kind, e),
           NEW i \in 1 .. Len(Kinds[t]), Kinds[t][i] = kind, Limit(kind, e) \in Nat
    PROVE  <<kind, n>> \in Owners(t, e)
<1>1. <<kind, n>> \in {Kinds[t][i]} \X (0 .. Limit(Kinds[t][i], e))
  OBVIOUS
<1> QED BY <1>1, KindsFacts DEF Owners

Keys(t, e) == {Key(t, tk) : tk \in Owners(t, e)}

LEMMA KeyFacts ==
    ASSUME NEW t \in Tables, NEW e \in 0 .. MaxEvents, NEW key \in Keys(t, e)
    PROVE  /\ key \in 0 .. Half - 1
           /\ TokenOf(t, key) \in Owners(t, e)
           /\ Key(t, TokenOf(t, key)) = key
           /\ NilOf(t, key) \in Keys(t, e)
           /\ TokenOf(t, NilOf(t, key))[2] = 0
<1>1. PICK tk \in Owners(t, e) : key = Key(t, tk)
  BY DEF Keys
<1>2. <<tk[1], 0>> \in Owners(t, e) /\ NilOf(t, key) = Key(t, <<tk[1], 0>>)
      /\ key \in 0 .. Half - 1 /\ TokenOf(t, key) = tk
  BY <1>1, OwnerFacts
<1>3. TokenOf(t, Key(t, <<tk[1], 0>>)) = <<tk[1], 0>>
  BY <1>2, OwnerFacts
<1>4. <<tk[1], 0>>[2] = 0
  OBVIOUS
<1> QED BY <1>1, <1>2, <1>3, <1>4 DEF Keys
----------------------------------------------------------------------------
(* Images.                                                                  *)

(* What rows hold besides their parents.                                    *)
Datum == (UNION {Data[t] : t \in Tables}) \cup {"None"}
         \cup ({"AddOn", "RemoveOn", "Getter"} \X Tokens("MethodDef"))

Rows(t, e) == [parent : Keys(t, e), data : Datum]
TableSet(t, e) == [row : Seq(Rows(t, e)), sorted : BOOLEAN]
Image(e) ==
    {im \in [Tables -> UNION {TableSet(t, e) : t \in Tables}] :
        \A t \in Tables : im[t] \in TableSet(t, e)}

(* A table that is flagged is in order: FlagsAreSound, for one table.       *)
InOrder(t, tb) ==
    tb.sorted => \A r \in 2 .. Len(tb.row) : RowsSorted(t, tb.row, r - 1, r)

LEMMA TablesOfImage ==
    ASSUME NEW e, NEW im \in Image(e), NEW t \in Tables
    PROVE  /\ im[t] \in TableSet(t, e)
           /\ im[t] = [row |-> im[t].row, sorted |-> im[t].sorted]
           /\ im[t].row \in Seq(Rows(t, e)) /\ im[t].sorted \in BOOLEAN
           /\ Len(im[t].row) \in Nat /\ DOMAIN im[t].row = 1 .. Len(im[t].row)
           /\ \A r \in 1 .. Len(im[t].row) : /\ im[t].row[r].parent \in Keys(t, e)
                                             /\ im[t].row[r].data \in Datum
<1>1. im[t] \in TableSet(t, e)
  BY DEF Image
<1>2. /\ im[t] = [row |-> im[t].row, sorted |-> im[t].sorted]
      /\ im[t].row \in Seq(Rows(t, e)) /\ im[t].sorted \in BOOLEAN
  BY <1>1 DEF TableSet
<1>3. \A r \in 1 .. Len(im[t].row) : im[t].row[r] \in Rows(t, e)
  BY <1>2
<1> QED BY <1>1, <1>2, <1>3 DEF Rows

LEMMA WithTable ==
    ASSUME NEW e, NEW im \in Image(e), NEW t \in Tables, NEW tb \in TableSet(t, e)
    PROVE  /\ [im EXCEPT ![t] = tb] \in Image(e)
           /\ [im EXCEPT ![t] = tb][t] = tb
           /\ \A u \in Tables : u # t => [im EXCEPT ![t] = tb][u] = im[u]
BY DEF Image

LEMMA ImageGrows ==
    ASSUME NEW e \in Nat
    PROVE  Image(e) \subseteq Image(e + 1)
<1>1. ASSUME NEW t \in Tables PROVE Rows(t, e) \subseteq Rows(t, e + 1)
  <2>1. \A kind : 0 .. Limit(kind, e) \subseteq 0 .. Limit(kind, e + 1)
    BY DEF Limit
  <2>2. Owners(t, e) \subseteq Owners(t, e + 1)
    BY <2>1 DEF Owners
  <2> QED BY <2>2 DEF Rows, Keys
<1>2. ASSUME NEW im \in Image(e), NEW t \in Tables PROVE im[t] \in TableSet(t, e + 1)
  <2>1. im[t] = [row |-> im[t].row, sorted |-> im[t].sorted]
        /\ im[t].row \in Seq(Rows(t, e)) /\ im[t].sorted \in BOOLEAN
    BY TablesOfImage
  <2>2. im[t].row \in Seq(Rows(t, e + 1))
    BY <1>1, <2>1, SeqMonotonic
  <2> QED BY <2>1, <2>2 DEF TableSet
<1> QED BY <1>2 DEF Image

(* No flag is raised and no row is touched by ~md_added_row_t's commit.     *)
FlagsLowered(im, im2) ==
    \A u \in Tables : /\ im2[u].row = im[u].row
                      /\ InOrder(u, im[u]) => InOrder(u, im2[u])

(* Only table t has changed.                                                *)
OnlyIn(t, im, im2) == \A u \in Tables : u # t => im2[u] = im[u]

LEMMA CommitEffect ==
    ASSUME NEW e, NEW im \in Image(e), NEW t \in Tables, NEW r \in 1 .. Len(im[t].row)
    PROVE  /\ md_commit_row_add(im, t, r) \in Image(e)
           /\ FlagsLowered(im, md_commit_row_add(im, t, r))
           /\ OnlyIn(t, im, md_commit_row_add(im, t, r))
           /\ md_commit_row_add(im, t, r)[t].sorted =>
                 im[t].sorted /\ (r > 1 => RowsSorted(t, im[t].row, r - 1, r))
<1> DEFINE tb == [im[t] EXCEPT !.sorted = @ /\ (r > 1 => RowsSorted(t, im[t].row, r - 1, r))]
<1>1. /\ im[t] = [row |-> im[t].row, sorted |-> im[t].sorted]
      /\ im[t].row \in Seq(Rows(t, e)) /\ im[t].sorted \in BOOLEAN
  BY TablesOfImage
<1>2. /\ tb.row = im[t].row
      /\ tb.sorted = (im[t].sorted /\ (r > 1 => RowsSorted(t, im[t].row, r - 1, r)))
      /\ tb = [row |-> tb.row, sorted |-> tb.sorted]
      /\ tb.sorted \in BOOLEAN
  BY <1>1
<1>3. tb \in TableSet(t, e)
  <2> HIDE DEF tb
  <2> QED BY <1>1, <1>2 DEF TableSet
<1>4. md_commit_row_add(im, t, r) = [im EXCEPT ![t] = tb]
  BY DEF md_commit_row_add
<1> HIDE DEF tb
<1>5. /\ [im EXCEPT ![t] = tb] \in Image(e) /\ [im EXCEPT ![t] = tb][t] = tb
      /\ \A u \in Tables : u # t => [im EXCEPT ![t] = tb][u] = im[u]
  BY <1>3, WithTable
<1>6. InOrder(t, im[t]) => InOrder(t, tb)
  BY <1>2 DEF InOrder
<1> QED BY <1>2, <1>4, <1>5, <1>6 DEF FlagsLowered, OnlyIn

LEMMA CommitGarbageEffect ==
    ASSUME NEW e, NEW im \in Image(e), NEW im2 \in CommitGarbage(im)
    PROVE  im2 \in Image(e) /\ FlagsLowered(im, im2)
<1>1. CASE im2 = im
  BY <1>1 DEF FlagsLowered
<1>2. CASE im2 # im
  <2>1. PICK t \in Tables : \E r \in DOMAIN im[t].row : im2 = md_commit_row_add(im, t, r)
    BY <1>2 DEF CommitGarbage
  <2>2. PICK r \in DOMAIN im[t].row : im2 = md_commit_row_add(im, t, r)
    BY <2>1
  <2>3. r \in 1 .. Len(im[t].row)
    BY <2>2, TablesOfImage
  <2> QED BY <2>2, <2>3, CommitEffect
<1> QED BY <1>1, <1>2

(* One row more, at the end of table t.                                     *)
Appended(t, im, im2, tk, d) ==
    /\ OnlyIn(t, im, im2)
    /\ im2[t].row = Append(im[t].row, [parent |-> Key(t, tk), data |-> d])

LEMMA AppendRowEffect ==
    ASSUME NEW e, NEW im \in Image(e), NEW t \in Tables, NEW tk \in Owners(t, e),
           NEW d \in Datum
    PROVE  /\ AppendRow(im, t, tk, d) \in Image(e)
           /\ Appended(t, im, AppendRow(im, t, tk, d), tk, d)
           /\ InOrder(t, im[t]) => InOrder(t, AppendRow(im, t, tk, d)[t])
<1> DEFINE rec == [parent |-> Key(t, tk), data |-> d]
           grown == Append(im[t].row, rec)
           tb == [im[t] EXCEPT !.row = grown]
           added == [im EXCEPT ![t] = tb]
           n == Len(im[t].row)
           im2 == AppendRow(im, t, tk, d)
<1>1. /\ im[t] = [row |-> im[t].row, sorted |-> im[t].sorted] /\ n \in Nat
      /\ im[t].row \in Seq(Rows(t, e)) /\ im[t].sorted \in BOOLEAN
  BY TablesOfImage
<1>2. rec \in Rows(t, e)
  BY DEF Rows, Keys
<1> HIDE DEF rec
<1>3. /\ grown \in Seq(Rows(t, e))
      /\ Len(grown) = n + 1
      /\ \A r \in 1 .. n : grown[r] = im[t].row[r]
  BY ONLY <1>1, <1>2, AppendProperties
<1>7. im2 = md_commit_row_add(added, t, Len(added[t].row))
  BY DEF AppendRow, rec
<1> HIDE DEF grown
<1>4. tb.row = grown /\ tb.sorted = im[t].sorted
      /\ tb = [row |-> tb.row, sorted |-> tb.sorted]
  BY <1>1
<1>5. tb \in TableSet(t, e)
  <2> HIDE DEF tb
  <2> QED BY <1>1, <1>3, <1>4 DEF TableSet
<1>6. /\ added \in Image(e) /\ added[t] = tb
      /\ \A u \in Tables : u # t => added[u] = im[u]
  <2> HIDE DEF tb
  <2> QED BY <1>5, WithTable
<1> HIDE DEF tb, added, im2
<1>8. Len(added[t].row) = n + 1 /\ n + 1 \in 1 .. Len(added[t].row)
  BY <1>1, <1>3, <1>4, <1>6
<1>9. /\ im2 \in Image(e) /\ FlagsLowered(added, im2) /\ OnlyIn(t, added, im2)
      /\ im2[t].sorted => added[t].sorted
                          /\ (n + 1 > 1 => RowsSorted(t, added[t].row, (n + 1) - 1, n + 1))
  BY <1>6, <1>7, <1>8, CommitEffect
<1>10. Appended(t, im, im2, tk, d)
  BY <1>4, <1>6, <1>9 DEF Appended, OnlyIn, FlagsLowered, rec, grown
<1>11. ASSUME InOrder(t, im[t]), im2[t].sorted, NEW r \in 2 .. Len(im2[t].row)
       PROVE  RowsSorted(t, im2[t].row, r - 1, r)
  <2>1. im2[t].row = added[t].row /\ Len(im2[t].row) = n + 1 /\ im[t].sorted
    BY <1>4, <1>6, <1>8, <1>9, <1>11 DEF FlagsLowered
  <2>2. CASE r = n + 1
    BY <1>1, <1>9, <1>11, <2>1, <2>2
  <2>3. CASE r # n + 1
    <3>1. r \in 2 .. n /\ r \in 1 .. n /\ r - 1 \in 1 .. n
      BY <1>1, <1>11, <2>1, <2>3
    <3>2. RowsSorted(t, im[t].row, r - 1, r)
      BY <1>11, <2>1, <3>1 DEF InOrder
    <3>3. im2[t].row[r] = im[t].row[r] /\ im2[t].row[r - 1] = im[t].row[r - 1]
      BY <1>3, <1>4, <1>6, <2>1, <3>1
    <3> QED BY <3>2, <3>3 DEF RowsSorted
  <2> QED BY <2>2, <2>3
<1> QED BY <1>9, <1>10, <1>11 DEF InOrder, im2

(* The parents of the rows of t are the same.                               *)
SameColumn(t, im, im2) == Parents(im2[t]) = Parents(im[t])

LEMMA SetDataEffect ==
    ASSUME NEW e, NEW im \in Image(e), NEW t \in Tables, NEW r \in 1 .. Len(im[t].row),
           NEW d \in Datum
    PROVE  /\ SetData(im, t, r, d) \in Image(e)
           /\ OnlyIn(t, im, SetData(im, t, r, d))
           /\ SameColumn(t, im, SetData(im, t, r, d))
           /\ t # "GenericParam" /\ InOrder(t, im[t]) => InOrder(t, SetData(im, t, r, d)[t])
<1> DEFINE row2 == [im[t].row EXCEPT ![r].data = d]
           tb == [im[t] EXCEPT !.row = row2]
           n == Len(im[t].row)
<1>1. /\ im[t] = [row |-> im[t].row, sorted |-> im[t].sorted] /\ n \in Nat
      /\ im[t].row \in Seq(Rows(t, e)) /\ im[t].sorted \in BOOLEAN
      /\ DOMAIN im[t].row = 1 .. n
  BY TablesOfImage
<1>2. im[t].row[r] \in Rows(t, e)
  BY <1>1
<1>3. [im[t].row[r] EXCEPT !.data = d] \in Rows(t, e)
  BY <1>2 DEF Rows
<1>4. /\ row2 \in Seq(Rows(t, e)) /\ Len(row2) = n /\ DOMAIN row2 = 1 .. n
      /\ \A q \in 1 .. n : row2[q].parent = im[t].row[q].parent
  <2>1. \A q \in 1 .. n : row2[q] = IF q = r THEN [im[t].row[r] EXCEPT !.data = d]
                                     ELSE im[t].row[q]
    BY <1>1
  <2>2. \A q \in 1 .. n : row2[q] \in Rows(t, e)
    BY <1>1, <1>3, <2>1
  <2>3. DOMAIN row2 = 1 .. n /\ row2 = [q \in 1 .. n |-> row2[q]]
    BY <1>1
  <2>4. [im[t].row[r] EXCEPT !.data = d].parent = im[t].row[r].parent
    BY <1>2 DEF Rows
  <2>5. \A q \in 1 .. n : row2[q].parent = im[t].row[q].parent
    BY <2>1, <2>4
  <2> HIDE DEF row2
  <2>6. row2 \in [1 .. n -> Rows(t, e)]
    BY <2>2, <2>3
  <2>7. row2 \in Seq(Rows(t, e)) /\ Len(row2) = n
    BY ONLY <1>1, <2>6, FunctionIsSequence
  <2> QED BY <2>3, <2>5, <2>7
<1>5. SetData(im, t, r, d) = [im EXCEPT ![t] = tb]
  BY DEF SetData
<1> HIDE DEF row2
<1>6. tb.row = row2 /\ tb.sorted = im[t].sorted
      /\ tb = [row |-> tb.row, sorted |-> tb.sorted]
  BY <1>1
<1> HIDE DEF tb
<1>7. tb \in TableSet(t, e)
  BY <1>1, <1>4, <1>6 DEF TableSet
<1>8. /\ [im EXCEPT ![t] = tb] \in Image(e) /\ [im EXCEPT ![t] = tb][t] = tb
      /\ \A u \in Tables : u # t => [im EXCEPT ![t] = tb][u] = im[u]
  BY <1>7, WithTable
<1>9. Parents(tb) = Parents(im[t])
  BY <1>1, <1>4, <1>6 DEF Parents
<1>10. ASSUME t # "GenericParam", InOrder(t, im[t]), tb.sorted, NEW q \in 2 .. Len(tb.row)
       PROVE  RowsSorted(t, tb.row, q - 1, q)
  <2>1. q \in 2 .. n /\ q \in 1 .. n /\ q - 1 \in 1 .. n
    BY <1>1, <1>4, <1>6, <1>10
  <2>2. RowsSorted(t, im[t].row, q - 1, q)
    BY <1>6, <1>10, <2>1 DEF InOrder
  <2> QED BY <1>4, <1>6, <1>10, <2>1, <2>2 DEF RowsSorted
<1> QED BY <1>5, <1>6, <1>8, <1>9, <1>10 DEF OnlyIn, InOrder, SameColumn, row2

LEMMA SetParentEffect ==
    ASSUME NEW e, NEW im \in Image(e), NEW t \in Tables, NEW r \in 1 .. Len(im[t].row),
           NEW key \in Keys(t, e)
    PROVE  /\ SetParent(im, t, r, key) \in Image(e)
           /\ OnlyIn(t, im, SetParent(im, t, r, key))
           /\ Len(SetParent(im, t, r, key)[t].row) = Len(im[t].row)
           /\ \A q \in 1 .. Len(im[t].row) :
                 SetParent(im, t, r, key)[t].row[q] =
                     IF q = r THEN [im[t].row[q] EXCEPT !.parent = key] ELSE im[t].row[q]
<1> DEFINE row2 == [im[t].row EXCEPT ![r].parent = key]
           flag == im[t].sorted /\ StillSorted(t, row2, r)
           tb == [row |-> row2, sorted |-> flag]
           n == Len(im[t].row)
<1>1. /\ im[t].row \in Seq(Rows(t, e)) /\ im[t].sorted \in BOOLEAN /\ n \in Nat
      /\ DOMAIN im[t].row = 1 .. n
  BY TablesOfImage
<1>2. im[t].row[r] \in Rows(t, e)
  BY <1>1
<1>3. [im[t].row[r] EXCEPT !.parent = key] \in Rows(t, e)
  BY <1>2 DEF Rows
<1>4. /\ row2 \in Seq(Rows(t, e)) /\ Len(row2) = n
      /\ \A q \in 1 .. n : row2[q] = IF q = r THEN [im[t].row[q] EXCEPT !.parent = key]
                                       ELSE im[t].row[q]
  <2>1. \A q \in 1 .. n : row2[q] = IF q = r THEN [im[t].row[q] EXCEPT !.parent = key]
                                     ELSE im[t].row[q]
    BY <1>1
  <2>2. \A q \in 1 .. n : row2[q] \in Rows(t, e)
    BY <1>1, <1>3, <2>1
  <2>3. DOMAIN row2 = 1 .. n /\ row2 = [q \in 1 .. n |-> row2[q]]
    BY <1>1
  <2> HIDE DEF row2
  <2>4. row2 \in [1 .. n -> Rows(t, e)]
    BY <2>2, <2>3
  <2>5. row2 \in Seq(Rows(t, e)) /\ Len(row2) = n
    BY ONLY <1>1, <2>4, FunctionIsSequence
  <2> QED BY <2>1, <2>5
<1>5. SetParent(im, t, r, key) = [im EXCEPT ![t] = tb]
  BY DEF SetParent
<1>6. flag \in BOOLEAN
  BY <1>1 DEF StillSorted, RowsSorted
<1> HIDE DEF row2, flag
<1>7. tb \in TableSet(t, e) /\ tb.row = row2
  BY <1>4, <1>6 DEF TableSet
<1> HIDE DEF tb
<1>8. /\ [im EXCEPT ![t] = tb] \in Image(e) /\ [im EXCEPT ![t] = tb][t] = tb
      /\ \A u \in Tables : u # t => [im EXCEPT ![t] = tb][u] = im[u]
  BY <1>7, WithTable
<1> QED BY <1>4, <1>5, <1>7, <1>8 DEF OnlyIn
----------------------------------------------------------------------------
(* Searches in a table that is in order, or not flagged.                    *)

LEMMA ParentColumnFacts ==
    ASSUME NEW e \in 0 .. MaxEvents, NEW im \in Image(e), NEW t \in Tables
    PROVE  /\ Parents(im[t]) \in Seq(0 .. Half - 1)
           /\ Len(Parents(im[t])) = Len(im[t].row)
           /\ DOMAIN Parents(im[t]) = 1 .. Len(im[t].row)
           /\ \A r \in 1 .. Len(im[t].row) : Parents(im[t])[r] = im[t].row[r].parent
           /\ InOrder(t, im[t]) /\ im[t].sorted => Ascending(Parents(im[t]))
<1> DEFINE n == Len(im[t].row)
           col == Parents(im[t])
<1>1. /\ n \in Nat /\ DOMAIN im[t].row = 1 .. n
      /\ \A r \in 1 .. n : im[t].row[r].parent \in Keys(t, e)
  BY TablesOfImage
<1>2. \A r \in 1 .. n : im[t].row[r].parent \in 0 .. Half - 1
  BY <1>1, KeyFacts
<1>3. /\ DOMAIN col = 1 .. n /\ \A r \in 1 .. n : col[r] = im[t].row[r].parent
      /\ col = [r \in 1 .. n |-> col[r]]
  BY <1>1 DEF Parents
<1> HIDE DEF col, n
<1>4. col \in [1 .. n -> 0 .. Half - 1]
  BY <1>2, <1>3
<1>5. col \in Seq(0 .. Half - 1) /\ Len(col) = n
  BY ONLY <1>1, <1>4, FunctionIsSequence
<1>6. ASSUME InOrder(t, im[t]), im[t].sorted PROVE Ascending(col)
  <2>1. \A i \in 2 .. n : col[i - 1] <= col[i]
    <3>1. \A i \in 2 .. n : im[t].row[i - 1].parent <= im[t].row[i].parent
      BY <1>6 DEF InOrder, RowsSorted, n
    <3>2. \A i \in 2 .. n : i - 1 \in 1 .. n /\ i \in 1 .. n
      BY <1>1
    <3> QED BY <1>3, <3>1, <3>2
  <2>2. col \in Seq(Nat)
    <3>1. 0 .. Half - 1 \subseteq Nat
      BY HalfAssumption
    <3> QED BY <1>5, <3>1, SeqMonotonic
  <2> QED BY <1>5, <2>1, <2>2, NeighboursAscend DEF Ascending
<1> QED BY <1>3, <1>5, <1>6 DEF col, n

(* A search tells whether there is a row.                                   *)
LEMMA FindRow ==
    ASSUME NEW e \in 0 .. MaxEvents, NEW im \in Image(e), NEW t \in Tables,
           InOrder(t, im[t]), NEW key \in Keys(t, e)
    PROVE  LET r == md_find_row_from_cursor(im, t, key)
           IN  IF r = 0 THEN \A q \in 1 .. Len(im[t].row) : im[t].row[q].parent # key
               ELSE r \in 1 .. Len(im[t].row) /\ im[t].row[r].parent = key
<1> DEFINE col == Parents(im[t])
           n == Len(im[t].row)
           r == md_find_row_from_cursor(im, t, key)
<1>1. /\ col \in Seq(0 .. Half - 1) /\ Len(col) = n
      /\ \A q \in 1 .. n : col[q] = im[t].row[q].parent
      /\ im[t].sorted => Ascending(col)
  BY ParentColumnFacts
<1>2. key \in 0 .. Half - 1
  BY KeyFacts
<1>3. n \in Nat /\ (im[t].row = << >> <=> n = 0)
  <2>1. im[t].row \in Seq(Rows(t, e))
    BY TablesOfImage
  <2> QED BY <2>1, EmptySeq
<1> HIDE DEF col
<1>4. CASE n = 0
  BY <1>3, <1>4 DEF md_find_row_from_cursor
<1>5. CASE n # 0 /\ im[t].sorted
  <2>1. r = md_bsearch(key, col, 1)
    BY <1>3, <1>5 DEF md_find_row_from_cursor, col
  <2>2. Ascending(col) /\ 1 \in 1 .. Len(col)
    BY <1>1, <1>3, <1>5
  <2>3. IF r = 0 THEN \A s \in 1 .. Len(col) : col[s] # key
        ELSE r \in 1 .. Len(col) /\ col[r] = key
    BY <1>1, <1>2, <2>1, <2>2, BinarySearchFinds
  <2> QED BY <1>1, <2>3
<1>6. CASE n # 0 /\ ~im[t].sorted
  <2>1. r = md_lsearch(key, col, 1)
    BY <1>3, <1>6 DEF md_find_row_from_cursor, col
  <2>2. 1 \in 1 .. Len(col)
    BY <1>1, <1>3, <1>6
  <2>3. IF r = 0 THEN \A s \in 1 .. Len(col) : col[s] # key
        ELSE r \in 1 .. Len(col) /\ col[r] = key
    BY <1>1, <1>2, <2>1, <2>2, LinearSearchFinds
  <2> QED BY <1>1, <2>3
<1> QED BY <1>4, <1>5, <1>6

(* A range misses no row.                                                   *)
LEMMA FindRange ==
    ASSUME NEW e \in 0 .. MaxEvents, NEW im \in Image(e), NEW t \in Tables,
           InOrder(t, im[t]), NEW key \in Keys(t, e)
    PROVE  /\ md_find_range_from_cursor(im, t, key) \subseteq 1 .. Len(im[t].row)
           /\ \A q \in 1 .. Len(im[t].row) :
                 im[t].row[q].parent = key => q \in md_find_range_from_cursor(im, t, key)
<1> DEFINE col == Parents(im[t])
           n == Len(im[t].row)
           hit == md_find_row_from_cursor(im, t, key)
           range == md_find_range_from_cursor(im, t, key)
<1>1. /\ col \in Seq(0 .. Half - 1) /\ Len(col) = n /\ DOMAIN col = 1 .. n
      /\ \A q \in 1 .. n : col[q] = im[t].row[q].parent
      /\ im[t].sorted => Ascending(col)
  BY ParentColumnFacts
<1>2. range = IF ~im[t].sorted THEN DOMAIN col
              ELSE {r \in DOMAIN col : /\ hit # 0
                                       /\ \A i \in DOMAIN col : i \in r .. hit \/ i \in hit .. r
                                                                => col[i] = col[hit]}
  BY DEF md_find_range_from_cursor
<1>3. IF hit = 0 THEN \A q \in 1 .. n : col[q] # key ELSE hit \in 1 .. n /\ col[hit] = key
  <2>1. IF hit = 0 THEN \A q \in 1 .. n : im[t].row[q].parent # key
        ELSE hit \in 1 .. n /\ im[t].row[hit].parent = key
    BY FindRow
  <2> HIDE DEF hit
  <2> QED BY <1>1, <2>1
<1> HIDE DEF col, hit, range
<1>4. range \subseteq 1 .. n
  BY <1>1, <1>2
<1>5. ASSUME NEW q \in 1 .. n, col[q] = key PROVE q \in range
  <2>1. CASE ~im[t].sorted
    BY <1>1, <1>2, <2>1
  <2>2. CASE im[t].sorted
    <3>1. hit # 0 /\ hit \in 1 .. n /\ col[hit] = key
      BY <1>3, <1>5
    <3>2. n \in Nat /\ \A i \in 1 .. n : col[i] \in Nat
      <4>1. n \in Nat
        BY TablesOfImage
      <4>2. \A i \in 1 .. n : col[i] \in 0 .. Half - 1
        BY <1>1, ElementOfSeq
      <4>3. \A x \in 0 .. Half - 1 : x \in Nat
        BY HalfAssumption
      <4> QED BY <4>1, <4>2, <4>3
    <3>3. ASSUME NEW i \in 1 .. n, i \in q .. hit \/ i \in hit .. q PROVE col[i] = col[hit]
      <4>1. \A a, b \in 1 .. n : a <= b => col[a] <= col[b]
        BY <1>1, <2>2 DEF Ascending
      <4>2. CASE i \in q .. hit
        <5>1. q <= i /\ i <= hit
          BY <4>2
        <5>2. col[q] <= col[i] /\ col[i] <= col[hit]
          BY <3>1, <4>1, <5>1
        <5> QED BY <1>5, <3>1, <3>2, <5>2
      <4>3. CASE i \in hit .. q
        <5>1. hit <= i /\ i <= q
          BY <4>3
        <5>2. col[hit] <= col[i] /\ col[i] <= col[q]
          BY <3>1, <4>1, <5>1
        <5> QED BY <1>5, <3>1, <3>2, <5>2
      <4> QED BY <3>3, <4>2, <4>3
    <3> QED BY <1>1, <1>2, <2>2, <3>1, <3>3
  <2> QED BY <2>1, <2>2
<1> QED BY <1>1, <1>4, <1>5 DEF n, range
----------------------------------------------------------------------------
(* Calls that create a row only where there is none.                        *)

(* The keys that have rows.                                                 *)
Held(tb) == {tb.row[r].parent : r \in 1 .. Len(tb.row)}

(* No parent but a nil one has two rows.                                    *)
Single(t, tb) ==
    \A r, s \in 1 .. Len(tb.row) :
        r < s /\ tb.row[r].parent = tb.row[s].parent => TokenOf(t, tb.row[r].parent)[2] = 0

RowsKept(t, im, im2) == \A u \in Tables : u # t => im2[u].row = im[u].row
OrderKept(im, im2) == \A u \in Tables : InOrder(u, im[u]) => InOrder(u, im2[u])

RowAdded(row, row2, key, d) ==
    /\ Len(row2) = Len(row) + 1
    /\ \A r \in 1 .. Len(row) : row2[r] = row[r]
    /\ row2[Len(row) + 1] = [parent |-> key, data |-> d]

KeysGained(t, im, im2, tk) == Held(im2[t]) = Held(im[t]) \cup {Key(t, tk)}

LEMMA AppendedRows ==
    ASSUME NEW e, NEW im \in Image(e), NEW t \in Tables, NEW tk, NEW d, NEW im2,
           Appended(t, im, im2, tk, d)
    PROVE  /\ RowAdded(im[t].row, im2[t].row, Key(t, tk), d)
           /\ KeysGained(t, im, im2, tk)
           /\ Single(t, im[t]) /\ Key(t, tk) \notin Held(im[t]) => Single(t, im2[t])
<1> DEFINE n == Len(im[t].row)
           row == im[t].row
           row2 == im2[t].row
           rec == [parent |-> Key(t, tk), data |-> d]
           S == Rows(t, e) \cup {rec}
<1>1. n \in Nat /\ row \in Seq(Rows(t, e)) /\ row2 = Append(row, rec)
  BY TablesOfImage DEF Appended
<1>2. row \in Seq(S) /\ rec \in S
  BY <1>1, SeqMonotonic
<1>8. rec.parent = Key(t, tk)
  OBVIOUS
<1> HIDE DEF S, rec
<1>3. /\ Len(row2) = n + 1
      /\ \A r \in 1 .. n : row2[r] = row[r]
      /\ row2[n + 1] = rec
  BY ONLY <1>1, <1>2, AppendProperties
<1> HIDE DEF row2
<1>4. \A r \in 1 .. n + 1 : r = n + 1 \/ r \in 1 .. n
  BY <1>1
<1>5. 1 .. n \subseteq 1 .. n + 1 /\ n + 1 \in 1 .. n + 1
  BY <1>1
<1> DEFINE held2 == {row2[r].parent : r \in 1 .. n + 1}
           held == {row[r].parent : r \in 1 .. n}
<1>6. held2 = held \cup {Key(t, tk)}
  <2>1. \A r \in 1 .. n : row2[r].parent = row[r].parent
    BY <1>3
  <2>2. row2[n + 1].parent = Key(t, tk)
    BY <1>3, <1>8
  <2>3. held2 \subseteq held \cup {Key(t, tk)}
    BY <1>4, <2>1, <2>2
  <2>4. held \subseteq held2
    BY <1>5, <2>1
  <2>5. Key(t, tk) \in held2
    BY <1>5, <2>2
  <2> QED BY <2>3, <2>4, <2>5
<1>7. ASSUME Single(t, im[t]), Key(t, tk) \notin held,
             NEW r \in 1 .. n + 1, NEW s \in 1 .. n + 1, r < s, row2[r].parent = row2[s].parent
      PROVE  TokenOf(t, row2[r].parent)[2] = 0
  <2>1. r \in 1 .. n
    BY <1>1, <1>7
  <2>2. s \in 1 .. n
    <3>1. row2[r].parent \in held
      BY <1>3, <2>1
    <3> QED BY <1>3, <1>4, <1>7, <1>8, <3>1
  <2> QED BY <1>3, <1>7, <2>1, <2>2 DEF Single
<1>9. Held(im2[t]) = held2 /\ Held(im[t]) = held
  BY <1>3 DEF Held, row2
<1> QED BY <1>3, <1>6, <1>7, <1>9 DEF Single, KeysGained, RowAdded, rec, row2

(* The column of parents is all that counts.                                *)
LEMMA SameParents ==
    ASSUME NEW e \in 0 .. MaxEvents, NEW im \in Image(e), NEW im2 \in Image(e), NEW t \in Tables,
           Parents(im2[t]) = Parents(im[t])
    PROVE  /\ Held(im2[t]) = Held(im[t])
           /\ Single(t, im2[t]) <=> Single(t, im[t])
<1> DEFINE n == Len(im[t].row)
<1>1. /\ Len(im2[t].row) = n
      /\ \A r \in 1 .. n : im2[t].row[r].parent = im[t].row[r].parent
  BY ParentColumnFacts
<1> QED BY <1>1 DEF Held, Single

(* A row of t for tk, and nothing lost.                                     *)
Created(t, im, im2, tk) ==
    /\ RowsKept(t, im, im2)
    /\ OrderKept(im, im2)
    /\ KeysGained(t, im, im2, tk)
    /\ Single(t, im[t]) => Single(t, im2[t])

LEMMA FindOrCreateEffect ==
    ASSUME NEW e \in 0 .. MaxEvents, NEW im \in Image(e), NEW t \in Tables, t # "GenericParam",
           InOrder(t, im[t]), NEW tk \in Owners(t, e), NEW d \in Datum, ~wide,
           NEW im2 \in FindOrCreateParentedRow(im, t, tk, d)
    PROVE  im2 \in Image(e) /\ Created(t, im, im2, tk)
<1> DEFINE key == Key(t, tk)
           r == md_find_row_from_cursor(im, t, key)
           n == Len(im[t].row)
<1>1. Searched(t, tk) = key
  BY DEF Searched
<1>2. key \in Keys(t, e)
  BY DEF Keys
<1>3. IF r = 0 THEN \A q \in 1 .. n : im[t].row[q].parent # key
      ELSE r \in 1 .. n /\ im[t].row[r].parent = key
  <2> HIDE DEF key
  <2> QED BY <1>2, FindRow
<1>4. im2 \in IF r = 0 THEN {AppendRow(im, t, tk, d)} ELSE CommitGarbage(SetData(im, t, r, d))
  BY <1>1 DEF FindOrCreateParentedRow
<1> HIDE DEF r, key
<1>5. CASE r = 0
  <2>1. im2 = AppendRow(im, t, tk, d)
    BY <1>4, <1>5
  <2>2. /\ im2 \in Image(e) /\ Appended(t, im, im2, tk, d)
        /\ InOrder(t, im2[t])
    BY <2>1, AppendRowEffect
  <2>3. RowsKept(t, im, im2) /\ OrderKept(im, im2)
    BY <2>2 DEF RowsKept, OrderKept, Appended, OnlyIn
  <2>4. key \notin Held(im[t])
    <3>1. \A q \in 1 .. n : im[t].row[q].parent # key
      BY <1>3, <1>5
    <3> QED BY <3>1 DEF Held
  <2>5. /\ Held(im2[t]) = Held(im[t]) \cup {key}
        /\ Single(t, im[t]) => Single(t, im2[t])
    <3>1. Appended(t, im, im2, tk, d) /\ Key(t, tk) \notin Held(im[t])
      BY <2>2, <2>4 DEF key
    <3>2. KeysGained(t, im, im2, tk)
      BY ONLY <3>1, AppendedRows, im \in Image(e), t \in Tables
    <3>3. Single(t, im[t]) => Single(t, im2[t])
      BY ONLY <3>1, AppendedRows, im \in Image(e), t \in Tables
    <3> QED BY <3>2, <3>3 DEF KeysGained, key
  <2> QED BY <2>2, <2>3, <2>5 DEF Created, KeysGained, key
<1>6. CASE r # 0
  <2> DEFINE set == SetData(im, t, r, d)
  <2>1. r \in 1 .. n /\ im[t].row[r].parent = key /\ im2 \in CommitGarbage(set)
    BY <1>3, <1>4, <1>6
  <2>2. /\ set \in Image(e) /\ OnlyIn(t, im, set)
        /\ Parents(set[t]) = Parents(im[t]) /\ InOrder(t, set[t])
    <3> HIDE DEF key
    <3>1. set \in Image(e) /\ OnlyIn(t, im, set)
      BY <2>1, SetDataEffect
    <3>2. SameColumn(t, im, set)
      BY <2>1, SetDataEffect
    <3>3. InOrder(t, set[t])
      BY <2>1, SetDataEffect
    <3> HIDE DEF set
    <3> QED BY <3>1, <3>2, <3>3 DEF SameColumn
  <2> HIDE DEF set
  <2>3. im2 \in Image(e) /\ FlagsLowered(set, im2)
    BY <2>1, <2>2, CommitGarbageEffect
  <2>4. RowsKept(t, im, im2) /\ OrderKept(im, im2)
    BY <2>2, <2>3 DEF RowsKept, OrderKept, FlagsLowered, OnlyIn
  <2>5. Parents(im2[t]) = Parents(im[t])
    BY <2>2, <2>3 DEF FlagsLowered, Parents
  <2>6. key \in Held(im[t])
    BY <2>1 DEF Held
  <2>7. Held(im2[t]) = Held(im[t]) /\ (Single(t, im2[t]) <=> Single(t, im[t]))
    BY <2>3, <2>5, SameParents
  <2> QED BY <2>3, <2>4, <2>6, <2>7 DEF Created, KeysGained, key
<1> QED BY <1>5, <1>6
----------------------------------------------------------------------------
(* Calls that do something for several rows, one after the other.           *)

(* The rows of t in a set have lost their parents, and nothing else.        *)
Removed(t, im, im2, rows) ==
    /\ OnlyIn(t, im, im2)
    /\ Len(im2[t].row) = Len(im[t].row)
    /\ \A q \in 1 .. Len(im[t].row) :
          im2[t].row[q] = IF q \in rows
                          THEN [im[t].row[q] EXCEPT !.parent = NilOf(t, im[t].row[q].parent)]
                          ELSE im[t].row[q]

LEMMA RemoveParentEffect ==
    ASSUME NEW e \in 0 .. MaxEvents, NEW im \in Image(e), NEW t \in Tables,
           NEW r \in 1 .. Len(im[t].row)
    PROVE  RemoveParent(im, t, r) \in Image(e) /\ Removed(t, im, RemoveParent(im, t, r), {r})
<1> DEFINE key == NilOf(t, im[t].row[r].parent)
           im2 == SetParent(im, t, r, key)
<1>1. key \in Keys(t, e)
  BY TablesOfImage, KeyFacts
<1>2. RemoveParent(im, t, r) = im2
  BY DEF RemoveParent
<1> HIDE DEF key
<1>3. /\ im2 \in Image(e) /\ OnlyIn(t, im, im2)
      /\ Len(im2[t].row) = Len(im[t].row)
      /\ \A q \in 1 .. Len(im[t].row) :
            im2[t].row[q] = IF q = r THEN [im[t].row[q] EXCEPT !.parent = key] ELSE im[t].row[q]
  BY <1>1, SetParentEffect
<1> HIDE DEF im2
<1>4. Removed(t, im, im2, {r})
  BY <1>3 DEF Removed, key
<1> QED BY <1>2, <1>3, <1>4

LEMMA RemoveParentsEffect ==
    ASSUME NEW e \in 0 .. MaxEvents, NEW im \in Image(e), NEW t \in Tables,
           NEW rows
    PROVE  RemoveParents(im, t, rows) \in Image(e) /\ Removed(t, im, RemoveParents(im, t, rows), rows)
<1> DEFINE n == Len(im[t].row)
           X == {x \in Image(e) : Len(x[t].row) = n}
           Turned(f) == [r \in 0 .. n |->
                            IF r = 0 THEN im
                            ELSE IF r \in rows THEN RemoveParent(f[r - 1], t, r) ELSE f[r - 1]]
           after == CHOOSE f : f = Turned(f)
           step == [r \in 1 .. n |-> [x \in X |-> IF r \in rows THEN RemoveParent(x, t, r) ELSE x]]
<1>1. n \in Nat /\ im \in X
  BY TablesOfImage
<1>2. RemoveParents(im, t, rows) = after[n]
  BY DEF RemoveParents
<1>3. ASSUME NEW x \in X, NEW r \in 1 .. n
      PROVE  RemoveParent(x, t, r) \in X /\ Removed(t, x, RemoveParent(x, t, r), {r})
  BY RemoveParentEffect DEF Removed
<1>4. step \in [1 .. n -> [X -> X]]
  <2> DEFINE turn(r) == [x \in X |-> IF r \in rows THEN RemoveParent(x, t, r) ELSE x]
  <2>1. \A r \in 1 .. n : turn(r) \in [X -> X]
    BY <1>3
  <2>2. step = [r \in 1 .. n |-> turn(r)]
    OBVIOUS
  <2> HIDE DEF turn, step
  <2> QED BY <2>1, <2>2
<1>5. \E f : f = Turned(f)
  <2> HIDE DEF X
  <2>1. PICK f : IsRun(f, n, X, im, step)
    <3> HIDE DEF step, n
    <3> QED BY <1>1, <1>4, Iterates
  <2>2. f \in [0 .. n -> X] /\ f[0] = im /\ \A k \in 1 .. n : f[k] = step[k][f[k - 1]]
    BY <2>1 DEF IsRun
  <2>3. \A k \in 1 .. n : f[k - 1] \in X
    BY <1>1, <2>2
  <2>4. \A k \in 1 .. n : f[k] = IF k \in rows THEN RemoveParent(f[k - 1], t, k) ELSE f[k - 1]
    BY <2>2, <2>3
  <2>5. \A k \in 0 .. n : k = 0 \/ k \in 1 .. n
    BY <1>1
  <2>6. f = [k \in 0 .. n |-> f[k]]
    BY <2>2
  <2>7. f = Turned(f)
    <3>1. \A k \in 0 .. n : f[k] = Turned(f)[k]
      BY <2>2, <2>4, <2>5
    <3> HIDE DEF step, n
    <3> QED BY <2>6, <3>1
  <2> QED BY <2>7
<1>6. after = Turned(after)
  BY <1>5
<1> HIDE DEF after, step
<1> DEFINE Upto(k) == {r \in rows : r \in 1 .. k}
           G == {k \in 0 .. n : after[k] \in X /\ Removed(t, im, after[k], Upto(k))}
<1>7. 0 \in G
  <2>1. after[0] = im
    BY <1>1, <1>6
  <2> QED BY <1>1, <2>1 DEF Removed, OnlyIn
<1>8. ASSUME NEW k \in 0 .. n - 1, k \in G PROVE k + 1 \in G
  <2> DEFINE x == after[k]
             y == after[k + 1]
  <2>1. k + 1 \in 1 .. n /\ k + 1 \in 0 .. n /\ (k + 1) - 1 = k /\ k + 1 # 0
    BY <1>1
  <2>2. y = IF k + 1 \in rows THEN RemoveParent(x, t, k + 1) ELSE x
    BY <1>6, <2>1
  <2>3. x \in X /\ Removed(t, im, x, Upto(k))
    BY <1>8
  <2>4. \A q \in 1 .. n : q \in Upto(k + 1) <=> q \in Upto(k) \/ (q = k + 1 /\ q \in rows)
    BY <1>1
  <2>5. k + 1 \notin Upto(k)
    OBVIOUS
  <2> HIDE DEF Upto, x, y
  <2>6. CASE k + 1 \in rows
    <3>1. y \in X /\ Removed(t, x, y, {k + 1})
      BY <1>3, <2>1, <2>2, <2>3, <2>6
    <3>2. Len(x[t].row) = n /\ Len(y[t].row) = n /\ OnlyIn(t, im, y)
      BY <2>3, <3>1 DEF Removed, OnlyIn
    <3>3. ASSUME NEW q \in 1 .. n
          PROVE  y[t].row[q] = IF q \in Upto(k + 1)
                               THEN [im[t].row[q] EXCEPT !.parent = NilOf(t, im[t].row[q].parent)]
                               ELSE im[t].row[q]
      <4>1. x[t].row[q] = IF q \in Upto(k)
                          THEN [im[t].row[q] EXCEPT !.parent = NilOf(t, im[t].row[q].parent)]
                          ELSE im[t].row[q]
        BY <2>3 DEF Removed
      <4>2. y[t].row[q] = IF q \in {k + 1}
                          THEN [x[t].row[q] EXCEPT !.parent = NilOf(t, x[t].row[q].parent)]
                          ELSE x[t].row[q]
        BY <3>1, <3>2 DEF Removed
      <4>3. CASE q = k + 1
        BY <2>4, <2>5, <2>6, <4>1, <4>2, <4>3
      <4>4. CASE q # k + 1
        BY <2>4, <4>1, <4>2, <4>4
      <4> QED BY <4>3, <4>4
    <3> QED BY <2>1, <3>1, <3>2, <3>3 DEF Removed, y
  <2>7. CASE k + 1 \notin rows
    <3>1. y = x /\ \A q \in 1 .. n : q \in Upto(k + 1) <=> q \in Upto(k)
      BY <2>2, <2>4, <2>7
    <3>2. Removed(t, im, y, Upto(k + 1))
      BY <2>3, <3>1 DEF Removed
    <3> QED BY <2>1, <2>3, <3>1, <3>2 DEF x, y
  <2> QED BY <2>6, <2>7
<1>9. n \in G
  <2> HIDE DEF G
  <2>1. \A k \in 0 .. n : k \in G
    BY <1>1, <1>7, <1>8, IntervalInduction
  <2> QED BY <1>1, <2>1
<1>10. \A q \in 1 .. n : q \in Upto(n) <=> q \in rows
  OBVIOUS
<1>11. after[n] \in Image(e) /\ Removed(t, im, after[n], Upto(n))
  BY <1>9
<1> HIDE DEF Upto
<1> QED BY <1>2, <1>10, <1>11 DEF Removed

(* Fields get rows of their own; everything else is kept.                   *)
Laid(im, im2) ==
    /\ RowsKept("FieldLayout", im, im2)
    /\ OrderKept(im, im2)
    /\ Single("FieldLayout", im["FieldLayout"]) => Single("FieldLayout", im2["FieldLayout"])

LEMMA LayFieldsEffect ==
    ASSUME NEW e \in 0 .. MaxEvents, NEW im \in Image(e), InOrder("FieldLayout", im["FieldLayout"]),
           NEW fields \in Seq(Owners("FieldLayout", e)), NEW v \in Datum, ~wide,
           NEW im2 \in LayFields(im, fields, v)
    PROVE  im2 \in Image(e) /\ Laid(im, im2)
<1> DEFINE t == "FieldLayout"
           n == Len(fields)
           Good == {x \in Image(e) : Laid(im, x)}
           X == SUBSET Good
           Turned(f) == [k \in 0 .. n |-> IF k = 0 THEN {im}
                                          ELSE FindOrCreateAfter(f[k - 1], t, fields[k], v)]
           laid == CHOOSE f : f = Turned(f)
           step == [k \in 1 .. n |-> [x \in X |-> FindOrCreateAfter(x, t, fields[k], v)]]
<1>1. n \in Nat /\ {im} \in X /\ t \in Tables /\ t # "GenericParam"
  BY DEF Laid, RowsKept, OrderKept, Tables, Kinds
<1>2. LayFields(im, fields, v) = laid[n]
  BY DEF LayFields
<1>3. ASSUME NEW S \in X, NEW k \in 1 .. n PROVE FindOrCreateAfter(S, t, fields[k], v) \in X
  <2> SUFFICES ASSUME NEW y \in FindOrCreateAfter(S, t, fields[k], v) PROVE y \in Good
    OBVIOUS
  <2>1. PICK x \in S : y \in FindOrCreateParentedRow(x, t, fields[k], v)
    BY DEF FindOrCreateAfter
  <2>2. x \in Image(e) /\ Laid(im, x) /\ fields[k] \in Owners(t, e)
    OBVIOUS
  <2> HIDE DEF t
  <2>3. InOrder(t, x[t])
    BY <1>1, <2>2 DEF Laid, OrderKept, t
  <2>4. y \in Image(e) /\ Created(t, x, y, fields[k])
    BY <1>1, <2>1, <2>2, <2>3, FindOrCreateEffect
  <2>5. Laid(im, y)
    BY <2>2, <2>4 DEF Laid, Created, RowsKept, OrderKept, t
  <2> QED BY <2>4, <2>5
<1> HIDE DEF t
<1>4. step \in [1 .. n -> [X -> X]]
  <2> DEFINE turn(k) == [x \in X |-> FindOrCreateAfter(x, t, fields[k], v)]
  <2> HIDE DEF X
  <2>1. \A k \in 1 .. n : turn(k) \in [X -> X]
    BY <1>3
  <2>2. step = [k \in 1 .. n |-> turn(k)]
    OBVIOUS
  <2> HIDE DEF turn, step
  <2> QED BY <2>1, <2>2
<1> HIDE DEF X
<1>5. \E f : f = Turned(f)
  <2>1. PICK f : IsRun(f, n, X, {im}, step)
    <3> HIDE DEF step, n
    <3> QED BY <1>1, <1>4, Iterates
  <2>2. f \in [0 .. n -> X] /\ f[0] = {im} /\ \A k \in 1 .. n : f[k] = step[k][f[k - 1]]
    BY <2>1 DEF IsRun
  <2>3. \A k \in 1 .. n : f[k - 1] \in X
    BY <1>1, <2>2
  <2>4. \A k \in 1 .. n : f[k] = FindOrCreateAfter(f[k - 1], t, fields[k], v)
    BY <2>2, <2>3
  <2>5. \A k \in 0 .. n : k = 0 \/ k \in 1 .. n
    BY <1>1
  <2>6. f = [k \in 0 .. n |-> f[k]]
    BY <2>2
  <2>7. f = Turned(f)
    <3>1. \A k \in 0 .. n : f[k] = Turned(f)[k]
      BY <2>2, <2>4, <2>5
    <3> HIDE DEF step, n
    <3> QED BY <2>6, <3>1
  <2> QED BY <2>7
<1>6. laid = Turned(laid)
  BY <1>5
<1> HIDE DEF laid, step
<1> DEFINE G == {k \in 0 .. n : laid[k] \in X}
<1>7. 0 \in G
  BY <1>1, <1>6
<1>8. ASSUME NEW k \in 0 .. n - 1, k \in G PROVE k + 1 \in G
  <2>1. k + 1 \in 1 .. n /\ k + 1 \in 0 .. n /\ (k + 1) - 1 = k /\ k + 1 # 0
    BY <1>1
  <2>2. laid[k + 1] = FindOrCreateAfter(laid[k], t, fields[k + 1], v)
    BY <1>6, <2>1
  <2> QED BY <1>3, <1>8, <2>1, <2>2
<1>9. n \in G
  <2> HIDE DEF G
  <2>1. \A k \in 0 .. n : k \in G
    BY <1>1, <1>7, <1>8, IntervalInduction
  <2> QED BY <1>1, <2>1
<1> QED BY <1>2, <1>9 DEF X

LEMMA ImplementEffect ==
    ASSUME NEW e \in 0 .. MaxEvents, NEW im \in Image(e), NEW td \in Owners("InterfaceImpl", e),
           NEW interfaces \in Seq(Datum)
    PROVE  /\ Implement(im, td, interfaces) \in Image(e)
           /\ OnlyIn("InterfaceImpl", im, Implement(im, td, interfaces))
<1> DEFINE t == "InterfaceImpl"
           n == Len(interfaces)
           X == {x \in Image(e) : OnlyIn(t, im, x)}
           Turned(f) == [k \in 0 .. n |-> IF k = 0 THEN im
                                          ELSE AppendRow(f[k - 1], t, td, interfaces[k])]
           implements == CHOOSE f : f = Turned(f)
           step == [k \in 1 .. n |-> [x \in X |-> AppendRow(x, t, td, interfaces[k])]]
<1>1. n \in Nat /\ im \in X /\ t \in Tables
  BY DEF OnlyIn, Tables, Kinds
<1>2. Implement(im, td, interfaces) = implements[n]
  BY DEF Implement
<1>3. ASSUME NEW x \in X, NEW k \in 1 .. n PROVE AppendRow(x, t, td, interfaces[k]) \in X
  <2> DEFINE y == AppendRow(x, t, td, interfaces[k])
  <2>1. x \in Image(e) /\ OnlyIn(t, im, x) /\ td \in Owners(t, e) /\ interfaces[k] \in Datum
    OBVIOUS
  <2> HIDE DEF t
  <2>2. y \in Image(e) /\ Appended(t, x, y, td, interfaces[k])
    BY <1>1, <2>1, AppendRowEffect
  <2> HIDE DEF y
  <2>3. OnlyIn(t, im, y)
    BY <2>1, <2>2 DEF OnlyIn, Appended
  <2> QED BY <2>2, <2>3 DEF y
<1> HIDE DEF t
<1>4. step \in [1 .. n -> [X -> X]]
  <2> DEFINE turn(k) == [x \in X |-> AppendRow(x, t, td, interfaces[k])]
  <2> HIDE DEF X
  <2>1. \A k \in 1 .. n : turn(k) \in [X -> X]
    BY <1>3
  <2>2. step = [k \in 1 .. n |-> turn(k)]
    OBVIOUS
  <2> HIDE DEF turn, step
  <2> QED BY <2>1, <2>2
<1> HIDE DEF X
<1>5. \E f : f = Turned(f)
  <2>1. PICK f : IsRun(f, n, X, im, step)
    <3> HIDE DEF step, n
    <3> QED BY <1>1, <1>4, Iterates
  <2>2. f \in [0 .. n -> X] /\ f[0] = im /\ \A k \in 1 .. n : f[k] = step[k][f[k - 1]]
    BY <2>1 DEF IsRun
  <2>3. \A k \in 1 .. n : f[k - 1] \in X
    BY <1>1, <2>2
  <2>4. \A k \in 1 .. n : f[k] = AppendRow(f[k - 1], t, td, interfaces[k])
    BY <2>2, <2>3
  <2>5. \A k \in 0 .. n : k = 0 \/ k \in 1 .. n
    BY <1>1
  <2>6. f = [k \in 0 .. n |-> f[k]]
    BY <2>2
  <2>7. f = Turned(f)
    <3>1. \A k \in 0 .. n : f[k] = Turned(f)[k]
      BY <2>2, <2>4, <2>5
    <3> HIDE DEF step, n
    <3> QED BY <2>6, <3>1
  <2> QED BY <2>7
<1>6. implements = Turned(implements)
  BY <1>5
<1> HIDE DEF implements, step
<1> DEFINE G == {k \in 0 .. n : implements[k] \in X}
<1>7. 0 \in G
  BY <1>1, <1>6
<1>8. ASSUME NEW k \in 0 .. n - 1, k \in G PROVE k + 1 \in G
  <2>1. k + 1 \in 1 .. n /\ k + 1 \in 0 .. n /\ (k + 1) - 1 = k /\ k + 1 # 0
    BY <1>1
  <2>2. implements[k + 1] = AppendRow(implements[k], t, td, interfaces[k + 1])
    BY <1>6, <2>1
  <2> QED BY <1>3, <1>8, <2>1, <2>2
<1>9. n \in G
  <2> HIDE DEF G
  <2>1. \A k \in 0 .. n : k \in G
    BY <1>1, <1>7, <1>8, IntervalInduction
  <2> QED BY <1>1, <2>1
<1> QED BY <1>2, <1>9 DEF X, t
----------------------------------------------------------------------------
(* The inductive invariant, table by table.                                 *)

Flagged == UNION {Tokens(kind) : kind \in {"Field", "Param", "TypeDef", "MethodDef", "Property"}}
Flags == {"HasFieldMarshal", "HasFieldRVA", "HasSecurity", "PinvokeImpl", "HasDefault"}
OnceTables == {"FieldMarshal", "FieldRva", "FieldLayout", "ClassLayout", "Constant",
               "EventMap", "PropertyMap"}

FlagRight(t, tb, fl) ==
    \A tk \in ParentsOf(t) \cap Flagged : FlagOf[t] \in fl[tk] <=> Key(t, tk) \in Held(tb)

DefaultRight(tb, fl) ==
    \A pr \in Tokens("Property") : Key("Constant", pr) \in Held(tb) => "HasDefault" \in fl[pr]

MethodsOnce(tb) ==
    \A r, s \in 1 .. Len(tb.row) :
        r < s /\ tb.row[r].parent = tb.row[s].parent /\ tb.row[r].data[1] = tb.row[s].data[1]
        => TokenOf("MethodSemantics", tb.row[r].parent)[2] = 0

TableSound(t, tb, fl) ==
    /\ t \in OnceTables => Single(t, tb)
    /\ t \in DOMAIN FlagOf => FlagRight(t, tb, fl)
    /\ t = "Constant" => DefaultRight(tb, fl)
    /\ t = "MethodSemantics" => MethodsOnce(tb)

IInv ==
    /\ events \in 0 .. MaxEvents /\ generics \in 0 .. Count["GenericParam"] /\ ~wide
    /\ table \in Image(events)
    /\ flags \in [Flagged -> SUBSET Flags]
    /\ FlagsAreSound
    /\ \A t \in Tables : TableSound(t, table[t], flags)

(* Events have methods only.                                                *)
LEMMA NoEvents ==
    ASSUME NEW t \in Tables, t # "MethodSemantics", NEW i \in DOMAIN Kinds[t]
    PROVE  Kinds[t][i] # "Event"
<1>1. CASE t \in {"FieldMarshal", "ImplMap", "GenericParam"}
  <2>1. DOMAIN Kinds[t] = 1 .. 2 /\ Kinds[t][1] # "Event" /\ Kinds[t][2] # "Event"
    BY <1>1 DEF Kinds
  <2> QED BY <2>1
<1>2. CASE t \in {"Constant", "DeclSecurity", "CustomAttribute"}
  <2>1. /\ DOMAIN Kinds[t] = 1 .. 3
        /\ Kinds[t][1] # "Event" /\ Kinds[t][2] # "Event" /\ Kinds[t][3] # "Event"
    BY <1>2 DEF Kinds
  <2> QED BY <2>1
<1>3. CASE t \in {"GenericParamConstraint", "FieldRva", "FieldLayout", "ClassLayout",
                  "InterfaceImpl", "EventMap", "PropertyMap"}
  <2>1. DOMAIN Kinds[t] = 1 .. 1 /\ Kinds[t][1] # "Event"
    BY <1>3 DEF Kinds
  <2> QED BY <2>1
<1> QED BY <1>1, <1>2, <1>3 DEF Tables, Kinds

(* A token that is a parent of rows of t is not nil.                        *)
LEMMA TokensAreOwners ==
    ASSUME NEW t \in Tables, t # "MethodSemantics", NEW e \in 0 .. MaxEvents,
           NEW tk \in ParentsOf(t)
    PROVE  tk \in Owners(t, e) /\ tk[2] # 0
<1>1. PICK i \in DOMAIN Kinds[t] : tk \in Tokens(Kinds[t][i])
  BY DEF ParentsOf
<1>2. i \in 1 .. Len(Kinds[t]) /\ Kinds[t][i] \in AllKinds
  BY KindsFacts
<1>3. Kinds[t][i] # "Event"
  BY <1>2, NoEvents
<1> DEFINE kind == Kinds[t][i]
<1> HIDE DEF kind
<1>4. Count[kind] \in Nat /\ Limit(kind, e) = Count[kind]
  BY <1>2, <1>3, CountAssumption DEF AllKinds, Limit, kind
<1>5. PICK n \in 1 .. Count[kind] : tk = <<kind, n>>
  BY <1>1 DEF Tokens, kind
<1>6. n \in Nat /\ n # 0 /\ n <= Limit(kind, e)
  BY <1>4, <1>5
<1>7. tk \in Owners(t, e)
  BY <1>2, <1>4, <1>5, <1>6, ParentsAreOwners DEF kind
<1>8. tk[2] = n
  BY <1>5
<1> QED BY <1>6, <1>7, <1>8

(* The opposite direction.                                                  *)
LEMMA OwnersAreTokens ==
    ASSUME NEW t \in Tables, t # "MethodSemantics", NEW e \in 0 .. MaxEvents,
           NEW tk \in Owners(t, e), tk[2] # 0
    PROVE  tk \in ParentsOf(t)
<1>1. PICK i \in DOMAIN Kinds[t] : tk \in {Kinds[t][i]} \X (0 .. Limit(Kinds[t][i], e))
  BY DEF Owners
<1> DEFINE kind == Kinds[t][i]
<1>2. Limit(kind, e) = Count[kind] /\ Count[kind] \in Nat
  <2>1. kind \in AllKinds /\ kind # "Event"
    BY NoEvents, KindsFacts
  <2> HIDE DEF kind
  <2> QED BY <2>1, CountAssumption DEF AllKinds, Limit
<1>3. PICK n \in 0 .. Limit(kind, e) : tk = <<kind, n>>
  BY <1>1
<1> HIDE DEF kind
<1>4. n \in 1 .. Count[kind]
  BY <1>2, <1>3
<1>5. tk \in Tokens(kind)
  BY <1>3, <1>4 DEF Tokens
<1> QED BY <1>5 DEF ParentsOf, kind

(* Which tokens are parents where.                                          *)
LEMMA WhoseParents ==
    /\ \A t \in {"FieldMarshal", "FieldRva", "FieldLayout", "Constant", "ImplMap"} :
          Tokens("Field") \subseteq ParentsOf(t)
    /\ \A t \in {"FieldMarshal", "Constant"} : Tokens("Param") \subseteq ParentsOf(t)
    /\ Tokens("Property") \subseteq ParentsOf("Constant")
    /\ \A t \in {"ClassLayout", "InterfaceImpl", "EventMap", "PropertyMap"} :
          Tokens("TypeDef") \subseteq ParentsOf(t)
<1>1. \A t \in Tables : \A i \in DOMAIN Kinds[t] : Tokens(Kinds[t][i]) \subseteq ParentsOf(t)
  BY DEF ParentsOf
<1>2. \A t \in {"FieldMarshal", "FieldRva", "FieldLayout", "Constant", "ImplMap"} :
         t \in Tables /\ 1 \in DOMAIN Kinds[t] /\ Kinds[t][1] = "Field"
  BY DEF Tables, Kinds
<1>3. \A t \in {"FieldMarshal", "Constant"} :
         t \in Tables /\ 2 \in DOMAIN Kinds[t] /\ Kinds[t][2] = "Param"
  BY DEF Tables, Kinds
<1>4. "Constant" \in Tables /\ 3 \in DOMAIN Kinds["Constant"] /\ Kinds["Constant"][3] = "Property"
  BY DEF Tables, Kinds
<1>5. \A t \in {"ClassLayout", "InterfaceImpl", "EventMap", "PropertyMap"} :
         t \in Tables /\ 1 \in DOMAIN Kinds[t] /\ Kinds[t][1] = "TypeDef"
  BY DEF Tables, Kinds
<1> HIDE DEF Kinds
<1> QED BY <1>1, <1>2, <1>3, <1>4, <1>5

(* What parents of t are flagged, for each t that has flags.                *)
LEMMA FlagFacts ==
    /\ DOMAIN FlagOf = {"FieldMarshal", "FieldRva", "DeclSecurity", "ImplMap"}
    /\ DOMAIN FlagOf \subseteq Tables
    /\ FlagOf["FieldMarshal"] = "HasFieldMarshal" /\ FlagOf["FieldRva"] = "HasFieldRVA"
    /\ FlagOf["DeclSecurity"] = "HasSecurity" /\ FlagOf["ImplMap"] = "PinvokeImpl"
    /\ Tokens("Property") \subseteq Flagged
    /\ ParentsOf("FieldMarshal") \subseteq Flagged
    /\ Tokens("Field") \subseteq Flagged
    /\ ParentsOf("ImplMap") \subseteq Flagged
    /\ \A tk \in ParentsOf("DeclSecurity") : tk[1] # "Assembly" <=> tk \in Flagged
    /\ \A t \in DOMAIN FlagOf : \A pr \in Tokens("Property") : pr \notin ParentsOf(t)
<1>1. /\ DOMAIN FlagOf = {"FieldMarshal", "FieldRva", "DeclSecurity", "ImplMap"}
      /\ DOMAIN FlagOf \subseteq Tables
      /\ FlagOf["FieldMarshal"] = "HasFieldMarshal" /\ FlagOf["FieldRva"] = "HasFieldRVA"
      /\ FlagOf["DeclSecurity"] = "HasSecurity" /\ FlagOf["ImplMap"] = "PinvokeImpl"
  BY DEF FlagOf, Tables, Kinds
<1>2. \A kind \in {"Field", "Param", "TypeDef", "MethodDef", "Property"} :
         Tokens(kind) \subseteq Flagged
  BY DEF Flagged
<1>3. ParentsOf("FieldMarshal") = Tokens("Field") \cup Tokens("Param")
  <2>1. /\ DOMAIN Kinds["FieldMarshal"] = 1 .. 2
        /\ Kinds["FieldMarshal"][1] = "Field" /\ Kinds["FieldMarshal"][2] = "Param"
    BY DEF Kinds
  <2> QED BY <2>1 DEF ParentsOf
<1>4. ParentsOf("ImplMap") = Tokens("Field") \cup Tokens("MethodDef")
  <2>1. /\ DOMAIN Kinds["ImplMap"] = 1 .. 2
        /\ Kinds["ImplMap"][1] = "Field" /\ Kinds["ImplMap"][2] = "MethodDef"
    BY DEF Kinds
  <2> QED BY <2>1 DEF ParentsOf
<1>5. ParentsOf("DeclSecurity") = Tokens("TypeDef") \cup Tokens("MethodDef") \cup Tokens("Assembly")
  <2>1. /\ DOMAIN Kinds["DeclSecurity"] = 1 .. 3
        /\ Kinds["DeclSecurity"][1] = "TypeDef" /\ Kinds["DeclSecurity"][2] = "MethodDef"
        /\ Kinds["DeclSecurity"][3] = "Assembly"
    BY DEF Kinds
  <2> QED BY <2>1 DEF ParentsOf
<1>6. ParentsOf("FieldRva") = Tokens("Field")
  <2>1. DOMAIN Kinds["FieldRva"] = 1 .. 1 /\ Kinds["FieldRva"][1] = "Field"
    BY DEF Kinds
  <2> QED BY <2>1 DEF ParentsOf
<1>7. \A kind : \A tk \in Tokens(kind) : tk[1] = kind
  BY DEF Tokens
<1>8. \A tk \in Flagged : tk[1] \in {"Field", "Param", "TypeDef", "MethodDef", "Property"}
  BY <1>7 DEF Flagged
<1>9. \A tk \in ParentsOf("DeclSecurity") : tk[1] # "Assembly" <=> tk \in Flagged
  BY <1>2, <1>5, <1>7, <1>8
<1>10. \A t \in DOMAIN FlagOf : \A pr \in Tokens("Property") : pr \notin ParentsOf(t)
  BY <1>1, <1>3, <1>4, <1>5, <1>6, <1>7
<1> QED BY <1>1, <1>2, <1>3, <1>4, <1>9, <1>10
----------------------------------------------------------------------------
(* What keeps a table sound.                                                *)

(* The flags of t are as they were.                                         *)
SameFlag(t, fl, fl2) ==
    /\ t \in DOMAIN FlagOf =>
          \A uk \in ParentsOf(t) \cap Flagged : FlagOf[t] \in fl2[uk] <=> FlagOf[t] \in fl[uk]
    /\ t = "Constant" =>
          \A pr \in Tokens("Property") : "HasDefault" \in fl[pr] => "HasDefault" \in fl2[pr]

(* The same, but tk, if it has flags, has that of t.                        *)
GainedFlag(t, fl, fl2, tk) ==
    /\ t \in DOMAIN FlagOf =>
          \A uk \in ParentsOf(t) \cap Flagged :
              FlagOf[t] \in fl2[uk] <=> uk = tk \/ FlagOf[t] \in fl[uk]
    /\ t = "Constant" =>
          \A pr \in Tokens("Property") : pr = tk \/ "HasDefault" \in fl[pr]
                                         => "HasDefault" \in fl2[pr]

LEMMA NothingChanged ==
    ASSUME NEW t, NEW tb, NEW tb2, NEW fl, NEW fl2,
           TableSound(t, tb, fl), tb2.row = tb.row, SameFlag(t, fl, fl2)
    PROVE  TableSound(t, tb2, fl2)
<1>1. Held(tb2) = Held(tb)
  BY DEF Held
<1>2. t \in OnceTables => Single(t, tb2)
  BY DEF TableSound, Single
<1>3. t \in DOMAIN FlagOf => FlagRight(t, tb2, fl2)
  BY <1>1 DEF TableSound, FlagRight, SameFlag
<1>4. t = "Constant" => DefaultRight(tb2, fl2)
  BY <1>1 DEF TableSound, DefaultRight, SameFlag
<1>5. t = "MethodSemantics" => MethodsOnce(tb2)
  BY DEF TableSound, MethodsOnce
<1> QED BY <1>2, <1>3, <1>4, <1>5 DEF TableSound

(* The parents stay where they are.                                         *)
LEMMA ParentsUnchanged ==
    ASSUME NEW e \in 0 .. MaxEvents, NEW im \in Image(e), NEW im2 \in Image(e), NEW t \in Tables,
           t # "MethodSemantics", NEW fl, TableSound(t, im[t], fl), SameColumn(t, im, im2)
    PROVE  TableSound(t, im2[t], fl)
<1>1. Held(im2[t]) = Held(im[t]) /\ (Single(t, im2[t]) <=> Single(t, im[t]))
  BY SameParents DEF SameColumn
<1> QED BY <1>1 DEF TableSound, FlagRight, DefaultRight

LEMMA RowGained ==
    ASSUME NEW e \in 0 .. MaxEvents, NEW im, NEW im2, NEW t \in Tables, t # "MethodSemantics",
           NEW fl, NEW fl2, NEW tk \in ParentsOf(t),
           TableSound(t, im[t], fl), KeysGained(t, im, im2, tk), GainedFlag(t, fl, fl2, tk),
           t \in OnceTables => Single(t, im2[t])
    PROVE  TableSound(t, im2[t], fl2)
<1>1. Held(im2[t]) = Held(im[t]) \cup {Key(t, tk)}
  BY DEF KeysGained
<1>2. \A uk \in ParentsOf(t) : uk \in Owners(t, e) /\ (Key(t, uk) = Key(t, tk) => uk = tk)
  <2>1. \A uk \in ParentsOf(t) : uk \in Owners(t, e)
    BY TokensAreOwners
  <2> QED BY <2>1, KeysDiffer
<1>3. t \in DOMAIN FlagOf => FlagRight(t, im2[t], fl2)
  <2> SUFFICES ASSUME t \in DOMAIN FlagOf, NEW uk \in ParentsOf(t) \cap Flagged
               PROVE  FlagOf[t] \in fl2[uk] <=> Key(t, uk) \in Held(im2[t])
    BY DEF FlagRight
  <2>1. FlagOf[t] \in fl[uk] <=> Key(t, uk) \in Held(im[t])
    BY DEF TableSound, FlagRight
  <2>2. FlagOf[t] \in fl2[uk] <=> uk = tk \/ FlagOf[t] \in fl[uk]
    BY DEF GainedFlag
  <2> QED BY <1>1, <1>2, <2>1, <2>2
<1>4. t = "Constant" => DefaultRight(im2[t], fl2)
  <2> SUFFICES ASSUME t = "Constant", NEW pr \in Tokens("Property"),
                      Key("Constant", pr) \in Held(im2[t])
               PROVE  "HasDefault" \in fl2[pr]
    BY DEF DefaultRight
  <2>1. pr \in ParentsOf(t)
    BY WhoseParents
  <2>2. Key("Constant", pr) \in Held(im[t]) \/ pr = tk
    BY <1>1, <1>2, <2>1
  <2>3. "HasDefault" \in fl[pr] \/ pr = tk
    BY <2>2 DEF TableSound, DefaultRight
  <2> QED BY <2>3 DEF GainedFlag
<1> QED BY <1>3, <1>4 DEF TableSound

(* Rows of t lose their parents, whatever nil they get.                     *)
Emptied(t, e, im, im2, rows) ==
    /\ OnlyIn(t, im, im2)
    /\ Len(im2[t].row) = Len(im[t].row)
    /\ \A q \in 1 .. Len(im[t].row) :
          IF q \in rows
          THEN /\ im2[t].row[q].data = im[t].row[q].data
               /\ TokenOf(t, im2[t].row[q].parent)[2] = 0
          ELSE im2[t].row[q] = im[t].row[q]

LEMMA RemovedIsEmptied ==
    ASSUME NEW e \in 0 .. MaxEvents, NEW im \in Image(e), NEW t \in Tables, NEW rows, NEW im2,
           Removed(t, im, im2, rows)
    PROVE  Emptied(t, e, im, im2, rows)
<1>1. ASSUME NEW q \in 1 .. Len(im[t].row), q \in rows
      PROVE  /\ im2[t].row[q].data = im[t].row[q].data
             /\ TokenOf(t, im2[t].row[q].parent)[2] = 0
  <2> DEFINE rec == im[t].row[q]
             nil == NilOf(t, rec.parent)
  <2>1. rec \in Rows(t, e)
    <3>1. im[t].row \in Seq(Rows(t, e))
      BY TablesOfImage
    <3> QED BY <3>1
  <2>2. rec.parent \in Keys(t, e)
    BY <2>1 DEF Rows
  <2>3. TokenOf(t, nil)[2] = 0
    BY <2>2, KeyFacts
  <2>4. im2[t].row[q] = [rec EXCEPT !.parent = nil]
    BY <1>1 DEF Removed
  <2> HIDE DEF rec, nil
  <2>5. [rec EXCEPT !.parent = nil].data = rec.data /\ [rec EXCEPT !.parent = nil].parent = nil
    BY <2>1 DEF Rows
  <2> QED BY <2>3, <2>4, <2>5 DEF rec
<1> QED BY <1>1 DEF Removed, Emptied

LEMMA SetToNil ==
    ASSUME NEW e \in 0 .. MaxEvents, NEW im \in Image(e), NEW t \in Tables,
           NEW r \in 1 .. Len(im[t].row), NEW key \in Keys(t, e), TokenOf(t, key)[2] = 0
    PROVE  /\ SetParent(im, t, r, key) \in Image(e)
           /\ Emptied(t, e, im, SetParent(im, t, r, key), {r})
<1> DEFINE im2 == SetParent(im, t, r, key)
           rec == im[t].row[r]
<1>1. /\ im2 \in Image(e) /\ OnlyIn(t, im, im2)
      /\ Len(im2[t].row) = Len(im[t].row)
      /\ \A q \in 1 .. Len(im[t].row) :
            im2[t].row[q] = IF q = r THEN [im[t].row[q] EXCEPT !.parent = key] ELSE im[t].row[q]
  BY SetParentEffect
<1>2. rec \in Rows(t, e)
  <2>1. im[t].row \in Seq(Rows(t, e))
    BY TablesOfImage
  <2> QED BY <2>1
<1> HIDE DEF im2
<1>3. im2[t].row[r] = [rec EXCEPT !.parent = key]
  BY <1>1
<1> HIDE DEF rec
<1>4. [rec EXCEPT !.parent = key].data = rec.data /\ [rec EXCEPT !.parent = key].parent = key
  BY <1>2 DEF Rows
<1>5. im2[t].row[r].data = im[t].row[r].data /\ im2[t].row[r].parent = key
  BY <1>3, <1>4 DEF rec
<1>6. Emptied(t, e, im, im2, {r})
  BY <1>1, <1>5 DEF Emptied
<1> QED BY <1>1, <1>6 DEF im2

LEMMA EmptiedKeeps ==
    ASSUME NEW e \in 0 .. MaxEvents, NEW im, NEW im2, NEW t, NEW rows,
           Emptied(t, e, im, im2, rows)
    PROVE  /\ Single(t, im[t]) => Single(t, im2[t])
           /\ t = "MethodSemantics" /\ MethodsOnce(im[t]) => MethodsOnce(im2[t])
           /\ \A key : TokenOf(t, key)[2] # 0 =>
                 (key \in Held(im2[t]) <=>
                     \E q \in 1 .. Len(im[t].row) : q \notin rows /\ im[t].row[q].parent = key)
<1> DEFINE n == Len(im[t].row)
<1>1. /\ Len(im2[t].row) = n
      /\ \A q \in 1 .. n : q \in rows => TokenOf(t, im2[t].row[q].parent)[2] = 0
      /\ \A q \in 1 .. n : q \notin rows => im2[t].row[q] = im[t].row[q]
      /\ \A q \in 1 .. n : im2[t].row[q].data = im[t].row[q].data
  BY DEF Emptied
<1> HIDE DEF n
<1>2. Single(t, im[t]) => Single(t, im2[t])
  BY <1>1 DEF Single, n
<1>3. t = "MethodSemantics" /\ MethodsOnce(im[t]) => MethodsOnce(im2[t])
  BY <1>1 DEF MethodsOnce, n
<1>4. ASSUME NEW key, TokenOf(t, key)[2] # 0
      PROVE  key \in Held(im2[t]) <=> \E q \in 1 .. n : q \notin rows /\ im[t].row[q].parent = key
  BY <1>1, <1>4 DEF Held
<1> QED BY <1>2, <1>3, <1>4 DEF n

LEMMA OthersSound ==
    ASSUME NEW im, NEW im2, NEW fl, NEW fl2, NEW t \in Tables, RowsKept(t, im, im2),
           \A u \in Tables : TableSound(u, im[u], fl),
           \A u \in Tables : u # t => SameFlag(u, fl, fl2),
           TableSound(t, im2[t], fl2)
    PROVE  \A u \in Tables : TableSound(u, im2[u], fl2)
<1> SUFFICES ASSUME NEW u \in Tables, u # t PROVE TableSound(u, im2[u], fl2)
  OBVIOUS
<1>1. TableSound(u, im[u], fl) /\ im2[u].row = im[u].row /\ SameFlag(u, fl, fl2)
  BY DEF RowsKept
<1> QED BY <1>1, NothingChanged

LEMMA FlagsUnchanged ==
    ASSUME NEW fl
    PROVE  /\ \A t : SameFlag(t, fl, fl)
           /\ \A t \in Tables : \A tk : t \notin DOMAIN FlagOf /\ (t = "Constant" => tk \notin Tokens("Property"))
                                    => GainedFlag(t, fl, fl, tk)
BY DEF SameFlag, GainedFlag

LEMMA FlagNames ==
    ASSUME NEW t \in DOMAIN FlagOf
    PROVE  /\ FlagOf[t] \in Flags /\ FlagOf[t] # "HasDefault" /\ t # "Constant"
           /\ \A u \in DOMAIN FlagOf : u # t => FlagOf[u] # FlagOf[t]
<1>1. FlagOf[t] \in Flags /\ FlagOf[t] # "HasDefault"
  <2>1. FlagOf[t] \in {"HasFieldMarshal", "HasFieldRVA", "HasSecurity", "PinvokeImpl"}
    BY FlagFacts
  <2>3. FlagOf[t] \in Flags
    BY <2>1 DEF Flags
  <2>4. FlagOf[t] # "HasDefault"
    BY <2>1
  <2> QED BY <2>3, <2>4
<1>2. ASSUME NEW u \in DOMAIN FlagOf, u # t PROVE FlagOf[u] # FlagOf[t]
  BY <1>2 DEF FlagOf
<1>3. t # "Constant"
  BY FlagFacts
<1> QED BY <1>1, <1>2, <1>3

LEMMA FlagSet ==
    ASSUME NEW fl \in [Flagged -> SUBSET Flags], NEW t \in DOMAIN FlagOf, NEW tk \in Flagged,
           NEW fl2, fl2 = [fl EXCEPT ![tk] = @ \cup {FlagOf[t]}]
    PROVE  /\ fl2 \in [Flagged -> SUBSET Flags]
           /\ GainedFlag(t, fl, fl2, tk)
           /\ \A u \in Tables : u # t => SameFlag(u, fl, fl2)
<1>1. /\ FlagOf[t] \in Flags /\ FlagOf[t] # "HasDefault" /\ t # "Constant"
      /\ \A u \in DOMAIN FlagOf : u # t => FlagOf[u] # FlagOf[t]
  BY FlagNames
<1>2. fl2 \in [Flagged -> SUBSET Flags]
  BY <1>1
<1>3. \A uk \in Flagged : \A x : x \in fl2[uk] <=> x \in fl[uk] \/ (uk = tk /\ x = FlagOf[t])
  OBVIOUS
<1>4. GainedFlag(t, fl, fl2, tk)
  BY <1>1, <1>3 DEF GainedFlag
<1>5. \A u \in Tables : u # t => SameFlag(u, fl, fl2)
  BY <1>1, <1>3, FlagFacts DEF SameFlag
<1> QED BY <1>2, <1>4, <1>5

(* Only the flag of tk for t is gone.                                       *)
LostFlag(t, fl, fl2, tk) ==
    \A uk \in Flagged : FlagOf[t] \in fl2[uk] <=> uk # tk /\ FlagOf[t] \in fl[uk]

LEMMA FlagCleared ==
    ASSUME NEW fl \in [Flagged -> SUBSET Flags], NEW t \in DOMAIN FlagOf, NEW tk \in Flagged,
           NEW fl2, fl2 = [fl EXCEPT ![tk] = @ \ {FlagOf[t]}]
    PROVE  /\ fl2 \in [Flagged -> SUBSET Flags]
           /\ LostFlag(t, fl, fl2, tk)
           /\ \A u \in Tables : u # t => SameFlag(u, fl, fl2)
<1>1. /\ FlagOf[t] # "HasDefault" /\ t # "Constant"
      /\ \A u \in DOMAIN FlagOf : u # t => FlagOf[u] # FlagOf[t]
  BY FlagNames
<1>2. fl2 \in [Flagged -> SUBSET Flags]
  OBVIOUS
<1>3. \A uk \in Flagged : \A x : x \in fl2[uk] <=> x \in fl[uk] /\ ~(uk = tk /\ x = FlagOf[t])
  OBVIOUS
<1>4. \A u \in Tables : u # t => SameFlag(u, fl, fl2)
  BY <1>1, <1>3, FlagFacts DEF SameFlag
<1> QED BY <1>2, <1>3, <1>4 DEF LostFlag
----------------------------------------------------------------------------
(* Methods of events and properties.                                        *)

Semantics == {"AddOn", "RemoveOn", "Getter"}

(* No row says which method tk has for a semantic.                          *)
NoMethod(im, tk, semantic) ==
    LET row == im["MethodSemantics"].row
    IN  \A r \in 1 .. Len(row) :
            ~(row[r].parent = Key("MethodSemantics", tk) /\ row[r].data[1] = semantic)

LEMMA MethodDatum ==
    ASSUME NEW semantic \in Semantics, NEW m \in Methods
    PROVE  <<semantic, m>> \in Datum
<1> DEFINE d == <<semantic, m>>
           named == {"AddOn", "RemoveOn", "Getter"} \X Tokens("MethodDef")
<1>1. d \in named
  BY DEF Semantics, Methods
<1>2. named \subseteq Datum
  BY DEF Datum
<1> HIDE DEF d, named
<1>3. d \in Datum
  BY <1>1, <1>2
<1> QED BY <1>3 DEF d

LEMMA SemanticAdded ==
    ASSUME NEW e \in 0 .. MaxEvents, NEW im \in Image(e), NEW tk \in Owners("MethodSemantics", e),
           NEW semantic \in Semantics, NEW m \in Methods,
           MethodsOnce(im["MethodSemantics"]), NoMethod(im, tk, semantic)
    PROVE  LET im2 == AddMethodSemantic(im, tk, semantic, m)
           IN  /\ im2 \in Image(e) /\ OnlyIn("MethodSemantics", im, im2)
               /\ MethodsOnce(im2["MethodSemantics"])
               /\ \A uk, other : NoMethod(im, uk, other) /\ other # semantic
                                 => NoMethod(im2, uk, other)
<1> DEFINE t == "MethodSemantics"
           d == <<semantic, m>>
           im2 == AddMethodSemantic(im, tk, semantic, m)
           n == Len(im[t].row)
           rec == [parent |-> Key(t, tk), data |-> d]
<1>1. t \in Tables /\ d \in Datum
  <2>1. t \in Tables
    BY DEF Tables, Kinds
  <2> QED BY <2>1, MethodDatum
<1>2. im2 = AppendRow(im, t, tk, d)
  BY DEF AddMethodSemantic
<1>3. d[1] = semantic
  OBVIOUS
<1> HIDE DEF d, im2
<1>4. im2 \in Image(e) /\ Appended(t, im, im2, tk, d)
  BY <1>1, <1>2, AppendRowEffect
<1>5. OnlyIn(t, im, im2)
  BY <1>4 DEF Appended
<1>6. n \in Nat
  BY <1>1, TablesOfImage
<1>7. /\ Len(im2[t].row) = n + 1
      /\ \A r \in 1 .. n : im2[t].row[r] = im[t].row[r]
      /\ im2[t].row[n + 1] = rec
  <2>1. RowAdded(im[t].row, im2[t].row, Key(t, tk), d)
    <3> HIDE DEF rec, n
    <3> QED BY <1>1, <1>4, AppendedRows
  <2> QED BY <2>1 DEF RowAdded
<1>8. rec.parent = Key(t, tk) /\ rec.data[1] = semantic
  BY <1>3
<1> HIDE DEF rec, n
<1>9. \A r \in 1 .. n + 1 : r \in 1 .. n \/ r = n + 1
  BY <1>6
<1>10. ASSUME NEW r \in 1 .. n + 1, NEW s \in 1 .. n + 1, r < s,
              im2[t].row[r].parent = im2[t].row[s].parent,
              im2[t].row[r].data[1] = im2[t].row[s].data[1]
       PROVE  TokenOf(t, im2[t].row[r].parent)[2] = 0
  <2>1. r \in 1 .. n /\ im2[t].row[r] = im[t].row[r]
    BY <1>6, <1>7, <1>10
  <2>2. s # n + 1
    BY <1>7, <1>8, <1>10, <2>1 DEF NoMethod, n
  <2>3. s \in 1 .. n /\ im2[t].row[s] = im[t].row[s]
    BY <1>7, <1>9, <2>2
  <2> QED BY <1>10, <2>1, <2>3 DEF MethodsOnce, n
<1>11. MethodsOnce(im2[t])
  BY <1>7, <1>10 DEF MethodsOnce
<1>12. ASSUME NEW uk, NEW other, NoMethod(im, uk, other), other # semantic
       PROVE  NoMethod(im2, uk, other)
  <2> SUFFICES ASSUME NEW r \in 1 .. n + 1
               PROVE  ~(im2[t].row[r].parent = Key(t, uk) /\ im2[t].row[r].data[1] = other)
    BY <1>7 DEF NoMethod
  <2>1. CASE r = n + 1
    BY <1>7, <1>8, <1>12, <2>1
  <2>2. CASE r # n + 1
    BY <1>7, <1>9, <1>12, <2>2 DEF NoMethod, n
  <2> QED BY <2>1, <2>2
<1> QED BY <1>4, <1>5, <1>11, <1>12 DEF im2

LEMMA SemanticsRemoved ==
    ASSUME NEW e \in 0 .. MaxEvents, NEW im \in Image(e), NEW tk \in Owners("MethodSemantics", e),
           tk[2] # 0, NEW semantic,
           MethodsOnce(im["MethodSemantics"]), InOrder("MethodSemantics", im["MethodSemantics"])
    PROVE  LET im2 == RemoveSemantics(im, tk, semantic)
           IN  /\ im2 \in Image(e) /\ OnlyIn("MethodSemantics", im, im2)
               /\ MethodsOnce(im2["MethodSemantics"])
               /\ NoMethod(im2, tk, semantic)
<1> DEFINE t == "MethodSemantics"
           key == Key(t, tk)
           rows == md_find_range_from_cursor(im, t, key)
           hits == {r \in rows : /\ im[t].row[r].parent = key
                                 /\ im[t].row[r].data[1] = semantic}
           im2 == RemoveParents(im, t, hits)
           n == Len(im[t].row)
<1>1. t \in Tables /\ Len(Kinds[t]) # 1
  BY DEF Tables, Kinds
<1>2. Searched(t, tk) = key
  BY <1>1 DEF Searched
<1>3. RemoveSemantics(im, tk, semantic) = im2
  BY <1>2 DEF RemoveSemantics
<1>4. key \in Keys(t, e) /\ TokenOf(t, key) = tk
  BY <1>1, OwnerFacts DEF Keys
<1> HIDE DEF key, rows
<1>5. \A q \in 1 .. n : im[t].row[q].parent = key => q \in rows
  BY <1>1, <1>4, FindRange DEF rows
<1> HIDE DEF hits, im2
<1>6. im2 \in Image(e) /\ Removed(t, im, im2, hits)
  BY <1>1, RemoveParentsEffect DEF im2
<1>7. Emptied(t, e, im, im2, hits)
  BY <1>1, <1>6, RemovedIsEmptied
<1>8. MethodsOnce(im2[t])
  BY <1>7, EmptiedKeeps
<1>9. ASSUME NEW r \in 1 .. n, im2[t].row[r].parent = key, im2[t].row[r].data[1] = semantic
      PROVE  FALSE
  <2>1. r \notin hits
    <3>1. TokenOf(t, im2[t].row[r].parent)[2] # 0
      BY <1>4, <1>9
    <3> QED BY <1>7, <3>1 DEF Emptied
  <2>2. im2[t].row[r] = im[t].row[r]
    BY <1>7, <2>1 DEF Emptied
  <2>3. r \in hits
    BY <1>5, <1>9, <2>2 DEF hits
  <2> QED BY <2>1, <2>3
<1>10. NoMethod(im2, tk, semantic)
  <2>1. Len(im2[t].row) = n
    BY <1>7 DEF Emptied
  <2> QED BY <1>9, <2>1 DEF NoMethod, key
<1>11. OnlyIn(t, im, im2)
  BY <1>7 DEF Emptied
<1> QED BY <1>3, <1>6, <1>8, <1>10, <1>11

LEMMA SemanticReplaced ==
    ASSUME NEW e \in 0 .. MaxEvents, NEW im \in Image(e), NEW tk \in Owners("MethodSemantics", e),
           tk[2] # 0, NEW semantic \in Semantics, NEW m \in Methods,
           MethodsOnce(im["MethodSemantics"]), InOrder("MethodSemantics", im["MethodSemantics"])
    PROVE  LET im2 == AddMethodSemantic(RemoveSemantics(im, tk, semantic), tk, semantic, m)
           IN  /\ im2 \in Image(e) /\ OnlyIn("MethodSemantics", im, im2)
               /\ MethodsOnce(im2["MethodSemantics"])
<1> DEFINE gone == RemoveSemantics(im, tk, semantic)
           im2 == AddMethodSemantic(gone, tk, semantic, m)
<1>1. /\ gone \in Image(e) /\ OnlyIn("MethodSemantics", im, gone)
      /\ MethodsOnce(gone["MethodSemantics"]) /\ NoMethod(gone, tk, semantic)
  BY SemanticsRemoved
<1> HIDE DEF gone
<1>2. /\ im2 \in Image(e) /\ OnlyIn("MethodSemantics", gone, im2)
      /\ MethodsOnce(im2["MethodSemantics"])
  BY <1>1, SemanticAdded
<1> HIDE DEF im2
<1>3. OnlyIn("MethodSemantics", im, im2)
  BY <1>1, <1>2 DEF OnlyIn
<1> QED BY <1>2, <1>3 DEF im2, gone
----------------------------------------------------------------------------
(* The invariant, and the calls that keep it.                               *)

LEMMA InvariantFacts ==
    ASSUME IInv
    PROVE  /\ events \in 0 .. MaxEvents /\ table \in Image(events) /\ ~wide
           /\ flags \in [Flagged -> SUBSET Flags]
           /\ \A t \in Tables : InOrder(t, table[t]) /\ TableSound(t, table[t], flags)
BY DEF IInv, FlagsAreSound, InOrder

LEMMA DatumFacts == \A t \in Tables : Data[t] \subseteq Datum
BY DEF Datum

(* A call that touches table t only.                                        *)
LEMMA OneTable ==
    ASSUME IInv, FlagsAreSound', UNCHANGED <<events, generics, wide>>, NEW t \in Tables,
           table' \in Image(events), RowsKept(t, table, table'),
           flags' \in [Flagged -> SUBSET Flags],
           \A u \in Tables : u # t => SameFlag(u, flags, flags'),
           TableSound(t, table'[t], flags')
    PROVE  IInv'
<1>1. \A u \in Tables : TableSound(u, table[u], flags)
  BY DEF IInv
<1>2. \A u \in Tables : TableSound(u, table'[u], flags')
  BY <1>1, OthersSound
<1> QED BY <1>2 DEF IInv

(* Marshalling and RVAs.                                                    *)
LEMMA FlaggedRowCreated ==
    ASSUME IInv, FlagsAreSound', UNCHANGED <<events, generics, wide>>,
           NEW t \in {"FieldMarshal", "FieldRva"}, NEW tk \in ParentsOf(t), tk \in Flagged,
           NEW v \in Data[t], table' \in FindOrCreateParentedRow(table, t, tk, v),
           flags' = [flags EXCEPT ![tk] = @ \cup {FlagOf[t]}]
    PROVE  IInv'
<1>1. t \in DOMAIN FlagOf /\ t \in Tables /\ t # "GenericParam" /\ t # "MethodSemantics"
      /\ t \in OnceTables
  BY FlagFacts DEF OnceTables
<1>2. v \in Datum /\ tk \in Owners(t, events)
  BY <1>1, InvariantFacts, DatumFacts, TokensAreOwners
<1>3. table' \in Image(events) /\ Created(t, table, table', tk)
  BY <1>1, <1>2, InvariantFacts, FindOrCreateEffect
<1>4. /\ flags' \in [Flagged -> SUBSET Flags]
      /\ GainedFlag(t, flags, flags', tk)
      /\ \A u \in Tables : u # t => SameFlag(u, flags, flags')
  BY <1>1, InvariantFacts, FlagSet
<1>5. Single(t, table'[t]) /\ KeysGained(t, table, table', tk) /\ RowsKept(t, table, table')
  BY <1>1, <1>3, InvariantFacts DEF Created, TableSound
<1>6. TableSound(t, table'[t], flags')
  BY <1>1, <1>4, <1>5, InvariantFacts, RowGained
<1> QED BY <1>1, <1>3, <1>4, <1>5, <1>6, OneTable

(* Constants of fields and parameters, and the maps of types.               *)
LEMMA PlainRowCreated ==
    ASSUME IInv, FlagsAreSound', UNCHANGED <<flags, events, generics, wide>>,
           NEW t \in {"Constant", "EventMap", "PropertyMap"}, NEW tk \in ParentsOf(t),
           tk \notin Tokens("Property"), NEW v \in Datum,
           NEW im \in Image(events), Created(t, table, im, tk),
           table' \in Image(events), \A u \in Tables : table'[u].row = im[u].row
    PROVE  IInv'
<1>1. t \notin DOMAIN FlagOf /\ t \in Tables /\ t # "GenericParam" /\ t # "MethodSemantics"
      /\ t \in OnceTables
  BY FlagFacts DEF OnceTables, Tables, Kinds
<1>2. GainedFlag(t, flags, flags', tk) /\ \A u \in Tables : u # t => SameFlag(u, flags, flags')
  BY <1>1, FlagsUnchanged
<1>3. Single(t, im[t]) /\ KeysGained(t, table, im, tk) /\ RowsKept(t, table, im)
  BY <1>1, InvariantFacts DEF Created, TableSound
<1>4. TableSound(t, im[t], flags')
  BY <1>1, <1>2, <1>3, InvariantFacts, RowGained
<1>5. TableSound(t, table'[t], flags')
  BY <1>1, <1>4, NothingChanged, FlagsUnchanged
<1>6. RowsKept(t, table, table')
  BY <1>3 DEF RowsKept
<1> QED BY <1>1, <1>2, <1>5, <1>6, InvariantFacts, OneTable

LEMMA SetConstantKeeps ==
    ASSUME IInv, FlagsAreSound', NEW tk \in Tokens("Field") \cup Tokens("Param"),
           NEW v \in Data["Constant"], SetConstant(tk, v)
    PROVE  IInv'
<1>1. "Constant" \in Tables /\ tk \in ParentsOf("Constant") /\ tk \notin Tokens("Property")
  <2>1. tk[1] # "Property"
    BY DEF Tokens
  <2>2. tk \notin Tokens("Property")
    BY <2>1 DEF Tokens
  <2> QED BY <2>2, WhoseParents DEF Tables, Kinds
<1>2. v \in Datum /\ tk \in Owners("Constant", events)
  BY <1>1, InvariantFacts, DatumFacts, TokensAreOwners
<1>3. table' \in FindOrCreateParentedRow(table, "Constant", tk, v)
      /\ UNCHANGED <<flags, events, generics, wide>>
  BY DEF SetConstant
<1>4. table' \in Image(events) /\ Created("Constant", table, table', tk)
  BY <1>1, <1>2, <1>3, InvariantFacts, FindOrCreateEffect
<1> QED BY <1>1, <1>2, <1>3, <1>4, PlainRowCreated

LEMMA DefinePropertyKeeps ==
    ASSUME IInv, FlagsAreSound', NEW td \in Tokens("TypeDef"), DefineProperty(td)
    PROVE  IInv'
<1>1. "PropertyMap" \in Tables /\ td \in ParentsOf("PropertyMap") /\ td \notin Tokens("Property")
  <2>1. td[1] # "Property"
    BY DEF Tokens
  <2>2. td \notin Tokens("Property")
    BY <2>1 DEF Tokens
  <2> QED BY <2>2, WhoseParents DEF Tables, Kinds
<1>2. "None" \in Datum /\ td \in Owners("PropertyMap", events)
  BY <1>1, InvariantFacts, TokensAreOwners DEF Datum
<1>3. PICK im \in FindOrCreateParentedRow(table, "PropertyMap", td, "None") :
         table' \in CommitGarbage(im)
  BY DEF DefineProperty
<1>4. im \in Image(events) /\ Created("PropertyMap", table, im, td)
  BY <1>1, <1>2, <1>3, InvariantFacts, FindOrCreateEffect
<1>5. table' \in Image(events) /\ FlagsLowered(im, table')
  BY <1>3, <1>4, CommitGarbageEffect
<1>6. \A u \in Tables : table'[u].row = im[u].row
  BY <1>5 DEF FlagsLowered
<1>7. UNCHANGED <<flags, events, generics, wide>>
  BY DEF DefineProperty
<1> QED BY <1>1, <1>2, <1>4, <1>5, <1>6, <1>7, PlainRowCreated

LEMMA SetClassLayoutKeeps ==
    ASSUME IInv, FlagsAreSound', NEW td \in Tokens("TypeDef"),
           NEW fields \in AtMostOne(Tokens("Field")), NEW v \in Data["ClassLayout"],
           SetClassLayout(td, fields, v)
    PROVE  IInv'
<1> DEFINE t == "ClassLayout"
           f == "FieldLayout"
<1>1. /\ t \in Tables /\ t # "GenericParam" /\ t # "MethodSemantics"
      /\ f \in Tables /\ f # "GenericParam" /\ f # "MethodSemantics"
      /\ t # f /\ t \in OnceTables /\ f \in OnceTables
      /\ t \notin DOMAIN FlagOf /\ f \notin DOMAIN FlagOf
  BY FlagFacts DEF Tables, Kinds, OnceTables
<1>2. v \in Datum /\ td \in ParentsOf(t) /\ td \in Owners(t, events)
  <2>1. td \in ParentsOf(t)
    BY WhoseParents
  <2> QED BY <1>1, <2>1, InvariantFacts, DatumFacts, TokensAreOwners
<1>3. fields \in Seq(Owners(f, events))
  <2>1. \A fd \in Tokens("Field") : fd \in ParentsOf(f)
    BY WhoseParents
  <2>2. \A fd \in Tokens("Field") : fd \in Owners(f, events)
    BY <1>1, <2>1, InvariantFacts, TokensAreOwners
  <2> HIDE DEF f
  <2>3. fields = << >> \/ \E fd \in Tokens("Field") : fields = <<fd>>
    BY DEF AtMostOne
  <2> DEFINE S == Owners(f, events)
  <2> HIDE DEF S
  <2>4. << >> \in Seq(S) /\ \A fd \in S : <<fd>> \in Seq(S)
    OBVIOUS
  <2> QED BY <2>2, <2>3, <2>4 DEF S
<1>4. /\ table' \in FindOrCreateAfter(LayFields(table, fields, v), t, td, v)
      /\ UNCHANGED <<flags, events, generics, wide>>
  BY DEF SetClassLayout
<1>5. PICK im \in LayFields(table, fields, v) : table' \in FindOrCreateParentedRow(im, t, td, v)
  BY <1>4 DEF FindOrCreateAfter
<1>6. im \in Image(events) /\ Laid(table, im)
  BY <1>1, <1>2, <1>3, <1>5, InvariantFacts, LayFieldsEffect
<1>7. InOrder(t, im[t]) /\ RowsKept(f, table, im)
      /\ Single(f, im[f])
  BY <1>1, <1>6, InvariantFacts DEF Laid, OrderKept, TableSound
<1>8. table' \in Image(events) /\ Created(t, im, table', td)
  BY <1>1, <1>2, <1>5, <1>6, <1>7, InvariantFacts, FindOrCreateEffect
<1>9. RowsKept(t, im, table') /\ (Single(t, im[t]) => Single(t, table'[t]))
  BY <1>8 DEF Created
<1>10. ASSUME NEW u \in Tables PROVE TableSound(u, table'[u], flags')
  <2>1. TableSound(u, table[u], flags) /\ SameFlag(u, flags, flags')
    BY <1>4, InvariantFacts, FlagsUnchanged
  <2>2. CASE u # t /\ u # f
    <3>1. table'[u].row = table[u].row
      BY <1>7, <1>9, <2>2 DEF RowsKept
    <3> QED BY <2>1, <3>1, NothingChanged
  <2>3. CASE u = t
    <3>1. im[t].row = table[t].row
      BY <1>1, <1>7 DEF RowsKept
    <3>2. Single(t, table[t]) => Single(t, im[t])
      BY <3>1 DEF Single
    <3>3. Single(t, table'[t])
      BY <1>1, <1>9, <2>1, <2>3, <3>2 DEF TableSound
    <3> QED BY <1>1, <2>3, <3>3 DEF TableSound
  <2>4. CASE u = f
    <3>1. table'[f].row = im[f].row
      BY <1>1, <1>9 DEF RowsKept
    <3>2. Single(f, table'[f])
      BY <1>7, <3>1 DEF Single
    <3> QED BY <1>1, <2>4, <3>2 DEF TableSound
  <2> QED BY <2>2, <2>3, <2>4
<1> QED BY <1>4, <1>8, <1>10, InvariantFacts DEF IInv

LEMMA DeleteFieldMarshalKeeps ==
    ASSUME IInv, FlagsAreSound', NEW tk \in ParentsOf("FieldMarshal"), DeleteFieldMarshal(tk)
    PROVE  IInv'
<1> DEFINE t == "FieldMarshal"
           key == Key(t, tk)
           nil == Key(t, <<"Field", 0>>)
           r == md_find_row_from_cursor(table, t, key)
           n == Len(table[t].row)
<1>1. /\ t \in Tables /\ t # "MethodSemantics" /\ t \in OnceTables /\ t \in DOMAIN FlagOf
      /\ t # "Constant" /\ FlagOf[t] = "HasFieldMarshal" /\ ParentsOf(t) \subseteq Flagged
  BY FlagFacts DEF OnceTables
<1>2. tk \in Owners(t, events) /\ tk[2] # 0 /\ key \in Keys(t, events)
  BY <1>1, InvariantFacts, TokensAreOwners DEF Keys
<1>3. nil \in Keys(t, events) /\ TokenOf(t, nil)[2] = 0
  <2>1. /\ 1 \in 1 .. Len(Kinds[t]) /\ Kinds[t][1] = "Field"
        /\ Limit("Field", events) = Count["Field"]
    BY DEF Kinds, Limit
  <2>2. Count["Field"] \in Nat
    BY CountAssumption
  <2>3. <<"Field", 0>> \in Owners(t, events)
    BY <1>1, <2>1, <2>2, InvariantFacts, ParentsAreOwners
  <2>4. TokenOf(t, nil) = <<"Field", 0>>
    BY <1>1, <2>3, InvariantFacts, OwnerFacts
  <2> QED BY <2>3, <2>4 DEF Keys
<1>4. /\ r # 0 /\ table' = SetParent(table, t, r, nil)
      /\ flags' = [flags EXCEPT ![tk] = @ \ {FlagOf[t]}]
      /\ UNCHANGED <<events, generics, wide>>
  BY <1>1, InvariantFacts DEF DeleteFieldMarshal, DeleteParentedToken, ParentColumn, Searched
<1>5. r \in 1 .. n /\ table[t].row[r].parent = key
  <2> HIDE DEF t, key
  <2> QED BY <1>1, <1>2, <1>4, InvariantFacts, FindRow
<1> HIDE DEF key, nil, r
<1>6. table' \in Image(events) /\ Emptied(t, events, table, table', {r})
  BY <1>1, <1>3, <1>4, <1>5, InvariantFacts, SetToNil
<1>7. /\ flags' \in [Flagged -> SUBSET Flags]
      /\ LostFlag(t, flags, flags', tk)
      /\ \A u \in Tables : u # t => SameFlag(u, flags, flags')
  <2>1. tk \in Flagged
    BY <1>1
  <2> HIDE DEF t
  <2> QED BY <1>1, <1>4, <2>1, InvariantFacts, FlagCleared
<1>8. Single(t, table[t]) /\ FlagRight(t, table[t], flags)
  BY <1>1, InvariantFacts DEF TableSound
<1>9. Single(t, table'[t])
  BY <1>6, <1>8, InvariantFacts, EmptiedKeeps
<1>10. ASSUME NEW uk \in ParentsOf(t) \cap Flagged
       PROVE  FlagOf[t] \in flags'[uk] <=> Key(t, uk) \in Held(table'[t])
  <2>1. uk \in Owners(t, events) /\ uk[2] # 0
    BY <1>1, InvariantFacts, TokensAreOwners
  <2>2. TokenOf(t, Key(t, uk)) = uk /\ TokenOf(t, key) = tk
    BY <1>1, <1>2, <2>1, InvariantFacts, OwnerFacts DEF key
  <2>3. Key(t, uk) \in Held(table'[t]) <=>
           \E q \in 1 .. n : q \notin {r} /\ table[t].row[q].parent = Key(t, uk)
    BY <1>6, <2>1, <2>2, InvariantFacts, EmptiedKeeps
  <2>4. CASE uk = tk
    <3>1. ~ \E q \in 1 .. n : q # r /\ table[t].row[q].parent = key
      <4> SUFFICES ASSUME NEW q \in 1 .. n, q # r, table[t].row[q].parent = key PROVE FALSE
        OBVIOUS
      <4>1. q < r \/ r < q
        BY <1>5
      <4>2. TokenOf(t, key)[2] = 0
        BY <1>5, <1>8, <4>1 DEF Single
      <4> QED BY <1>2, <2>2, <4>2
    <3>2. Key(t, uk) \notin Held(table'[t])
      BY <2>3, <2>4, <3>1 DEF key
    <3> QED BY <1>7, <2>4, <3>2 DEF LostFlag
  <2>5. CASE uk # tk
    <3>1. Key(t, uk) # key
      BY <2>2, <2>5
    <3>2. Key(t, uk) \in Held(table'[t]) <=> Key(t, uk) \in Held(table[t])
      BY <1>5, <2>3, <3>1 DEF Held
    <3>3. FlagOf[t] \in flags[uk] <=> Key(t, uk) \in Held(table[t])
      BY <1>8 DEF FlagRight
    <3> QED BY <1>7, <2>5, <3>2, <3>3 DEF LostFlag
  <2> QED BY <2>4, <2>5
<1>11. TableSound(t, table'[t], flags')
  BY <1>1, <1>9, <1>10 DEF TableSound, FlagRight
<1>12. RowsKept(t, table, table')
  BY <1>6 DEF Emptied, OnlyIn, RowsKept
<1> QED BY <1>1, <1>4, <1>6, <1>7, <1>11, <1>12, OneTable

(* P/Invoke maps and permissions: rows are appended for a parent that may   *)
(* have some already.                                                       *)
LEMMA FlaggedRowAppended ==
    ASSUME IInv, FlagsAreSound', UNCHANGED <<events, generics, wide>>,
           NEW t \in {"ImplMap", "DeclSecurity"}, NEW tk \in ParentsOf(t), NEW v \in Data[t],
           table' = AppendRow(table, t, tk, v),
           flags' = IF tk \in Flagged THEN [flags EXCEPT ![tk] = @ \cup {FlagOf[t]}] ELSE flags
    PROVE  IInv'
<1>1. t \in DOMAIN FlagOf /\ t \in Tables /\ t # "MethodSemantics" /\ t # "Constant"
      /\ t \notin OnceTables
  BY FlagFacts DEF OnceTables
<1>2. v \in Datum /\ tk \in Owners(t, events)
  BY <1>1, InvariantFacts, DatumFacts, TokensAreOwners
<1>3. table' \in Image(events) /\ Appended(t, table, table', tk, v)
  BY <1>1, <1>2, InvariantFacts, AppendRowEffect
<1>4. KeysGained(t, table, table', tk)
  BY <1>1, <1>3, InvariantFacts, AppendedRows
<1>5. RowsKept(t, table, table')
  BY <1>3 DEF Appended, OnlyIn, RowsKept
<1>6. /\ flags' \in [Flagged -> SUBSET Flags]
      /\ GainedFlag(t, flags, flags', tk)
      /\ \A u \in Tables : u # t => SameFlag(u, flags, flags')
  <2>1. CASE tk \in Flagged
    <3>1. flags' = [flags EXCEPT ![tk] = @ \cup {FlagOf[t]}]
      BY <2>1
    <3> QED BY <1>1, <2>1, <3>1, InvariantFacts, FlagSet
  <2>2. CASE tk \notin Flagged
    <3>1. flags' = flags
      BY <2>2
    <3>2. GainedFlag(t, flags, flags', tk)
      BY <1>1, <2>2, <3>1 DEF GainedFlag
    <3> QED BY <3>1, <3>2, InvariantFacts, FlagsUnchanged
  <2> QED BY <2>1, <2>2
<1>7. TableSound(t, table'[t], flags')
  <2>1. TableSound(t, table[t], flags) /\ events \in 0 .. MaxEvents
    BY <1>1, InvariantFacts
  <2>2. t \in OnceTables => Single(t, table'[t])
    BY <1>1
  <2> QED BY ONLY <1>1, <1>4, <1>6, <2>1, <2>2, tk \in ParentsOf(t), RowGained
<1> QED BY <1>1, <1>3, <1>5, <1>6, <1>7, OneTable

(* SetPinvokeMap and SetPermissionSetProps.                                 *)
LEMMA SetFoundRowKeeps ==
    ASSUME IInv, FlagsAreSound', NEW t \in {"ImplMap", "DeclSecurity"}, NEW tk \in ParentsOf(t),
           NEW v \in Data[t], SetFoundRow(t, tk, v)
    PROVE  IInv'
<1> DEFINE key == Key(t, tk)
           r == md_find_row_from_cursor(table, t, key)
<1>1. t \in Tables /\ t # "MethodSemantics" /\ t \in DOMAIN FlagOf
  BY FlagFacts
<1>2. v \in Datum /\ tk \in Owners(t, events) /\ key \in Keys(t, events)
  BY <1>1, InvariantFacts, DatumFacts, TokensAreOwners DEF Keys
<1>3. r # 0 /\ table' = SetData(table, t, r, v) /\ UNCHANGED <<flags, events, generics, wide>>
  BY InvariantFacts DEF SetFoundRow, Searched
<1> HIDE DEF key
<1>4. r \in 1 .. Len(table[t].row)
  BY <1>1, <1>2, <1>3, InvariantFacts, FindRow
<1> HIDE DEF r
<1>5. table' \in Image(events) /\ OnlyIn(t, table, table') /\ SameColumn(t, table, table')
  BY <1>1, <1>2, <1>3, <1>4, InvariantFacts, SetDataEffect
<1>6. TableSound(t, table'[t], flags')
  BY <1>1, <1>3, <1>5, InvariantFacts, ParentsUnchanged
<1>7. RowsKept(t, table, table')
  BY <1>5 DEF OnlyIn, RowsKept
<1>8. \A u \in Tables : SameFlag(u, flags, flags')
  BY <1>3, FlagsUnchanged
<1> QED BY <1>1, <1>3, <1>5, <1>6, <1>7, <1>8, InvariantFacts, OneTable

LEMMA DeletePermissionKeeps ==
    ASSUME IInv, FlagsAreSound', NEW r \in DOMAIN table["DeclSecurity"].row, DeletePermission(r)
    PROVE  IInv'
<1> DEFINE t == "DeclSecurity"
           key == table[t].row[r].parent
           tk == TokenOf(t, key)
           nil == NilOf(t, key)
           n == Len(table[t].row)
<1>1. /\ t \in Tables /\ t # "MethodSemantics" /\ t \in DOMAIN FlagOf /\ t # "Constant"
      /\ t \notin OnceTables /\ FlagOf[t] = "HasSecurity"
  BY FlagFacts DEF OnceTables
<1>2. r \in 1 .. n /\ key \in Keys(t, events)
  BY <1>1, InvariantFacts, TablesOfImage
<1>3. tk \in Owners(t, events) /\ Key(t, tk) = key /\ nil \in Keys(t, events)
      /\ TokenOf(t, nil)[2] = 0
  BY <1>1, <1>2, InvariantFacts, KeyFacts
<1>4. /\ table' = SetParent(table, t, r, nil)
      /\ flags' = IF tk[1] # "Assembly" /\ tk[2] # 0
                     /\ md_find_row_from_cursor(table', t, key) = 0
                  THEN [flags EXCEPT ![tk] = @ \ {FlagOf[t]}] ELSE flags
      /\ UNCHANGED <<events, generics, wide>>
  BY <1>1, <1>3, InvariantFacts DEF DeletePermission, NoPermissionLeft, Searched
<1> HIDE DEF key, tk, nil
<1>5. table' \in Image(events) /\ Emptied(t, events, table, table', {r})
  BY <1>1, <1>2, <1>3, <1>4, InvariantFacts, SetToNil
<1>6. IF md_find_row_from_cursor(table', t, key) = 0 THEN key \notin Held(table'[t])
      ELSE key \in Held(table'[t])
  <2> DEFINE s == md_find_row_from_cursor(table', t, key)
  <2>1. InOrder(t, table'[t])
    BY <1>1 DEF FlagsAreSound, InOrder
  <2>2. IF s = 0 THEN \A q \in 1 .. Len(table'[t].row) : table'[t].row[q].parent # key
        ELSE s \in 1 .. Len(table'[t].row) /\ table'[t].row[s].parent = key
    BY <1>1, <1>2, <1>5, <2>1, InvariantFacts, FindRow
  <2> HIDE DEF s
  <2>3. CASE s = 0
    BY <2>2, <2>3 DEF Held, s
  <2>4. CASE s # 0
    <3>1. key \in Held(table'[t])
      BY <2>2, <2>4 DEF Held
    <3> QED BY <2>4, <3>1 DEF s
  <2> QED BY <2>3, <2>4
<1>7. RowsKept(t, table, table')
  BY <1>5 DEF Emptied, OnlyIn, RowsKept
<1>8. ASSUME NEW uk \in ParentsOf(t) \cap Flagged
      PROVE  /\ Key(t, uk) = key <=> uk = tk
             /\ uk # tk => (Key(t, uk) \in Held(table'[t]) <=> Key(t, uk) \in Held(table[t]))
             /\ FlagOf[t] \in flags[uk] <=> Key(t, uk) \in Held(table[t])
  <2>1. uk \in Owners(t, events) /\ uk[2] # 0
    BY <1>1, InvariantFacts, TokensAreOwners
  <2>2. TokenOf(t, Key(t, uk)) = uk
    BY <1>1, <2>1, InvariantFacts, OwnerFacts
  <2>3. Key(t, uk) = key <=> uk = tk
    BY <1>3, <2>2 DEF tk
  <2>4. Key(t, uk) \in Held(table'[t]) <=>
           \E q \in 1 .. n : q \notin {r} /\ table[t].row[q].parent = Key(t, uk)
    BY <1>5, <2>1, <2>2, InvariantFacts, EmptiedKeeps
  <2>5. uk # tk => (Key(t, uk) \in Held(table'[t]) <=> Key(t, uk) \in Held(table[t]))
    <3>1. uk # tk => Key(t, uk) # table[t].row[r].parent
      BY <2>3 DEF key
    <3> QED BY <2>4, <3>1 DEF Held
  <2>6. FlagRight(t, table[t], flags)
    BY <1>1, InvariantFacts DEF TableSound
  <2> QED BY <2>3, <2>5, <2>6 DEF FlagRight
<1>9. key \in Held(table[t])
  BY <1>2 DEF Held, key
<1>10. CASE tk \in ParentsOf(t) \cap Flagged
  <2>1. tk[2] # 0 /\ tk[1] # "Assembly" /\ tk \in Flagged
    BY <1>1, <1>10, InvariantFacts, TokensAreOwners, FlagFacts
  <2>2. CASE md_find_row_from_cursor(table', t, key) = 0
    <3>1. flags' = [flags EXCEPT ![tk] = @ \ {FlagOf[t]}]
      BY <1>4, <2>1, <2>2
    <3>2. /\ flags' \in [Flagged -> SUBSET Flags]
          /\ LostFlag(t, flags, flags', tk)
          /\ \A u \in Tables : u # t => SameFlag(u, flags, flags')
      <4> HIDE DEF t
      <4> QED BY <1>1, <2>1, <3>1, InvariantFacts, FlagCleared
    <3>3. key \notin Held(table'[t])
      BY <1>6, <2>2
    <3>4. FlagRight(t, table'[t], flags')
      BY <1>8, <3>2, <3>3 DEF FlagRight, LostFlag
    <3>5. TableSound(t, table'[t], flags')
      BY <1>1, <3>4 DEF TableSound
    <3> QED BY <1>1, <1>4, <1>5, <1>7, <3>2, <3>5, OneTable
  <2>3. CASE md_find_row_from_cursor(table', t, key) # 0
    <3>1. flags' = flags /\ key \in Held(table'[t])
      BY <1>4, <1>6, <2>3
    <3>2. FlagRight(t, table'[t], flags')
      BY <1>8, <1>9, <3>1 DEF FlagRight
    <3>3. TableSound(t, table'[t], flags')
      BY <1>1, <3>2 DEF TableSound
    <3>4. \A u \in Tables : SameFlag(u, flags, flags')
      BY <3>1, FlagsUnchanged
    <3> QED BY <1>1, <1>4, <1>5, <1>7, <3>1, <3>3, <3>4, InvariantFacts, OneTable
  <2> QED BY <2>2, <2>3
<1>11. CASE tk \notin ParentsOf(t) \cap Flagged
  <2>1. ~(tk[1] # "Assembly" /\ tk[2] # 0)
    <3>1. SUFFICES ASSUME tk[1] # "Assembly", tk[2] # 0 PROVE tk \in ParentsOf(t) \cap Flagged
      BY <1>11
    <3>2. tk \in ParentsOf(t)
      BY <1>1, <1>3, <3>1, InvariantFacts, OwnersAreTokens
    <3> QED BY <3>1, <3>2, FlagFacts
  <2>2. flags' = flags
    BY <1>4, <2>1
  <2>3. \A uk \in ParentsOf(t) \cap Flagged : uk # tk
    BY <1>11
  <2>4. FlagRight(t, table'[t], flags')
    BY <1>8, <2>2, <2>3 DEF FlagRight
  <2>5. TableSound(t, table'[t], flags')
    BY <1>1, <2>4 DEF TableSound
  <2>6. \A u \in Tables : SameFlag(u, flags, flags')
    BY <2>2, FlagsUnchanged
  <2> QED BY <1>1, <1>4, <1>5, <1>7, <2>2, <2>5, <2>6, InvariantFacts, OneTable
<1> QED BY <1>10, <1>11

(* Tables of which nothing is said here.                                    *)
Others == {"CustomAttribute", "GenericParam", "GenericParamConstraint", "InterfaceImpl"}

LEMMA OtherTables ==
    ASSUME IInv, FlagsAreSound', UNCHANGED <<flags, events, wide>>,
           generics' \in 0 .. Count["GenericParam"],
           table' \in Image(events), \A u \in Tables \ Others : table'[u].row = table[u].row
    PROVE  IInv'
<1>1. ASSUME NEW u \in Tables PROVE TableSound(u, table'[u], flags')
  <2>1. CASE u \in Others
    <3>1. u \notin OnceTables /\ u \notin DOMAIN FlagOf /\ u # "Constant" /\ u # "MethodSemantics"
      BY <2>1, FlagFacts DEF Others, OnceTables
    <3> QED BY <3>1 DEF TableSound
  <2>2. CASE u \notin Others
    <3>1. TableSound(u, table[u], flags) /\ SameFlag(u, flags, flags')
      BY InvariantFacts, FlagsUnchanged
    <3> QED BY <2>2, <3>1, NothingChanged
  <2> QED BY <2>1, <2>2
<1> QED BY <1>1, InvariantFacts DEF IInv

LEMMA OtherFacts == Others \subseteq Tables /\ "MethodSemantics" \notin Others
BY DEF Others, Tables, Kinds

LEMMA DefineCustomAttributeKeeps ==
    ASSUME IInv, FlagsAreSound', NEW tk \in ParentsOf("CustomAttribute"),
           NEW v \in Data["CustomAttribute"], DefineCustomAttribute(tk, v)
    PROVE  IInv'
<1> DEFINE t == "CustomAttribute"
<1>1. t \in Tables /\ t \in Others /\ t # "MethodSemantics"
  BY OtherFacts DEF Others
<1>2. v \in Datum /\ tk \in Owners(t, events)
  BY <1>1, InvariantFacts, DatumFacts, TokensAreOwners
<1>3. table' = AppendRow(table, t, tk, v) /\ UNCHANGED <<flags, events, generics, wide>>
  BY DEF DefineCustomAttribute
<1> HIDE DEF t
<1>4. table' \in Image(events) /\ Appended(t, table, table', tk, v)
  BY <1>1, <1>2, <1>3, InvariantFacts, AppendRowEffect
<1>5. \A u \in Tables \ Others : table'[u].row = table[u].row
  BY <1>1, <1>4 DEF Appended, OnlyIn
<1>6. generics' \in 0 .. Count["GenericParam"]
  BY <1>3 DEF IInv
<1> QED BY <1>3, <1>4, <1>5, <1>6, OtherTables

LEMMA DeleteTokenKeeps ==
    ASSUME IInv, FlagsAreSound',
           NEW t \in {"CustomAttribute", "GenericParam", "GenericParamConstraint"},
           NEW r \in DOMAIN table[t].row, DeleteToken(t, r)
    PROVE  IInv'
<1>1. t \in Tables /\ t \in Others
  BY OtherFacts DEF Others
<1> DEFINE key == NilOf(t, table[t].row[r].parent)
<1>2. r \in 1 .. Len(table[t].row) /\ key \in Keys(t, events)
  <2>1. r \in 1 .. Len(table[t].row) /\ table[t].row[r].parent \in Keys(t, events)
    BY <1>1, InvariantFacts, TablesOfImage
  <2> QED BY <1>1, <2>1, InvariantFacts, KeyFacts
<1>3. table' = SetParent(table, t, r, key) /\ UNCHANGED <<flags, events, generics, wide>>
  BY DEF DeleteToken
<1> HIDE DEF key
<1>4. table' \in Image(events) /\ OnlyIn(t, table, table')
  BY <1>1, <1>2, <1>3, InvariantFacts, SetParentEffect
<1>5. \A u \in Tables \ Others : table'[u].row = table[u].row
  BY <1>1, <1>4 DEF OnlyIn
<1>6. generics' \in 0 .. Count["GenericParam"]
  BY <1>3 DEF IInv
<1> QED BY <1>3, <1>4, <1>5, <1>6, OtherTables

LEMMA SetTypeDefPropsKeeps ==
    ASSUME IInv, FlagsAreSound', NEW td \in Tokens("TypeDef"),
           NEW vs \in AtMostOne(Data["InterfaceImpl"]), SetTypeDefProps(td, vs)
    PROVE  IInv'
<1> DEFINE t == "InterfaceImpl"
           new == IF vs = << >> THEN <<"None">> ELSE vs
<1>1. t \in Tables /\ t \in Others /\ t # "MethodSemantics"
  BY OtherFacts DEF Others
<1>2. td \in Owners(t, events)
  <2>1. td \in ParentsOf(t)
    BY WhoseParents
  <2> QED BY <1>1, <2>1, InvariantFacts, TokensAreOwners
<1>3. new \in Seq(Datum)
  <2>1. vs = << >> \/ \E v \in Data[t] : vs = <<v>>
    BY DEF AtMostOne
  <2>2. "None" \in Datum /\ Data[t] \subseteq Datum
    BY <1>1, DatumFacts DEF Datum
  <2>3. \A v \in Datum : <<v>> \in Seq(Datum)
    OBVIOUS
  <2>4. CASE vs = << >>
    BY <2>2, <2>3, <2>4
  <2>5. CASE vs # << >>
    BY <2>1, <2>2, <2>3, <2>5
  <2> QED BY <2>4, <2>5
<1>4. PICK old : table' = Implement(RemoveParents(table, t, old), td, new)
                 /\ UNCHANGED <<flags, events, generics, wide>>
  BY DEF SetTypeDefProps
<1> DEFINE im == RemoveParents(table, t, old)
<1> HIDE DEF new
<1>5. im \in Image(events) /\ Removed(t, table, im, old)
  BY <1>1, InvariantFacts, RemoveParentsEffect
<1> HIDE DEF im
<1>6. table' \in Image(events) /\ OnlyIn(t, im, table')
  BY <1>2, <1>3, <1>4, <1>5, InvariantFacts, ImplementEffect DEF im
<1>7. \A u \in Tables \ Others : table'[u].row = table[u].row
  BY <1>1, <1>5, <1>6 DEF OnlyIn, Removed
<1>8. generics' \in 0 .. Count["GenericParam"]
  BY <1>4 DEF IInv
<1> QED BY <1>4, <1>6, <1>7, <1>8, OtherTables

LEMMA FirstConstraintEffect ==
    ASSUME NEW e \in 0 .. MaxEvents, NEW im \in Image(e), NEW n \in 1 .. Count["GenericParam"],
           NEW vs \in AtMostOne(Data["GenericParamConstraint"])
    PROVE  LET im2 == FirstConstraint(im, <<"GenericParam", n>>, vs)
           IN  im2 \in Image(e) /\ OnlyIn("GenericParamConstraint", im, im2)
<1> DEFINE t == "GenericParamConstraint"
           gp == <<"GenericParam", n>>
           im2 == FirstConstraint(im, gp, vs)
<1>1. t \in Tables /\ t # "MethodSemantics" /\ gp \in ParentsOf(t)
  <2>1. t \in Tables /\ 1 \in DOMAIN Kinds[t] /\ Kinds[t][1] = "GenericParam"
    BY DEF Tables, Kinds
  <2>2. gp \in Tokens("GenericParam")
    BY DEF Tokens
  <2> HIDE DEF gp
  <2> QED BY <2>1, <2>2 DEF ParentsOf
<1>2. gp \in Owners(t, e)
  BY <1>1, TokensAreOwners
<1>3. CASE vs = << >>
  BY <1>3 DEF FirstConstraint, OnlyIn
<1>4. CASE vs # << >>
  <2>1. PICK v \in Data[t] : vs = <<v>>
    BY <1>4 DEF AtMostOne
  <2>2. v \in Datum /\ Head(vs) = v
    BY <1>1, <2>1, DatumFacts
  <2>3. im2 = AppendRow(im, t, gp, v)
    BY <1>4, <2>2 DEF FirstConstraint
  <2> HIDE DEF gp, im2
  <2>4. im2 \in Image(e) /\ Appended(t, im, im2, gp, v)
    BY <1>1, <1>2, <2>2, <2>3, AppendRowEffect
  <2> QED BY <2>4 DEF Appended, im2, gp
<1> QED BY <1>3, <1>4

LEMMA DefineGenericParamKeeps ==
    ASSUME IInv, FlagsAreSound', NEW tk \in ParentsOf("GenericParam"),
           NEW n \in Data["GenericParam"], NEW vs \in AtMostOne(Data["GenericParamConstraint"]),
           DefineGenericParam(tk, n, vs)
    PROVE  IInv'
<1> DEFINE t == "GenericParam"
           c == "GenericParamConstraint"
           gp == <<"GenericParam", generics + 1>>
           im == FirstConstraint(table, gp, vs)
<1>1. t \in Tables /\ t \in Others /\ c \in Others /\ t # "MethodSemantics"
  BY OtherFacts DEF Others
<1>2. n \in Datum /\ tk \in Owners(t, events)
  BY <1>1, InvariantFacts, DatumFacts, TokensAreOwners
<1>3. /\ generics < Count["GenericParam"] /\ generics' = generics + 1
      /\ table' = AppendRow(im, t, tk, n) /\ UNCHANGED <<flags, events, wide>>
  BY DEF DefineGenericParam
<1>4. Count["GenericParam"] \in Nat /\ generics \in Nat
  BY CountAssumption DEF IInv
<1>5. generics + 1 \in 1 .. Count["GenericParam"] /\ generics' \in 0 .. Count["GenericParam"]
  BY <1>3, <1>4
<1>6. im \in Image(events) /\ OnlyIn(c, table, im)
  BY <1>5, InvariantFacts, FirstConstraintEffect
<1> HIDE DEF t, c, im
<1>7. table' \in Image(events) /\ Appended(t, im, table', tk, n)
  BY <1>1, <1>2, <1>3, <1>6, InvariantFacts, AppendRowEffect
<1>8. \A u \in Tables \ Others : table'[u].row = table[u].row
  BY <1>1, <1>6, <1>7 DEF Appended, OnlyIn
<1> QED BY <1>3, <1>5, <1>7, <1>8, OtherTables

LEMMA SetGenericParamPropsKeeps ==
    ASSUME IInv, FlagsAreSound', NEW gp \in Generics,
           NEW vs \in AtMostOne(Data["GenericParamConstraint"]), SetGenericParamProps(gp, vs)
    PROVE  IInv'
<1> DEFINE t == "GenericParamConstraint"
<1>1. t \in Tables /\ t \in Others
  BY OtherFacts DEF Others
<1>2. PICK n \in 1 .. generics : gp = <<"GenericParam", n>>
  BY DEF Generics
<1>3. Count["GenericParam"] \in Nat /\ generics \in 0 .. Count["GenericParam"]
  BY CountAssumption DEF IInv
<1>4. n \in 1 .. Count["GenericParam"]
  BY <1>2, <1>3
<1>5. PICK old : table' = FirstConstraint(RemoveParents(table, t, old), gp, vs)
                 /\ UNCHANGED <<flags, events, generics, wide>>
  BY DEF SetGenericParamProps
<1> DEFINE im == RemoveParents(table, t, old)
<1>6. im \in Image(events) /\ Removed(t, table, im, old)
  BY <1>1, InvariantFacts, RemoveParentsEffect
<1> HIDE DEF im
<1>7. table' \in Image(events) /\ OnlyIn(t, im, table')
  BY <1>2, <1>4, <1>5, <1>6, InvariantFacts, FirstConstraintEffect DEF im
<1>8. \A u \in Tables \ Others : table'[u].row = table[u].row
  BY <1>1, <1>6, <1>7 DEF OnlyIn, Removed
<1>9. generics' \in 0 .. Count["GenericParam"]
  BY <1>3, <1>5
<1> QED BY <1>5, <1>7, <1>8, <1>9, OtherTables

(* Events and properties have methods.                                      *)
LEMMA MethodOwners ==
    ASSUME NEW e \in 0 .. MaxEvents
    PROVE  /\ "MethodSemantics" \in Tables
           /\ \A n \in 1 .. e : <<"Event", n>> \in Owners("MethodSemantics", e)
           /\ \A pr \in Tokens("Property") : pr \in Owners("MethodSemantics", e) /\ pr[2] # 0
<1> DEFINE t == "MethodSemantics"
<1>1. /\ t \in Tables /\ Kinds[t][1] = "Event" /\ Kinds[t][2] = "Property"
      /\ 1 \in 1 .. Len(Kinds[t]) /\ 2 \in 1 .. Len(Kinds[t])
  BY DEF Tables, Kinds
<1>2. /\ Limit("Event", e) = e /\ Limit("Property", e) = Count["Property"]
      /\ e \in Nat /\ Count["Property"] \in Nat
  BY CountAssumption DEF Limit
<1> HIDE DEF t
<1>3. ASSUME NEW n \in 1 .. e PROVE <<"Event", n>> \in Owners(t, e)
  <2>1. n \in Nat /\ n <= Limit("Event", e)
    BY <1>2
  <2> QED BY <1>1, <1>2, <2>1, ParentsAreOwners
<1>4. ASSUME NEW pr \in Tokens("Property") PROVE pr \in Owners(t, e) /\ pr[2] # 0
  <2>1. PICK n \in 1 .. Count["Property"] : pr = <<"Property", n>>
    BY DEF Tokens
  <2>2. n \in Nat /\ n <= Limit("Property", e) /\ n # 0 /\ pr[2] = n
    BY <1>2, <2>1
  <2> QED BY <1>1, <1>2, <2>1, <2>2, ParentsAreOwners
<1> QED BY <1>1, <1>3, <1>4 DEF t

LEMMA DefineEventKeeps ==
    ASSUME IInv, FlagsAreSound', NEW td \in Tokens("TypeDef"), NEW m \in Methods,
           DefineEvent(td, m)
    PROVE  IInv'
<1> DEFINE t == "EventMap"
           s == "MethodSemantics"
           e == events + 1
           ev == <<"Event", e>>
<1>1. /\ t \in Tables /\ t # "GenericParam" /\ t # s /\ t \in OnceTables
      /\ t \notin DOMAIN FlagOf /\ t # "Constant"
      /\ s \in Tables /\ s \notin OnceTables /\ s \notin DOMAIN FlagOf /\ s # "Constant"
  BY FlagFacts DEF Tables, Kinds, OnceTables
<1>2. td \in ParentsOf(t) /\ td \in Owners(t, events) /\ "None" \in Datum
  <2>1. td \in ParentsOf(t)
    BY WhoseParents
  <2> QED BY <1>1, <2>1, InvariantFacts, TokensAreOwners DEF Datum
<1>3. /\ events < MaxEvents /\ events' = e /\ UNCHANGED <<flags, generics, wide>>
      /\ \E im \in FindOrCreateParentedRow(table, t, td, "None") :
            table' = AddMethodSemantic(AddMethodSemantic(im, ev, "AddOn", m), ev, "RemoveOn", m)
  BY DEF DefineEvent
<1>4. PICK im \in FindOrCreateParentedRow(table, t, td, "None") :
         table' = AddMethodSemantic(AddMethodSemantic(im, ev, "AddOn", m), ev, "RemoveOn", m)
  BY <1>3
<1>5. events \in Nat /\ e \in 0 .. MaxEvents /\ e \in 1 .. e
  BY <1>3, InvariantFacts, CountAssumption
<1>6. im \in Image(events) /\ Created(t, table, im, td)
  BY <1>1, <1>2, <1>4, InvariantFacts, FindOrCreateEffect
<1>7. im \in Image(e)
  BY <1>5, <1>6, ImageGrows
<1>8. ev \in Owners(s, e) /\ TokenOf(s, Key(s, ev)) = ev
  <2>1. ev \in Owners(s, e)
    BY <1>5, MethodOwners
  <2> HIDE DEF ev, e
  <2> QED BY <1>1, <1>5, <2>1, OwnerFacts
<1>9. MethodsOnce(im[s]) /\ RowsKept(t, table, im)
  <2>1. im[s].row = table[s].row /\ RowsKept(t, table, im)
    BY <1>1, <1>6 DEF Created, RowsKept
  <2> QED BY <1>1, <2>1, InvariantFacts DEF TableSound, MethodsOnce
<1>10. \A semantic : NoMethod(im, ev, semantic)
  <2> SUFFICES ASSUME NEW r \in 1 .. Len(im[s].row), im[s].row[r].parent = Key(s, ev)
               PROVE  FALSE
    BY DEF NoMethod
  <2>1. im[s].row[r].parent \in Keys(s, events)
    BY <1>1, <1>6, TablesOfImage
  <2>2. ev \in Owners(s, events)
    <3>1. TokenOf(s, im[s].row[r].parent) \in Owners(s, events)
      BY <1>1, <2>1, InvariantFacts, KeyFacts
    <3> QED BY <1>8, <3>1
  <2>3. PICK i \in DOMAIN Kinds[s] : ev \in {Kinds[s][i]} \X (0 .. Limit(Kinds[s][i], events))
    BY <2>2 DEF Owners
  <2>4. Kinds[s][i] = "Event" /\ e \in 0 .. Limit(Kinds[s][i], events)
    BY <2>3
  <2>5. e \in 0 .. events
    BY <2>4 DEF Limit
  <2> QED BY <1>5, <2>5
<1> DEFINE on == AddMethodSemantic(im, ev, "AddOn", m)
<1> HIDE DEF ev, e
<1>11. /\ on \in Image(e) /\ OnlyIn(s, im, on) /\ MethodsOnce(on[s])
       /\ NoMethod(on, ev, "RemoveOn")
  <2>1. "AddOn" \in Semantics /\ "RemoveOn" # "AddOn"
    BY DEF Semantics
  <2> QED BY <1>5, <1>7, <1>8, <1>9, <1>10, <2>1, SemanticAdded
<1> HIDE DEF on
<1>12. table' \in Image(e) /\ OnlyIn(s, on, table') /\ MethodsOnce(table'[s])
  <2>1. table' = AddMethodSemantic(on, ev, "RemoveOn", m)
    BY <1>4 DEF on
  <2>2. "RemoveOn" \in Semantics
    BY DEF Semantics
  <2> QED BY <1>5, <1>8, <1>11, <2>1, <2>2, SemanticAdded
<1>13. ASSUME NEW u \in Tables PROVE TableSound(u, table'[u], flags')
  <2>1. TableSound(u, table[u], flags) /\ SameFlag(u, flags, flags')
    BY <1>3, InvariantFacts, FlagsUnchanged
  <2>2. u # s => table'[u].row = im[u].row
    BY <1>11, <1>12 DEF OnlyIn
  <2>3. CASE u # t /\ u # s
    <3>1. table'[u].row = table[u].row
      BY <1>9, <2>2, <2>3 DEF RowsKept
    <3> QED BY <2>1, <3>1, NothingChanged
  <2>4. CASE u = t
    <3>1. Single(t, im[t])
      BY <1>1, <1>6, <2>1, <2>4 DEF TableSound, Created
    <3>2. Single(t, table'[t])
      BY <1>1, <2>2, <2>4, <3>1 DEF Single
    <3> QED BY <1>1, <2>4, <3>2 DEF TableSound
  <2>5. CASE u = s
    BY <1>1, <1>12, <2>5 DEF TableSound
  <2> QED BY <2>3, <2>4, <2>5
<1>14. generics' \in 0 .. Count["GenericParam"]
  BY <1>3 DEF IInv
<1> QED BY <1>3, <1>5, <1>12, <1>13, <1>14, InvariantFacts DEF IInv

LEMMA SetEventPropsKeeps ==
    ASSUME IInv, FlagsAreSound', NEW ev \in Events, NEW semantic \in {"AddOn", "RemoveOn"},
           NEW m \in Methods, SetEventProps(ev, semantic, m)
    PROVE  IInv'
<1> DEFINE s == "MethodSemantics"
<1>1. s \in Tables /\ s \notin OnceTables /\ s \notin DOMAIN FlagOf /\ s # "Constant"
  BY FlagFacts DEF Tables, Kinds, OnceTables
<1>2. PICK n \in 1 .. events : ev = <<"Event", n>>
  BY DEF Events
<1>3. ev \in Owners(s, events) /\ ev[2] # 0
  <2>1. ev[2] = n /\ n # 0
    BY <1>2
  <2> QED BY <1>2, <2>1, InvariantFacts, MethodOwners
<1>4. /\ table' = AddMethodSemantic(RemoveSemantics(table, ev, semantic), ev, semantic, m)
      /\ UNCHANGED <<flags, events, generics, wide>> /\ semantic \in Semantics
  BY DEF SetEventProps, Semantics
<1>5. MethodsOnce(table[s]) /\ InOrder(s, table[s])
  BY <1>1, InvariantFacts DEF TableSound
<1>6. table' \in Image(events) /\ OnlyIn(s, table, table') /\ MethodsOnce(table'[s])
  BY <1>3, <1>4, <1>5, InvariantFacts, SemanticReplaced
<1>7. TableSound(s, table'[s], flags')
  BY <1>1, <1>6 DEF TableSound
<1>8. RowsKept(s, table, table')
  BY <1>6 DEF OnlyIn, RowsKept
<1>9. \A u \in Tables : SameFlag(u, flags, flags')
  BY <1>4, FlagsUnchanged
<1> QED BY <1>1, <1>4, <1>6, <1>7, <1>8, <1>9, InvariantFacts, OneTable

LEMMA SetPropertyPropsKeeps ==
    ASSUME IInv, FlagsAreSound', NEW pr \in Tokens("Property"),
           NEW vs \in AtMostOne(Data["Constant"]), NEW ms \in AtMostOne(Methods),
           SetPropertyProps(pr, vs, ms)
    PROVE  IInv'
<1> DEFINE s == "MethodSemantics"
           t == "Constant"
           image == IF ms = << >> THEN table
                    ELSE AddMethodSemantic(RemoveSemantics(table, pr, "Getter"),
                                           pr, "Getter", Head(ms))
<1>1. /\ s \in Tables /\ s \notin OnceTables /\ s \notin DOMAIN FlagOf /\ s # t
      /\ t \in Tables /\ t \in OnceTables /\ t \notin DOMAIN FlagOf /\ t # "GenericParam"
  BY FlagFacts DEF Tables, Kinds, OnceTables
<1>2. /\ flags' = IF vs = << >> THEN flags ELSE [flags EXCEPT ![pr] = {"HasDefault"}]
      /\ \/ table' = table
         \/ vs = << >> /\ table' = image
         \/ vs # << >> /\ table' \in FindOrCreateParentedRow(image, t, pr, Head(vs))
      /\ UNCHANGED <<events, generics, wide>>
  BY DEF SetPropertyProps
<1>3. pr \in Owners(s, events) /\ pr[2] # 0 /\ pr \in ParentsOf(t) /\ pr \in Owners(t, events)
      /\ pr \in Flagged
  <2>1. pr \in ParentsOf(t) /\ pr \in Flagged
    BY WhoseParents, FlagFacts
  <2> QED BY <1>1, <2>1, InvariantFacts, MethodOwners, TokensAreOwners
<1> HIDE DEF image
<1>4. image \in Image(events) /\ OnlyIn(s, table, image) /\ MethodsOnce(image[s])
  <2>1. MethodsOnce(table[s]) /\ InOrder(s, table[s]) /\ table \in Image(events)
    BY <1>1, InvariantFacts DEF TableSound
  <2>2. CASE ms = << >>
    BY <2>1, <2>2 DEF image, OnlyIn
  <2>3. CASE ms # << >>
    <3>1. Head(ms) \in Methods /\ "Getter" \in Semantics
      BY <2>3 DEF AtMostOne, Semantics
    <3>2. image = AddMethodSemantic(RemoveSemantics(table, pr, "Getter"), pr, "Getter", Head(ms))
      BY <2>3 DEF image
    <3> QED BY <1>3, <2>1, <3>1, <3>2, InvariantFacts, SemanticReplaced
  <2> QED BY <2>2, <2>3
<1>5. /\ flags' \in [Flagged -> SUBSET Flags]
      /\ \A u \in Tables : SameFlag(u, flags, flags')
      /\ vs # << >> => GainedFlag(t, flags, flags', pr)
  <2>1. CASE vs = << >>
    BY <1>2, <2>1, InvariantFacts, FlagsUnchanged
  <2>2. CASE vs # << >>
    <3>1. flags' = [flags EXCEPT ![pr] = {"HasDefault"}] /\ flags \in [Flagged -> SUBSET Flags]
          /\ "HasDefault" \in Flags
      BY <1>2, <2>2, InvariantFacts DEF Flags
    <3>2. /\ flags' \in [Flagged -> SUBSET Flags]
          /\ \A uk \in Flagged : uk # pr => flags'[uk] = flags[uk]
          /\ "HasDefault" \in flags'[pr]
      BY <1>3, <3>1
    <3>3. \A uk \in Tokens("Property") : "HasDefault" \in flags[uk] => "HasDefault" \in flags'[uk]
      BY <3>2, FlagFacts
    <3>4. \A u \in DOMAIN FlagOf : \A uk \in ParentsOf(u) \cap Flagged : flags'[uk] = flags[uk]
      BY <3>2, FlagFacts
    <3> QED BY <1>1, <3>2, <3>3, <3>4 DEF SameFlag, GainedFlag
  <2> QED BY <2>1, <2>2
<1>6. \A u \in Tables : TableSound(u, image[u], flags')
  <2>1. TableSound(s, image[s], flags')
    BY <1>1, <1>4 DEF TableSound
  <2>2. RowsKept(s, table, image)
    BY <1>4 DEF OnlyIn, RowsKept
  <2>3. \A u \in Tables : TableSound(u, table[u], flags)
    BY InvariantFacts
  <2>4. \A u \in Tables : u # s => SameFlag(u, flags, flags')
    BY <1>5
  <2> HIDE DEF s
  <2> QED BY ONLY <1>1, <2>1, <2>2, <2>3, <2>4, OthersSound
<1>7. generics' \in 0 .. Count["GenericParam"] /\ events' \in 0 .. MaxEvents /\ ~wide'
  BY <1>2 DEF IInv
<1>8. CASE table' = table
  <2>1. \A u \in Tables : TableSound(u, table'[u], flags')
    BY <1>5, <1>8, InvariantFacts, NothingChanged
  <2> QED BY <1>2, <1>5, <1>7, <1>8, <2>1, InvariantFacts DEF IInv
<1>9. CASE vs = << >> /\ table' = image
  BY <1>2, <1>4, <1>5, <1>6, <1>7, <1>9 DEF IInv
<1>10. CASE vs # << >> /\ table' \in FindOrCreateParentedRow(image, t, pr, Head(vs))
  <2>1. Head(vs) \in Datum
    <3>1. PICK v \in Data[t] : vs = <<v>>
      BY <1>10 DEF AtMostOne
    <3> QED BY <1>1, <3>1, DatumFacts
  <2>2. InOrder(t, image[t]) /\ TableSound(t, image[t], flags) /\ Single(t, image[t])
    <3>1. image[t] = table[t]
      BY <1>1, <1>4 DEF OnlyIn
    <3> QED BY <1>1, <3>1, InvariantFacts DEF TableSound
  <2>3. table' \in Image(events) /\ Created(t, image, table', pr)
    BY <1>1, <1>3, <1>4, <1>10, <2>1, <2>2, InvariantFacts, FindOrCreateEffect
  <2>4. KeysGained(t, image, table', pr) /\ Single(t, table'[t]) /\ RowsKept(t, image, table')
    BY <2>2, <2>3 DEF Created
  <2>5. TableSound(t, table'[t], flags')
    <3>1. GainedFlag(t, flags, flags', pr)
      BY <1>5, <1>10
    <3> QED BY <1>1, <1>3, <2>2, <2>4, <3>1, InvariantFacts, RowGained
  <2>6. ASSUME NEW u \in Tables PROVE TableSound(u, table'[u], flags')
    <3>1. CASE u = t
      BY <2>5, <3>1
    <3>2. CASE u # t
      <4>1. table'[u].row = image[u].row /\ TableSound(u, image[u], flags')
            /\ SameFlag(u, flags', flags')
        BY <1>6, <2>4, <3>2, FlagsUnchanged DEF RowsKept
      <4> QED BY <4>1, NothingChanged
    <3> QED BY <3>1, <3>2
  <2> QED BY <1>2, <1>5, <1>7, <2>3, <2>6 DEF IInv
<1> QED BY <1>2, <1>8, <1>9, <1>10
----------------------------------------------------------------------------
(* Every step.                                                              *)

LEMMA MarshalLayoutKeeps ==
    ASSUME IInv, FlagsAreSound', MarshalLayout
    PROVE  IInv'
<1>1. CASE \E tk \in ParentsOf("FieldMarshal") : \E v \in Data["FieldMarshal"] : SetFieldMarshal(tk, v)
  <2>1. PICK tk \in ParentsOf("FieldMarshal") : \E v \in Data["FieldMarshal"] : SetFieldMarshal(tk, v)
    BY <1>1
  <2>2. PICK v \in Data["FieldMarshal"] : SetFieldMarshal(tk, v)
    BY <2>1
  <2>3. /\ table' \in FindOrCreateParentedRow(table, "FieldMarshal", tk, v)
        /\ flags' = [flags EXCEPT ![tk] = @ \cup {FlagOf["FieldMarshal"]}]
        /\ UNCHANGED <<events, generics, wide>> /\ tk \in Flagged
    BY <2>2, FlagFacts DEF SetFieldMarshal
  <2> QED BY <2>3, FlaggedRowCreated
<1>2. CASE \E tk \in ParentsOf("FieldMarshal") : DeleteFieldMarshal(tk)
  BY <1>2, DeleteFieldMarshalKeeps
<1>3. CASE \E fd \in Tokens("Field") : \E v \in Data["FieldRva"] : SetFieldRVA(fd, v)
  <2>1. PICK fd \in Tokens("Field") : \E v \in Data["FieldRva"] : SetFieldRVA(fd, v)
    BY <1>3
  <2>2. PICK v \in Data["FieldRva"] : SetFieldRVA(fd, v)
    BY <2>1
  <2>3. /\ table' \in FindOrCreateParentedRow(table, "FieldRva", fd, v)
        /\ flags' = [flags EXCEPT ![fd] = @ \cup {FlagOf["FieldRva"]}]
        /\ UNCHANGED <<events, generics, wide>> /\ fd \in Flagged /\ fd \in ParentsOf("FieldRva")
    BY <2>2, FlagFacts, WhoseParents DEF SetFieldRVA
  <2> QED BY <2>3, FlaggedRowCreated
<1>4. CASE \E tk \in Tokens("Field") \cup Tokens("Param") : \E v \in Data["Constant"] : SetConstant(tk, v)
  BY <1>4, SetConstantKeeps
<1>5. CASE \E td \in Tokens("TypeDef"), v \in Data["ClassLayout"] :
              \E fields \in AtMostOne(Tokens("Field")) : SetClassLayout(td, fields, v)
  BY <1>5, SetClassLayoutKeeps
<1>6. CASE UNCHANGED vars
  BY <1>6 DEF vars, IInv
<1>7. ASSUME NEW tk, DeleteClassLayout(tk) \/ DeletePinvokeMap(tk) PROVE UNCHANGED vars
  BY <1>7 DEF DeleteClassLayout, DeletePinvokeMap, DeleteParentedToken, ParentColumn, vars
<1>8. CASE \E tk \in ParentsOf("ImplMap") : \E v \in Data["ImplMap"] : DefinePinvokeMap(tk, v)
  <2>1. PICK tk \in ParentsOf("ImplMap") : \E v \in Data["ImplMap"] : DefinePinvokeMap(tk, v)
    BY <1>8
  <2>2. PICK v \in Data["ImplMap"] : DefinePinvokeMap(tk, v)
    BY <2>1
  <2>3. /\ table' = AppendRow(table, "ImplMap", tk, v)
        /\ flags' = IF tk \in Flagged THEN [flags EXCEPT ![tk] = @ \cup {FlagOf["ImplMap"]}] ELSE flags
        /\ UNCHANGED <<events, generics, wide>>
    BY <2>2, FlagFacts DEF DefinePinvokeMap
  <2> QED BY <2>3, FlaggedRowAppended
<1>9. CASE \E tk \in ParentsOf("ImplMap") : \E v \in Data["ImplMap"] : SetFoundRow("ImplMap", tk, v)
  BY <1>9, SetFoundRowKeeps
<1> QED BY <1>1, <1>2, <1>3, <1>4, <1>5, <1>6, <1>7, <1>8, <1>9 DEF MarshalLayout

LEMMA PermissionsAttributesKeeps ==
    ASSUME IInv, FlagsAreSound', PermissionsAttributes
    PROVE  IInv'
<1>1. CASE \E tk \in ParentsOf("DeclSecurity") : \E v \in Data["DeclSecurity"] : DefinePermissionSet(tk, v)
  <2>1. PICK tk \in ParentsOf("DeclSecurity") :
           \E v \in Data["DeclSecurity"] : DefinePermissionSet(tk, v)
    BY <1>1
  <2>2. PICK v \in Data["DeclSecurity"] : DefinePermissionSet(tk, v)
    BY <2>1
  <2>3. tk[1] # "Assembly" <=> tk \in Flagged
    BY FlagFacts
  <2>4. FlagOf["DeclSecurity"] = "HasSecurity"
    BY FlagFacts
  <2>5. /\ table' = AppendRow(table, "DeclSecurity", tk, v)
        /\ flags' = IF tk \in Flagged THEN [flags EXCEPT ![tk] = @ \cup {FlagOf["DeclSecurity"]}]
                    ELSE flags
        /\ UNCHANGED <<events, generics, wide>>
    BY <2>2, <2>3, <2>4 DEF DefinePermissionSet
  <2> QED BY <2>5, FlaggedRowAppended
<1>2. CASE \E tk \in ParentsOf("DeclSecurity") :
              \E v \in Data["DeclSecurity"] : SetFoundRow("DeclSecurity", tk, v)
  BY <1>2, SetFoundRowKeeps
<1>3. CASE \E r \in DOMAIN table["DeclSecurity"].row : DeletePermission(r)
  BY <1>3, DeletePermissionKeeps
<1>4. CASE \E tk \in ParentsOf("CustomAttribute") :
              \E v \in Data["CustomAttribute"] : DefineCustomAttribute(tk, v)
  BY <1>4, DefineCustomAttributeKeeps
<1>5. CASE \E t \in {"CustomAttribute", "GenericParam", "GenericParamConstraint"} :
              \E r \in DOMAIN table[t].row : DeleteToken(t, r)
  BY <1>5, DeleteTokenKeeps
<1> QED BY <1>1, <1>2, <1>3, <1>4, <1>5 DEF PermissionsAttributes

LEMMA EventsTypesKeeps ==
    ASSUME IInv, FlagsAreSound', EventsTypes
    PROVE  IInv'
<1>1. CASE \E td \in Tokens("TypeDef"), m \in Methods : DefineEvent(td, m)
  BY <1>1, DefineEventKeeps
<1>2. CASE \E ev \in Events, semantic \in {"AddOn", "RemoveOn"}, m \in Methods :
              SetEventProps(ev, semantic, m)
  BY <1>2, SetEventPropsKeeps
<1>3. CASE \E td \in Tokens("TypeDef") : DefineProperty(td)
  BY <1>3, DefinePropertyKeeps
<1>4. CASE \E pr \in Tokens("Property"), vs \in AtMostOne(Data["Constant"]),
              ms \in AtMostOne(Methods) : SetPropertyProps(pr, vs, ms)
  BY <1>4, SetPropertyPropsKeeps
<1>5. CASE \E td \in Tokens("TypeDef"), vs \in AtMostOne(Data["InterfaceImpl"]) :
              SetTypeDefProps(td, vs)
  BY <1>5, SetTypeDefPropsKeeps
<1>6. CASE \E tk \in ParentsOf("GenericParam"), n \in Data["GenericParam"],
              vs \in AtMostOne(Data["GenericParamConstraint"]) : DefineGenericParam(tk, n, vs)
  BY <1>6, DefineGenericParamKeeps
<1>7. CASE \E gp \in Generics, vs \in AtMostOne(Data["GenericParamConstraint"]) :
              SetGenericParamProps(gp, vs)
  BY <1>7, SetGenericParamPropsKeeps
<1> QED BY <1>1, <1>2, <1>3, <1>4, <1>5, <1>6, <1>7 DEF EventsTypes

LEMMA InitHolds == DisciplinedInit => IInv
<1> SUFFICES ASSUME DisciplinedInit PROVE IInv
  OBVIOUS
<1>1. /\ \A t \in Tables : table[t] = [row |-> << >>, sorted |-> HasKeys(t)]
      /\ table = [t \in Tables |-> table[t]]
      /\ flags = [tk \in Flagged |-> {}]
      /\ events = 0 /\ generics = 0 /\ ~wide
  BY DEF DisciplinedInit, Init, Flagged
<1>2. events \in 0 .. MaxEvents /\ generics \in 0 .. Count["GenericParam"]
  BY <1>1, CountAssumption
<1>3. ASSUME NEW t \in Tables PROVE table[t] \in TableSet(t, events)
  <2>1. HasKeys(t) \in BOOLEAN
    BY DEF HasKeys
  <2>2. << >> \in Seq(Rows(t, events))
    OBVIOUS
  <2>3. table[t] = [row |-> << >>, sorted |-> HasKeys(t)]
    BY <1>1
  <2> DEFINE b == HasKeys(t)
             S == Seq(Rows(t, events))
             empty == << >>
  <2>4. b \in BOOLEAN /\ empty \in S /\ table[t] = [row |-> empty, sorted |-> b]
    BY <2>1, <2>2, <2>3
  <2>5. TableSet(t, events) = [row : S, sorted : BOOLEAN]
    BY DEF TableSet
  <2> HIDE DEF b, S, empty
  <2> QED BY <2>4, <2>5
<1>4. table \in Image(events)
  BY <1>1, <1>3 DEF Image
<1>5. ASSUME NEW t \in Tables
      PROVE  table[t].row = << >> /\ Len(table[t].row) = 0 /\ TableSound(t, table[t], flags)
  <2>1. table[t].row = << >> /\ Len(table[t].row) = 0
    BY <1>1
  <2>2. 1 .. 0 = {}
    OBVIOUS
  <2>3. Single(t, table[t]) /\ MethodsOnce(table[t]) /\ Held(table[t]) = {}
    BY <2>1, <2>2 DEF Single, MethodsOnce, Held
  <2>4. \A tk \in Flagged : flags[tk] = {}
    BY <1>1
  <2>5. FlagRight(t, table[t], flags) /\ DefaultRight(table[t], flags)
    BY <2>3, <2>4 DEF FlagRight, DefaultRight
  <2> QED BY <2>1, <2>3, <2>5 DEF TableSound
<1>6. FlagsAreSound
  BY <1>5 DEF FlagsAreSound
<1>7. flags \in [Flagged -> SUBSET Flags]
  BY <1>1
<1> QED BY <1>1, <1>2, <1>4, <1>5, <1>6, <1>7 DEF IInv

LEMMA StepKeeps == IInv /\ [DisciplinedNext]_vars => IInv'
<1> SUFFICES ASSUME IInv, [DisciplinedNext]_vars PROVE IInv'
  OBVIOUS
<1>1. CASE UNCHANGED vars
  <2>1. UNCHANGED <<table, flags, events, generics, wide>>
    BY <1>1 DEF vars
  <2> QED BY <2>1 DEF IInv, FlagsAreSound
<1>2. CASE DisciplinedNext
  BY <1>2, MarshalLayoutKeeps, PermissionsAttributesKeeps, EventsTypesKeeps
     DEF DisciplinedNext, Next
<1> QED BY <1>1, <1>2

LEMMA Invariant == DisciplinedSpec => []IInv
BY InitHolds, StepKeeps, PTL DEF DisciplinedSpec

LEMMA InvariantGivesProperties ==
    ASSUME IInv
    PROVE  FlagsMeanRows /\ OneRowPerParent /\ OneMethodPerSemantic
<1>1. \A t \in Tables : DOMAIN table[t].row = 1 .. Len(table[t].row)
  BY InvariantFacts, TablesOfImage
<1>2. \A t \in Tables : \A tk : HasRow(t, tk) <=> Key(t, tk) \in Held(table[t])
  BY <1>1 DEF HasRow, Held
<1>3. FlagsMeanRows
  <2>1. DOMAIN flags = Flagged
    BY InvariantFacts
  <2>2. \A t \in DOMAIN FlagOf : FlagRight(t, table[t], flags)
    BY InvariantFacts, FlagFacts DEF TableSound
  <2>3. "Constant" \in Tables
    BY DEF Tables, Kinds
  <2>4. DefaultRight(table["Constant"], flags)
    BY <2>3, InvariantFacts DEF TableSound
  <2>5. \A t \in DOMAIN FlagOf : \A tk \in ParentsOf(t) \cap DOMAIN flags :
           FlagOf[t] \in flags[tk] <=> HasRow(t, tk)
    BY <1>2, <2>1, <2>2, FlagFacts DEF FlagRight
  <2>6. \A pr \in Tokens("Property") : HasRow("Constant", pr) => "HasDefault" \in flags[pr]
    BY <1>2, <2>3, <2>4 DEF DefaultRight
  <2> QED BY <2>5, <2>6 DEF FlagsMeanRows
<1>4. OneRowPerParent
  <2>1. OnceTables \subseteq Tables
    BY DEF OnceTables, Tables, Kinds
  <2>2. \A t \in OnceTables : Single(t, table[t])
    BY <2>1, InvariantFacts DEF TableSound
  <2> QED BY <1>1, <2>1, <2>2 DEF OneRowPerParent, Single, OnceTables
<1>5. OneMethodPerSemantic
  <2>1. "MethodSemantics" \in Tables
    BY DEF Tables, Kinds
  <2>2. MethodsOnce(table["MethodSemantics"])
    BY <2>1, InvariantFacts DEF TableSound
  <2> QED BY <1>1, <2>1, <2>2 DEF OneMethodPerSemantic, MethodsOnce
<1> QED BY <1>3, <1>4, <1>5

(* However calls that set and delete marshalling, RVAs, P/Invoke maps and   *)
(* permissions follow each other, the flag of a field, method, type or      *)
(* parameter says whether it has a row, as long as no row is given up in    *)
(* the middle of a table that stays flagged.                                *)
THEOREM FlagsAlwaysMeanRows == DisciplinedSpec => []FlagsMeanRows
BY Invariant, InvariantGivesProperties, PTL

(* A lookup before a row is created is enough for one row per parent.       *)
THEOREM AlwaysOneRowPerParent == DisciplinedSpec => []OneRowPerParent
BY Invariant, InvariantGivesProperties, PTL

(* A method that is set for an event or a property replaces the one before. *)
THEOREM AlwaysOneMethodPerSemantic == DisciplinedSpec => []OneMethodPerSemantic
BY Invariant, InvariantGivesProperties, PTL
=============================================================================
