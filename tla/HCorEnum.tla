------------------------------ MODULE HCorEnum ------------------------------
(***************************************************************************)
(* The enumerations that IMetaDataImport hands to its callers              *)
(* (src/interfaces/hcorenum.cpp).  An enumeration is a chain of segments:  *)
(* either ranges of rows, one for each list of a type ("table"), or pages  *)
(* of collected tokens ("dynamic").  It is read in chunks of any size, a   *)
(* chunk may cross segments, and it can be set to any position.            *)
(*                                                                         *)
(* The k-th entry of segment s is the pair <<s, k>>.  A range of rows is   *)
(* read at its own cursor, apart from the count of the rows read.          *)
(***************************************************************************)
EXTENDS Naturals, SequencesExt, FiniteSetsExt

CONSTANTS
    MaxLists,       \* the most ranges of an enumeration (2: EnumMembers)
    MaxRows,        \* bound on the rows of a range
    PageSize,       \* the entries of a page (16)
    MaxEntries,     \* bound on collected tokens
    MaxRead         \* bound on the size of a chunk

ASSUME SizeAssumption ==
    /\ MaxLists \in Nat \ {0} /\ MaxRows \in Nat /\ MaxRead \in Nat
    /\ MaxEntries \in Nat /\ PageSize \in Nat \ {0} /\ PageSize % 2 = 0

VARIABLES
    type,           \* "table" or "dynamic"
    entrySpan,      \* entries of a unit: 2 when pairs are enumerated
    total,          \* Total of each segment
    readIn,         \* ReadIn of each segment
    current,        \* the rows between Start and Current of each segment
    null,           \* the segments whose Start is a null cursor
    curr,           \* _curr: the segment that is read
    building,       \* the enumeration has not been handed out yet
    reading,        \* a read call is running
    left,           \* the units that call may still read
    chunk           \* the entries the running or last call has read

vars == <<type, entrySpan, total, readIn, current, null, curr, building,
          reading, left, chunk>>
fixed == <<type, entrySpan, total, null, building>>

Segments == 1 .. Len(total)

(* The entries in front of each segment, and behind the last one: the loops *)
(* of Count and of Reset add them up along the chain.                       *)
Sums(counts) ==
    LET f[s \in 1 .. Len(counts) + 1] ==
          IF s = 1 THEN 0 ELSE f[s - 1] + counts[s - 1]
    IN  f

SumOf(counts) == Sums(counts)[Len(counts) + 1]
----------------------------------------------------------------------------
(* Creating an enumeration.                                                 *)

(* CreateTableEnum and InitTableEnum: rows of up to MaxLists lists.  A list *)
(* column may be null, and the range is then empty.                         *)
CreateTableEnum ==
    /\ type = "table" /\ entrySpan = 1
    /\ total \in UNION {[1 .. n -> 0 .. MaxRows] : n \in 1 .. MaxLists}
    /\ null \in SUBSET {s \in Segments : total[s] = 0}
    /\ building = FALSE

CreateDynamicEnum ==
    /\ type = "dynamic" /\ entrySpan \in {1, 2}
    /\ total = <<0>>
    /\ null = {}
    /\ building = TRUE

(* Mutant: a page takes one entry too many.                                 *)
AddToDynamicEnum_late ==
    /\ building /\ SumOf(total) < MaxEntries
    /\ IF total[Len(total)] > PageSize
       THEN /\ total' = Append(total, 1)
            /\ readIn' = Append(readIn, 0)
            /\ current' = Append(current, 0)
       ELSE /\ total' = [total EXCEPT ![Len(total)] = @ + 1]
            /\ UNCHANGED <<readIn, current>>
    /\ UNCHANGED <<type, entrySpan, null, curr, building, reading, left, chunk>>

(* A token goes on the last page, or on a new one.                          *)
AddToDynamicEnum ==
    /\ building /\ SumOf(total) < MaxEntries
    /\ IF total[Len(total)] = PageSize
       THEN /\ total' = Append(total, 1)
            /\ readIn' = Append(readIn, 0)
            /\ current' = Append(current, 0)
       ELSE /\ total' = [total EXCEPT ![Len(total)] = @ + 1]
            /\ UNCHANGED <<readIn, current>>
    /\ UNCHANGED <<type, entrySpan, null, curr, building, reading, left, chunk>>

(* The caller gets the enumeration once it holds whole units.               *)
HandOut ==
    /\ building /\ SumOf(total) % entrySpan = 0
    /\ building' = FALSE
    /\ UNCHANGED <<type, entrySpan, total, readIn, current, null, curr,
                   reading, left, chunk>>
----------------------------------------------------------------------------
(* Reading.                                                                 *)

(* ReadTokens and ReadTokenPairs are called for up to n units.              *)
ReadTokens(n) ==
    /\ ~building /\ ~reading
    /\ reading' = TRUE
    /\ left' = n
    /\ chunk' = << >>
    /\ UNCHANGED <<fixed, readIn, current, curr>>

SegmentRead == readIn[curr] = total[curr]

(* All of this segment has been read: go on to the next.                    *)
NextSegment ==
    /\ reading /\ left > 0 /\ SegmentRead
    /\ curr < Len(total)
    /\ curr' = curr + 1
    /\ UNCHANGED <<fixed, readIn, current, reading, left, chunk>>

(* The entries of a unit, from where segment s is read: a row at the cursor *)
(* of a range, the token or tokens at ReadIn of a page.                     *)
UnitAt(s) ==
    LET at == IF type = "table" THEN current[s] ELSE readIn[s]
    IN  [k \in 1 .. entrySpan |-> <<s, at + k>>]

(* Mutant: the cursor of the range is not moved when one token is read.     *)
ReadUnit_staying ==
    /\ reading /\ left > 0 /\ ~SegmentRead
    /\ (total[curr] - readIn[curr]) % entrySpan = 0
    /\ chunk' = chunk \o UnitAt(curr)
    /\ readIn' = [readIn EXCEPT ![curr] = @ + entrySpan]
    /\ current' = IF type = "table" /\ left # 1
                  THEN [current EXCEPT ![curr] = @ + 1] ELSE current
    /\ left' = left - 1
    /\ UNCHANGED <<fixed, curr, reading>>

(* One unit is read.  Pairs are never read from an odd entry on: an assert  *)
(* of hcorenum.cpp:198 stops the program.                                   *)
ReadUnit ==
    /\ reading /\ left > 0 /\ ~SegmentRead
    /\ (total[curr] - readIn[curr]) % entrySpan = 0
    /\ chunk' = chunk \o UnitAt(curr)
    /\ readIn' = [readIn EXCEPT ![curr] = @ + entrySpan]
    /\ current' = IF type = "table"
                  THEN [current EXCEPT ![curr] = @ + 1] ELSE current
    /\ left' = left - 1
    /\ UNCHANGED <<fixed, curr, reading>>

(* Mutant: a call ends where a segment ends.                                *)
Done_with_segment ==
    /\ reading /\ (left = 0 \/ SegmentRead)
    /\ reading' = FALSE /\ left' = 0
    /\ UNCHANGED <<fixed, readIn, current, curr, chunk>>

(* Mutant: the end of the chain is not noticed.                             *)
Done_when_full ==
    /\ reading /\ left = 0
    /\ reading' = FALSE
    /\ UNCHANGED <<fixed, readIn, current, curr, left, chunk>>

(* The call has what it wanted, or there is no more.                        *)
Done ==
    /\ reading /\ (left = 0 \/ (SegmentRead /\ curr = Len(total)))
    /\ reading' = FALSE /\ left' = 0
    /\ UNCHANGED <<fixed, readIn, current, curr, chunk>>
----------------------------------------------------------------------------
(* Setting the position.                                                    *)

(* The entries in front of segment s.                                       *)
Before(s) == Sums(total)[s]

(* Reset walks the segments to the one that holds position p.  It takes the *)
(* totals of those before it off p and moves their cursors past their rows, *)
(* which fails for a null cursor, even by nothing: the walk ends there.     *)
StopsAt(p) ==
    LET stops == {s \in null : Before(s) <= p}
    IN  IF stops = {} THEN Len(total) + 1 ELSE Min(stops)

(* Mutant: the segments after the one that holds p keep their state.        *)
ReadBefore_keeping(p, s) ==
    IF s >= StopsAt(p) \/ p < Before(s) THEN readIn[s]
    ELSE IF p >= Before(s) + total[s] THEN total[s]
    ELSE p - Before(s)

ReadBefore(p, s) ==
    IF s >= StopsAt(p) THEN readIn[s]
    ELSE IF p >= Before(s) + total[s] THEN total[s]
    ELSE IF p >= Before(s) THEN p - Before(s)
    ELSE 0

Holders(p) == {s \in Segments : Before(s) <= p /\ p < Before(s) + total[s]}

(* Mutant: the segment to read next is only changed forwards.               *)
Reset_forwards(p) ==
    /\ ~building /\ ~reading
    /\ readIn' = [s \in Segments |-> ReadBefore(p, s)]
    /\ current' = IF type = "table"
                  THEN [s \in Segments |-> IF s < StopsAt(p) THEN readIn'[s]
                                           ELSE current[s]]
                  ELSE current
    /\ curr' = IF Holders(p) # {} /\ StopsAt(p) > Len(total)
               THEN Max(Holders(p) \union {curr}) ELSE curr
    /\ UNCHANGED <<fixed, reading, left, chunk>>

(* The segment that holds p, if there is one, is the one to read next.      *)
Reset(p) ==
    /\ ~building /\ ~reading
    /\ readIn' = [s \in Segments |-> ReadBefore(p, s)]
    /\ current' = IF type = "table"
                  THEN [s \in Segments |-> IF s < StopsAt(p) THEN readIn'[s]
                                           ELSE current[s]]
                  ELSE current
    /\ curr' \in IF Holders(p) # {} /\ StopsAt(p) > Len(total)
                 THEN Holders(p) ELSE {curr}
    /\ UNCHANGED <<fixed, reading, left, chunk>>

----------------------------------------------------------------------------
Init ==
    /\ CreateTableEnum \/ CreateDynamicEnum
    /\ readIn = [s \in Segments |-> 0]
    /\ current = [s \in Segments |-> 0]
    /\ curr = 1
    /\ reading = FALSE /\ left = 0 /\ chunk = << >>

ReadStep == NextSegment \/ ReadUnit \/ Done

Next ==
    \/ AddToDynamicEnum
    \/ HandOut
    \/ \E n \in 0 .. MaxRead : ReadTokens(n)
    \/ ReadStep
    \/ \E p \in 0 .. SumOf(total) + 1 : Reset(p)

(* A read call is a loop that nothing stops.                                *)
Spec == Init /\ [][Next]_vars /\ WF_vars(ReadStep)

(* The caller counts positions in entries: an enumeration of pairs is set   *)
(* to even positions only.                                                  *)
EvenNext ==
    \/ AddToDynamicEnum
    \/ HandOut
    \/ \E n \in 0 .. MaxRead : ReadTokens(n)
    \/ ReadStep
    \/ \E p \in 0 .. SumOf(total) + 1 : p % entrySpan = 0 /\ Reset(p)

EvenSpec == Init /\ [][EvenNext]_vars /\ WF_vars(ReadStep)
----------------------------------------------------------------------------
(* Properties.                                                              *)

TypeOK ==
    /\ type \in {"table", "dynamic"} /\ entrySpan \in {1, 2}
    /\ Len(total) > 0 /\ curr \in Segments
    /\ \A s \in Segments :
          total[s] \in 0 .. IF type = "table" THEN MaxRows ELSE PageSize
    /\ readIn \in [Segments -> Nat] /\ \A s \in Segments : readIn[s] <= total[s]
    /\ current \in [Segments -> Nat]
    /\ null \subseteq Segments
    /\ building \in BOOLEAN /\ reading \in BOOLEAN
    /\ left \in Nat /\ chunk \in Seq(Nat \X Nat)

(* The cursor of a range and the count of its rows that were read are moved *)
(* apart, by reads of one token, reads of many and by Reset.  They agree.   *)
CursorsAgree == type = "table" => current = readIn

(* Reading never goes back to an earlier segment by itself.  Nothing is     *)
(* left unread before _curr, and nothing after it is read before it is,     *)
(* whatever positions were set between the chunks.                          *)
ReadInOrder ==
    /\ \A s \in 1 .. curr - 1 : readIn[s] = total[s]
    /\ \/ \A s \in curr + 1 .. Len(total) : readIn[s] = 0
       \/ \A s \in Segments : readIn[s] = total[s]

(* The entries in the order of the chain.                                   *)
Entries ==
    [i \in 1 .. SumOf(total) |->
        LET at == CHOOSE s \in Segments : Before(s) < i /\ i <= Before(s) + total[s]
        IN  <<at, i - Before(at)>>]

(* An enumeration is one sequence, read in chunks: no call skips an entry   *)
(* or reads one twice, over the ends of segments and after any Reset, and   *)
(* only a call that meets the end of the sequence reads less than it might. *)
Stream ==
    INSTANCE TokenStream WITH
        items <- Entries, pos <- SumOf(readIn), span <- entrySpan
ImplementsTokenStream == Stream!Spec

(* Reset to p leaves exactly the entries from p on to be read (position 0   *)
(* is the first), unless it met a range that is a null cursor.              *)
ResetReachesPosition ==
    [][\A p \in 0 .. SumOf(total) + 1 :
         Reset(p) /\ StopsAt(p) > Len(total) =>
            {i \in 1 .. Len(Entries) : Entries[i][2] > readIn'[Entries[i][1]]}
                = p + 1 .. Len(Entries)]_vars

(* Every read call returns: empty segments are passed, and the chain ends.  *)
CallEnds == reading ~> ~reading

(* hcorenum.cpp:198: when a page of pairs is read, whole pairs are left.    *)
(* False under Spec: a position may be odd.                                 *)
WholePairsLeft ==
    reading /\ entrySpan = 2 => (total[curr] - readIn[curr]) % 2 = 0
=============================================================================
