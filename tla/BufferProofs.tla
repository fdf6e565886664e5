---------------------------- MODULE BufferProofs ----------------------------
(***************************************************************************)
(* The log of module Buffer, for any set of readers, any capacity, chunk   *)
(* size and number of records: every reader reads every record intact, is  *)
(* told of the end only after the last, and the memory in use follows the  *)
(* live records.                                                           *)
(*                                                                         *)
(* Each of the three needs to know what the others are about: a record is  *)
(* intact because nothing at or above a cursor is reclaimed (Behind), which *)
(* holds because a cursor says where its reader is until it closes         *)
(* (Cursors), and because what is between the low-water mark and the end   *)
(* is stored (Stored) in a chunk there is (Chunks).                        *)
(***************************************************************************)
EXTENDS Buffer, WellFoundedInduction, TLAPS

\* A reader's cursor is one past its record until it closes, and no reader
\* is past the end.
Cursors == \A r \in Readers :
    /\ cursor[r] = IF pc[r] = "closed" THEN Retired ELSE pos[r] + 1
    /\ pos[r] < length

\* What is reclaimed, every reader has passed.
Behind == /\ released <= length
          /\ \A r \in Readers : released <= cursor[r]

\* The live records are stored, and nothing else is.
Stored == \A i \in Index : slot[i] = IF released <= i /\ i < length THEN i ELSE Nil

\* The chunks are those from the oldest live record's to the newest record's.
Chunks == /\ base = Chunk(released)
          /\ top = IF length = 0 THEN 0 ELSE Chunk(length - 1) + 1

\* Only a completed producer leaves a completed log.
Ended == done => pc[Writer] = "completed"

WithinCapacity == Capacity > 0 => length - released <= Capacity

IInv == /\ TypeOK /\ Cursors /\ Behind /\ Stored /\ Chunks /\ Ended
        /\ WithinCapacity /\ ReadIntact /\ EndIsEnd

-----------------------------------------------------------------------------
(***************************************************************************)
(* Minima, maxima and chunks.                                              *)
(***************************************************************************)
\* A set of naturals has a least element, and Min is it.
LEMMA MinOfNats ==
  ASSUME NEW S \in SUBSET Nat, S # {}
  PROVE  Min(S) \in S /\ \A y \in S : Min(S) <= y
<1>1. PICK x \in S : \A y \in S : ~(<<y, x>> \in OpToRel(<, Nat))
  BY NatLessThanWellFounded, WFMin, Zenon
<1>2. \A y \in S : ~(y < x)
  BY <1>1 DEF OpToRel
<1>3. \A y \in S : x <= y
  BY <1>2
<1> QED
  BY <1>3, Zenon DEF Min

\* The larger and the smaller of two numbers, as reclaim takes them.
LEMMA Larger ==
  ASSUME NEW a \in Int, NEW b \in Int
  PROVE  Max({a, b}) = IF a <= b THEN b ELSE a
<1> DEFINE m == IF a <= b THEN b ELSE a
<1>1. m \in {a, b} /\ \A y \in {a, b} : m >= y
  OBVIOUS
<1>2. \A x \in {a, b} : (\A y \in {a, b} : x >= y) => x = m
  OBVIOUS
<1> HIDE DEF m
<1>3. Max({a, b}) = m
  BY <1>1, <1>2 DEF Max
<1> QED
  BY <1>3 DEF m

\* The smaller of two numbers, likewise.
LEMMA Smaller ==
  ASSUME NEW a \in Int, NEW b \in Int
  PROVE  Min({a, b}) = IF a <= b THEN a ELSE b
<1> DEFINE m == IF a <= b THEN a ELSE b
<1>1. m \in {a, b} /\ \A y \in {a, b} : m <= y
  OBVIOUS
<1>2. \A x \in {a, b} : (\A y \in {a, b} : x <= y) => x = m
  OBVIOUS
<1> HIDE DEF m
<1>3. Min({a, b}) = m
  BY <1>1, <1>2 DEF Min
<1> QED
  BY <1>3 DEF m

\* The low-water mark is no later than the end and no later than any cursor.
LEMMA LowWaterIsLow ==
  ASSUME NEW cursors \in [Readers -> Nat], length \in Nat
  PROVE  /\ LowWater(cursors) \in Nat
         /\ LowWater(cursors) <= length
         /\ \A r \in Readers : LowWater(cursors) <= cursors[r]
         /\ \A n \in Nat : n <= length /\ (\A r \in Readers : n <= cursors[r])
                             => n <= LowWater(cursors)
<1> DEFINE S == {length} \cup {cursors[r] : r \in Readers}
<1>1. S \in SUBSET Nat /\ S # {}
  OBVIOUS
<1>2. Min(S) \in S /\ \A y \in S : Min(S) <= y
  BY <1>1, MinOfNats
<1>3. LowWater(cursors) = Min(S)
  BY DEF LowWater
<1> QED
  BY <1>1, <1>2, <1>3

\* A record lies in its chunk.
LEMMA ChunkHolds ==
  ASSUME NEW i \in Nat
  PROVE  /\ Chunk(i) \in Nat
         /\ Chunk(i) * ChunkSize <= i
         /\ i < Chunk(i) * ChunkSize + ChunkSize
  BY BufferAssumption DEF Chunk

\* Multiplication by a natural keeps an order.
LEMMA Stretch ==
  ASSUME NEW a \in Int, NEW b \in Int, NEW c \in Nat, a <= b
  PROVE  a * c <= b * c
<1>1. (b - a) * c >= 0
  OBVIOUS
<1> QED
  BY <1>1

\* Later records lie in later chunks.
LEMMA ChunkGrows ==
  ASSUME NEW i \in Nat, NEW j \in Nat, i <= j
  PROVE  Chunk(i) <= Chunk(j)
<1>1. SUFFICES ASSUME Chunk(j) + 1 <= Chunk(i) PROVE FALSE
  BY ChunkHolds
<1>2. (Chunk(j) + 1) * ChunkSize <= Chunk(i) * ChunkSize
  BY <1>1, Stretch, ChunkHolds, BufferAssumption
<1>3. (Chunk(j) + 1) * ChunkSize = Chunk(j) * ChunkSize + ChunkSize
  BY ChunkHolds, BufferAssumption
<1> QED
  BY <1>2, <1>3, ChunkHolds, BufferAssumption

-----------------------------------------------------------------------------
(***************************************************************************)
(* Reclaiming and publishing keep what the invariant says of the storage.  *)
(***************************************************************************)
\* What of the invariant is about the storage, given the cursors to reclaim by.
Storage == Behind /\ Stored /\ Chunks /\ WithinCapacity

\* The last chunk is past every record published.
LEMMA TopIsPast ==
  ASSUME TypeOK, Chunks, NEW n \in Nat, n < length
  PROVE  Chunk(n) < top
<1>1. length \in Nat /\ length # 0
  BY BufferAssumption DEF TypeOK
<1>2. Chunk(n) <= Chunk(length - 1)
  BY <1>1, ChunkGrows
<1> QED
  BY <1>1, <1>2, ChunkHolds DEF Chunks

\* Reclaiming by cursors that are all at or past the low-water mark moves it
\* on to the slowest of them, and frees just what it moved over.
LEMMA ReclaimKeepsStorage ==
  ASSUME TypeOK, Storage, NEW cursors \in [Readers -> 0 .. Retired],
         \A r \in Readers : released <= cursors[r],
         cursor' = cursors, Reclaim(cursors)
  PROVE  /\ Storage'
         /\ released' \in 0 .. Total /\ length' = length /\ top' = top
         /\ slot' \in [Index -> Index \cup {Nil}]
         /\ base' \in Nat /\ base' <= top'
<1> DEFINE low == LowWater(cursors)
<1>1. length \in Nat /\ released \in Nat /\ Total \in Nat /\ length <= Total
      /\ top \in Nat /\ base \in Nat /\ Capacity \in Nat
  BY BufferAssumption DEF TypeOK
<1>2. cursors \in [Readers -> Nat]
  BY <1>1 DEF Retired
<1>3. /\ low \in Nat /\ low <= length /\ released <= low
      /\ \A r \in Readers : low <= cursors[r]
  BY <1>1, <1>2, LowWaterIsLow DEF Storage, Behind
<1> HIDE DEF low
<1>4. released' = low
  BY <1>1, <1>3, Larger DEF Reclaim, low
<1>5. /\ slot' = [i \in Index |-> IF released <= i /\ i < low THEN Nil ELSE slot[i]]
      /\ base' = Min({top, Max({base, Chunk(low)})})
      /\ length' = length /\ top' = top
  BY <1>4 DEF Reclaim
<1>6. base' = Chunk(low) /\ Chunk(low) \in Nat /\ Chunk(low) <= top
  <2>1. base = Chunk(released) /\ Chunk(released) <= Chunk(low) /\ Chunk(low) \in Nat
    BY <1>1, <1>3, ChunkGrows, ChunkHolds DEF Storage, Chunks
  <2>2. Chunk(low) <= top
    <3>1. CASE length = 0
      <4>1. low = 0 /\ top = 0
        BY <3>1, <1>1, <1>3 DEF Storage, Chunks
      <4>2. released = 0 /\ base <= top
        BY <4>1, <1>1, <1>3 DEF TypeOK
      <4> QED
        BY <4>1, <4>2, <2>1
    <3>2. CASE length # 0 /\ low < length
      BY <3>2, <1>1, <1>3, <2>1, TopIsPast DEF Storage
    <3>3. CASE length # 0 /\ low = length
      <4>1. length - 1 \in Nat
        BY <3>3, <1>1
      <4>2. top = Chunk(length - 1) + 1
        BY <3>3 DEF Storage, Chunks
      <4>3. SUFFICES ASSUME Chunk(length - 1) + 2 <= Chunk(low) PROVE FALSE
        BY <4>1, <4>2, <2>1, ChunkHolds
      <4>4. (Chunk(length - 1) + 2) * ChunkSize <= Chunk(low) * ChunkSize
        BY <4>1, <4>3, <2>1, Stretch, ChunkHolds, BufferAssumption
      <4>5. (Chunk(length - 1) + 2) * ChunkSize = Chunk(length - 1) * ChunkSize + ChunkSize + ChunkSize
        BY <4>1, ChunkHolds, BufferAssumption
      <4> QED
        BY <4>1, <4>4, <4>5, <3>3, <1>1, <1>3, ChunkHolds, BufferAssumption
    <3> QED
      BY <3>1, <3>2, <3>3, <1>1, <1>3
  <2>3. Max({base, Chunk(low)}) = Chunk(low)
    BY <2>1, <1>1, Larger
  <2>4. Min({top, Chunk(low)}) = Chunk(low)
    BY <2>1, <2>2, <1>1, Smaller
  <2> QED
    BY <2>1, <2>2, <2>3, <2>4, <1>5
<1>7. Behind'
  BY <1>1, <1>3, <1>4, <1>5 DEF Behind
<1>8. Stored'
  BY <1>1, <1>3, <1>4, <1>5, BufferAssumption DEF Storage, Stored, Index
<1>9. Chunks'
  BY <1>4, <1>5, <1>6 DEF Storage, Chunks, Chunk
<1>10. WithinCapacity'
  BY <1>1, <1>3, <1>4, <1>5 DEF Storage, WithinCapacity
<1>11. slot' \in [Index -> Index \cup {Nil}]
  BY <1>5 DEF TypeOK
<1>12. base' \in Nat /\ base' <= top'
  BY <1>5, <1>6
<1> QED
  BY <1>1, <1>3, <1>4, <1>5, <1>7, <1>8, <1>9, <1>10, <1>11, <1>12 DEF Storage

\* A record published is stored in a chunk there is, and within the capacity.
LEMMA PublishKeepsStorage ==
  ASSUME TypeOK, Storage, length < Total, ~Full, Publish, UNCHANGED cursor
  PROVE  /\ Storage'
         /\ length' \in 0 .. Total /\ released' = released
         /\ slot' \in [Index -> Index \cup {Nil}]
         /\ base' \in Nat /\ top' \in Nat /\ base' <= top'
<1>1. length \in Nat /\ released \in Nat /\ Total \in Nat /\ length \in Index
      /\ top \in Nat /\ base \in Nat /\ base <= top /\ Capacity \in Nat
  BY BufferAssumption DEF TypeOK, Index
<1>2. /\ slot' = [slot EXCEPT ![length] = length]
      /\ top' = Max({top, Chunk(length) + 1})
      /\ length' = length + 1 /\ released' = released /\ base' = base
  BY DEF Publish
<1>3. top' = Chunk(length) + 1
  <2>1. top <= Chunk(length) + 1 /\ Chunk(length) \in Nat
    <3>1. CASE length = 0
      BY <3>1, <1>1, ChunkHolds DEF Storage, Chunks
    <3>2. CASE length # 0
      <4>1. length - 1 \in Nat
        BY <3>2, <1>1
      <4> QED
        BY <4>1, <3>2, <1>1, ChunkHolds, ChunkGrows DEF Storage, Chunks
    <3> QED
      BY <3>1, <3>2
  <2> QED
    BY <2>1, <1>1, <1>2, Larger
<1>4. Behind'
  BY <1>1, <1>2 DEF Storage, Behind
<1>5. Stored'
  BY <1>1, <1>2, BufferAssumption DEF Storage, Behind, Stored, Index, TypeOK
<1>6. Chunks'
  <2>1. length' # 0 /\ length' - 1 = length
    BY <1>1, <1>2
  <2> QED
    BY <2>1, <1>2, <1>3 DEF Storage, Chunks, Chunk
<1>7. WithinCapacity'
  BY <1>1, <1>2 DEF Full, WithinCapacity
<1>8. slot' \in [Index -> Index \cup {Nil}]
  BY <1>1, <1>2 DEF TypeOK
<1>9. top' \in Nat /\ base' <= top'
  <2>1. Max({top, Chunk(length) + 1}) \in Nat /\ top <= Max({top, Chunk(length) + 1})
    BY <1>1, Larger, ChunkHolds
  <2> QED
    BY <2>1, <1>1, <1>2
<1> QED
  BY <1>1, <1>2, <1>4, <1>5, <1>6, <1>7, <1>8, <1>9 DEF Storage

-----------------------------------------------------------------------------
(***************************************************************************)
(* The invariant.                                                          *)
(***************************************************************************)
\* A new log: nothing published, nothing stored, every cursor at its start.
LEMMA InitEstablishes == Init => IInv
<1> SUFFICES ASSUME Init PROVE IInv
  OBVIOUS
<1>1. 0 \in 0 .. Total /\ -1 \in -1 .. Total - 1 /\ 0 \in 0 .. Retired
  BY BufferAssumption DEF Retired
<1>2. TypeOK
  <2>1. /\ length \in 0 .. Total /\ released \in 0 .. Total
        /\ base \in Nat /\ top \in Nat /\ base <= top
    BY <1>1 DEF Init
  <2>2. slot \in [Index -> Index \cup {Nil}] /\ cur \in [Readers -> Index \cup {Nil}]
    BY DEF Init
  <2>3. cursor \in [Readers -> 0 .. Retired] /\ pos \in [Readers -> -1 .. Total - 1]
    BY <1>1 DEF Init
  <2>4. pc \in [Parties -> {"append", "stopped", "completed", "unassigned", "reading",
                            "eof", "abandoned", "closed"}]
    BY DEF Init
  <2> QED
    BY <2>1, <2>2, <2>3, <2>4 DEF Init, TypeOK
<1>3. Cursors /\ Behind
  BY <1>1, BufferAssumption DEF Init, Cursors, Behind, Parties
<1>4. Stored
  BY BufferAssumption DEF Init, Stored, Index
<1>5. Chunk(0) = 0
  BY BufferAssumption DEF Chunk
<1>6. Chunks /\ WithinCapacity
  BY <1>5, BufferAssumption DEF Init, Chunks, WithinCapacity
<1>7. Ended /\ ReadIntact /\ EndIsEnd
  BY BufferAssumption DEF Init, Ended, ReadIntact, EndIsEnd, Parties
<1> QED
  BY <1>2, <1>3, <1>4, <1>6, <1>7 DEF IInv

\* Steps that leave the log, the cursors and the parties' places alone.
logVars == <<length, released, done, slot, base, top, cursor, pos, cur>>

\* A step that leaves the log alone and moves only who waits where.
LEMMA QuietStep ==
  ASSUME IInv, TypeOK', UNCHANGED logVars,
         \A r \in Readers : pc'[r] = "closed" <=> pc[r] = "closed",
         \A r \in Readers : pc'[r] = "eof" => pc[r] = "eof" \/ AtEnd(r),
         pc[Writer] = "completed" => pc'[Writer] = "completed"
  PROVE  IInv'
<1>1. Cursors'
  BY DEF IInv, Cursors, logVars
<1>2. Behind' /\ Stored' /\ WithinCapacity' /\ ReadIntact'
  BY DEF IInv, Behind, Stored, WithinCapacity, ReadIntact, logVars
<1>3. Chunks'
  BY DEF IInv, Chunks, Chunk, logVars
<1>4. Ended'
  BY DEF IInv, Ended, logVars
<1>5. EndIsEnd'
  <2> SUFFICES ASSUME NEW r \in Readers, pc'[r] = "eof" PROVE done /\ pos[r] + 1 = length
    BY DEF EndIsEnd, logVars
  <2>1. CASE pc[r] = "eof"
    BY <2>1 DEF IInv, EndIsEnd
  <2>2. CASE AtEnd(r)
    <3>1. pos[r] < length /\ pos[r] \in Int /\ length \in Int
      BY DEF IInv, Cursors, TypeOK
    <3> QED
      BY <2>2, <3>1 DEF AtEnd
  <2> QED
    BY <2>1, <2>2
<1> QED
  BY <1>1, <1>2, <1>3, <1>4, <1>5 DEF IInv

\* A reader's place does not bear on the producer's, nor the other way round.
LEMMA Places ==
  ASSUME TypeOK, NEW r \in Readers, NEW where
  PROVE  /\ [pc EXCEPT ![r] = where][Writer] = pc[Writer]
         /\ [pc EXCEPT ![r] = where][r] = where
         /\ \A s \in Readers : s # r => [pc EXCEPT ![r] = where][s] = pc[s]
  BY BufferAssumption DEF TypeOK, Parties

\* The producer moves and no reader does.
LEMMA WriterPlace ==
  ASSUME TypeOK, NEW where
  PROVE  /\ [pc EXCEPT ![Writer] = where][Writer] = where
         /\ \A s \in Readers : [pc EXCEPT ![Writer] = where][s] = pc[s]
  BY BufferAssumption DEF TypeOK, Parties

\* Append: one record is published, or the producer waits for room.
LEMMA AppendKeeps == ASSUME IInv, Append PROVE IInv'
<1>1. CASE UNCHANGED <<length, released, slot, base, top>>
  <2>1. UNCHANGED logVars
    BY <1>1 DEF Append, logVars
  <2>2. /\ \A r \in Readers : pc'[r] = pc[r]
        /\ pc[Writer] = "completed" => pc'[Writer] = "completed"
        /\ TypeOK'
    <3>1. CASE Goto(Writer, "stopped") /\ UNCHANGED parked
      <4>1. pc[Writer] # "completed"
        BY DEF Append
      <4>2. pc' \in [Parties -> {"append", "stopped", "completed", "unassigned", "reading",
                                  "eof", "abandoned", "closed"}]
        BY <3>1 DEF Goto, IInv, TypeOK
      <4>3. TypeOK'
        BY <4>2, <3>1, <1>1 DEF Append, IInv, TypeOK
      <4> QED
        BY <4>1, <4>3, <3>1, WriterPlace DEF Goto, IInv
    <3>2. CASE UNCHANGED pc /\ (Park(Writer) \/ Broadcast)
      BY <3>2, <1>1 DEF Append, IInv, TypeOK, Park, Broadcast, Parties
    <3> QED
      BY <3>1, <3>2 DEF Append, Publish
  <2> QED
    BY <2>1, <2>2, QuietStep
<1>2. CASE /\ ~Full /\ Publish /\ UNCHANGED pc
  <2>1. Storage /\ TypeOK
    BY DEF IInv, Storage
  <2>2. /\ Storage'
        /\ length' \in 0 .. Total /\ released' = released
        /\ slot' \in [Index -> Index \cup {Nil}]
        /\ base' \in Nat /\ top' \in Nat /\ base' <= top'
    BY <1>2, <2>1, PublishKeepsStorage DEF Append
  <2>3. TypeOK'
    BY <1>2, <2>1, <2>2 DEF Append, TypeOK, Publish, Broadcast
  <2>4. Cursors'
    BY <1>2, <2>1 DEF Append, Publish, IInv, Cursors, TypeOK
  <2>5. ~done /\ Ended' /\ ReadIntact'
    BY <1>2 DEF Append, IInv, Ended, ReadIntact
  <2>6. EndIsEnd'
    BY <1>2, <2>5 DEF Append, IInv, EndIsEnd
  <2> QED
    BY <2>2, <2>3, <2>4, <2>5, <2>6 DEF IInv, Storage
<1> QED
  BY <1>1, <1>2 DEF Append

\* Complete: the log ends.
LEMMA CompleteKeeps == ASSUME IInv, NEW err \in BOOLEAN, Complete(err) PROVE IInv'
<1>1. pc' \in [Parties -> {"append", "stopped", "completed", "unassigned", "reading",
                            "eof", "abandoned", "closed"}]
  BY DEF Complete, Goto, IInv, TypeOK
<1>2. TypeOK'
  BY <1>1 DEF Complete, Broadcast, IInv, TypeOK
<1>3. pc'[Writer] = "completed" /\ \A r \in Readers : pc'[r] = pc[r]
  BY WriterPlace DEF Complete, Goto, IInv
<1>4. Cursors'
  BY <1>3 DEF Complete, IInv, Cursors
<1>5. Behind' /\ Stored' /\ WithinCapacity' /\ ReadIntact'
  BY DEF Complete, IInv, Behind, Stored, WithinCapacity, ReadIntact
<1>6. Chunks'
  BY DEF Complete, IInv, Chunks, Chunk
<1>7. Ended' /\ EndIsEnd'
  BY <1>3 DEF Complete, IInv, Ended, EndIsEnd
<1> QED
  BY <1>2, <1>4, <1>5, <1>6, <1>7 DEF IInv

\* A reader's step that changes only where it is.
LEMMA ReaderMoves ==
  ASSUME IInv, NEW r \in Readers, NEW where \in {"reading", "eof", "abandoned"},
         pc[r] # "closed", where = "eof" => AtEnd(r), Goto(r, where),
         UNCHANGED logVars, UNCHANGED <<failed, parked, cancelled, waking>>
  PROVE  IInv'
<1>1. pc' \in [Parties -> {"append", "stopped", "completed", "unassigned", "reading",
                            "eof", "abandoned", "closed"}]
  BY DEF Goto, IInv, TypeOK
<1>2. TypeOK'
  BY <1>1 DEF IInv, TypeOK, logVars
<1>3. pc'[Writer] = pc[Writer] /\ pc'[r] = where /\ \A s \in Readers : s # r => pc'[s] = pc[s]
  BY Places DEF Goto, IInv
<1> QED
  BY <1>2, <1>3, QuietStep

\* A reader is given its cursor.
LEMMA AssignKeeps == ASSUME IInv, NEW r \in Readers, Assign(r) PROVE IInv'
  BY ReaderMoves DEF Assign, logVars

\* Next on a reader whose context is cancelled.
LEMMA NextRefusedKeeps == ASSUME IInv, NEW r \in Readers, NextRefused(r) PROVE IInv'
  BY ReaderMoves DEF NextRefused, logVars

\* Next: the reader moves to the following record, and what all have passed is reclaimed.
LEMMA NextKeeps == ASSUME IInv, NEW r \in Readers, Next1(r) PROVE IInv'
<1> DEFINE n == pos[r] + 1
           moved == [cursor EXCEPT ![r] = n + 1]
<1>1. CASE n < length
  <2>1. /\ pos' = [pos EXCEPT ![r] = n]
        /\ cur' = [cur EXCEPT ![r] = IF base <= Chunk(n) /\ Chunk(n) < top THEN slot[n] ELSE Nil]
        /\ cursor' = moved /\ Reclaim(moved) /\ Broadcast
        /\ pc[r] = "reading" /\ UNCHANGED <<pc, done, failed, cancelled, waking>>
    <3>1. ~AtEnd(r) /\ ~(n >= length)
      BY <1>1 DEF AtEnd, IInv, TypeOK
    <3> QED
      BY <3>1 DEF Next1
  <2>2. /\ n \in Nat /\ n \in Index /\ cursor[r] = n /\ released <= n
        /\ length \in 0 .. Total /\ Total \in Nat /\ released \in Nat
    BY <1>1, <2>1, BufferAssumption DEF IInv, Cursors, Behind, TypeOK, Index
  <2>3. cur'[r] = n
    <3>1. base <= Chunk(n)
      BY <2>2, ChunkGrows DEF IInv, Chunks
    <3>2. Chunk(n) < top
      BY <1>1, <2>2, TopIsPast DEF IInv
    <3>3. slot[n] = n
      BY <1>1, <2>2 DEF IInv, Stored
    <3> QED
      BY <2>1, <3>1, <3>2, <3>3 DEF IInv, TypeOK
  <2>4. moved \in [Readers -> 0 .. Retired] /\ \A s \in Readers : released <= moved[s]
    <3>1. n + 1 \in 0 .. Retired
      BY <1>1, <2>2 DEF Retired
    <3> QED
      BY <3>1, <2>2 DEF IInv, TypeOK, Behind
  <2>5. /\ Storage'
        /\ released' \in 0 .. Total /\ length' = length /\ top' = top
        /\ slot' \in [Index -> Index \cup {Nil}]
        /\ base' \in Nat /\ base' <= top'
    BY <2>1, <2>4, ReclaimKeepsStorage DEF IInv, Storage
  <2>6. TypeOK'
    <3>1. pos' \in [Readers -> -1 .. Total - 1]
      BY <1>1, <2>1, <2>2 DEF IInv, TypeOK
    <3>2. cur' \in [Readers -> Index \cup {Nil}]
      BY <2>1, <2>2, <2>3 DEF IInv, TypeOK
    <3> QED
      BY <3>1, <3>2, <2>1, <2>4, <2>5 DEF IInv, TypeOK, Broadcast
  <2>7. Cursors'
    BY <1>1, <2>1, <2>2, <2>5 DEF IInv, TypeOK, Cursors
  <2>8. ReadIntact'
    BY <2>1, <2>2, <2>3 DEF IInv, TypeOK, ReadIntact
  <2>9. Ended' /\ EndIsEnd'
    BY <2>1, <2>5 DEF IInv, TypeOK, Ended, EndIsEnd
  <2> QED
    BY <2>5, <2>6, <2>7, <2>8, <2>9 DEF IInv, Storage
<1>2. CASE AtEnd(r) /\ Goto(r, "eof") /\ UNCHANGED <<length, released, slot, base, top, cursor, pos, cur, parked>>
  BY <1>2, ReaderMoves DEF Next1, logVars
<1>3. CASE Goto(r, "abandoned") /\ UNCHANGED <<length, released, slot, base, top, cursor, pos, cur, parked>>
  BY <1>3, ReaderMoves DEF Next1, logVars
<1>4. CASE Park(r) /\ UNCHANGED <<length, released, slot, base, top, cursor, pos, cur, pc>>
  <2>1. TypeOK'
    BY <1>4 DEF Next1, Park, IInv, TypeOK, Parties
  <2> QED
    BY <1>4, <2>1, QuietStep DEF Next1, logVars
<1> QED
  BY <1>1, <1>2, <1>3, <1>4 DEF Next1

\* Close: a cursor that is retired no longer holds records back.
LEMMA CloseKeeps == ASSUME IInv, NEW r \in Readers, Close(r) PROVE IInv'
<1> DEFINE retired == [cursor EXCEPT ![r] = Retired]
<1>1. /\ pc[r] \in {"reading", "eof", "abandoned"} /\ Goto(r, "closed")
      /\ cursor' = retired /\ Reclaim(retired) /\ Broadcast
      /\ UNCHANGED <<done, failed, pos, cur, cancelled, waking>>
  BY DEF Close
<1>2. retired \in [Readers -> 0 .. Retired] /\ \A s \in Readers : released <= retired[s]
  <2>1. Retired \in 0 .. Retired /\ released <= Retired
    BY BufferAssumption DEF Retired, IInv, TypeOK
  <2> QED
    BY <2>1 DEF IInv, TypeOK, Behind
<1>3. /\ Storage'
      /\ released' \in 0 .. Total /\ length' = length /\ top' = top
      /\ slot' \in [Index -> Index \cup {Nil}]
      /\ base' \in Nat /\ base' <= top'
  BY <1>1, <1>2, ReclaimKeepsStorage DEF IInv, Storage
<1>4. pc' \in [Parties -> {"append", "stopped", "completed", "unassigned", "reading",
                            "eof", "abandoned", "closed"}]
  BY <1>1 DEF Goto, IInv, TypeOK
<1>5. TypeOK'
  BY <1>1, <1>2, <1>3, <1>4 DEF IInv, TypeOK, Broadcast
<1>6. pc'[Writer] = pc[Writer] /\ pc'[r] = "closed" /\ \A s \in Readers : s # r => pc'[s] = pc[s]
  BY <1>1, Places DEF Goto, IInv
<1>7. Cursors'
  BY <1>1, <1>3, <1>6 DEF IInv, TypeOK, Cursors
<1>8. ReadIntact' /\ Ended' /\ EndIsEnd'
  BY <1>1, <1>3, <1>6 DEF IInv, ReadIntact, Ended, EndIsEnd
<1> QED
  BY <1>3, <1>5, <1>7, <1>8 DEF IInv, Storage

\* Every step keeps the invariant: one case per action.
LEMMA NextStep == IInv /\ [Next]_vars => IInv'
<1> SUFFICES ASSUME IInv, [Next]_vars PROVE IInv'
  OBVIOUS
<1>1. CASE Append
  BY <1>1, AppendKeeps
<1>2. CASE \E err \in BOOLEAN : Complete(err)
  BY <1>2, CompleteKeeps
<1>3. CASE \E r \in Readers : Assign(r)
  BY <1>3, AssignKeeps
<1>4. CASE \E r \in Readers : Next1(r)
  BY <1>4, NextKeeps
<1>5. CASE \E r \in Readers : NextRefused(r)
  BY <1>5, NextRefusedKeeps
<1>6. CASE \E r \in Readers : Close(r)
  BY <1>6, CloseKeeps
<1>7. CASE \E x \in Parties : Cancel(x) \/ Wake(x)
  <2>1. TypeOK'
    BY <1>7 DEF Cancel, Wake, Broadcast, IInv, TypeOK
  <2> QED
    BY <1>7, <2>1, QuietStep DEF Cancel, Wake, logVars
<1>8. CASE UNCHANGED vars
  <2>1. TypeOK'
    BY <1>8 DEF vars, IInv, TypeOK
  <2> QED
    BY <1>8, <2>1, QuietStep DEF vars, logVars
<1> QED
  BY <1>1, <1>2, <1>3, <1>4, <1>5, <1>6, <1>7, <1>8 DEF Next, WriterStep, ReaderStep

\* What the invariant says of chunks is what StorageIsBounded promises.
LEMMA InvariantBounds == IInv => StorageIsBounded
<1> SUFFICES ASSUME IInv PROVE StorageIsBounded
  OBVIOUS
<1>1. /\ length \in Nat /\ released \in Nat /\ released <= length
      /\ ChunkSize \in Nat /\ ChunkSize > 0 /\ top \in Nat /\ base \in Nat
  BY BufferAssumption DEF IInv, TypeOK, Behind
<1>2. base = Chunk(released) /\ released < base * ChunkSize + ChunkSize
  BY <1>1, ChunkHolds DEF IInv, Chunks
<1>3. released < length => Chunk(length - 1) < top
  <2> SUFFICES ASSUME released < length PROVE Chunk(length - 1) < top
    OBVIOUS
  <2>1. length - 1 \in Nat /\ length - 1 < length
    BY <1>1
  <2> QED
    BY <2>1, TopIsPast DEF IInv
<1>4. top * ChunkSize <= length + ChunkSize - 1
  <2>1. CASE length = 0
    <3>1. top = 0
      BY <2>1 DEF IInv, Chunks
    <3> QED
      BY <3>1, <2>1, <1>1
  <2>2. CASE length # 0
    <3>1. length - 1 \in Nat
      BY <2>2, <1>1
    <3>2. top = Chunk(length - 1) + 1 /\ Chunk(length - 1) \in Nat
          /\ Chunk(length - 1) * ChunkSize <= length - 1
      BY <2>2, <3>1, ChunkHolds DEF IInv, Chunks
    <3>3. (Chunk(length - 1) + 1) * ChunkSize = Chunk(length - 1) * ChunkSize + ChunkSize
      BY <3>2, <1>1
    <3> QED
      BY <3>1, <3>2, <3>3, <1>1
  <2> QED
    BY <2>1, <2>2
<1>5. (top - base) * ChunkSize = top * ChunkSize - base * ChunkSize
  BY <1>1
<1>6. (top - base) * ChunkSize <= (length - released) + 2 * (ChunkSize - 1) + 1
  BY <1>1, <1>2, <1>4, <1>5
<1>7. base <= Chunk(released)
  BY <1>1, <1>2
<1>8. WithinCapacity
  BY DEF IInv
<1> QED
  BY <1>3, <1>6, <1>7, <1>8 DEF StorageIsBounded, WithinCapacity
-----------------------------------------------------------------------------
\* The inductive invariant holds throughout.
LEMMA Invariant == Spec => []IInv
  BY InitEstablishes, NextStep, PTL DEF Spec

\* Append, Next, Close, Complete and a cancellation at any moment keep the
\* log's fields, its chunks and every party within their types.
THEOREM TypeCorrect == Spec => []TypeOK
<1>1. IInv => TypeOK
  BY DEF IInv
<1> QED
  BY <1>1, Invariant, PTL

\* Whatever the readers' speeds, Next hands out the record its cursor is at:
\* reclaim never nils or drops a record an open reader has still to read.
THEOREM RecordsIntact == Spec => []ReadIntact
<1>1. IInv => ReadIntact
  BY DEF IInv
<1> QED
  BY <1>1, Invariant, PTL

\* Next reports the end of the log to a reader only after its last record.
THEOREM EndAfterLast == Spec => []EndIsEnd
<1>1. IInv => EndIsEnd
  BY DEF IInv
<1> QED
  BY <1>1, Invariant, PTL

\* Append waits at the capacity and reclaim drops whole chunks, so that the
\* chunks held never exceed what the live records span.
THEOREM MemoryBounded == Spec => []StorageIsBounded
  BY Invariant, InvariantBounds, PTL
=============================================================================
