------------------------------- MODULE Buffer -------------------------------
(***************************************************************************)
(* internal/system_g/buffer: the single-writer, multi-reader log that every *)
(* stage of a query hands its rows through.  Readers pull with cursors of  *)
(* their own; a record every reader has passed is reclaimed, and with a    *)
(* capacity the writer waits for the slowest of them.                      *)
(*                                                                         *)
(* The mutex makes each step below atomic.  A party that cannot go on      *)
(* parks on the condition variable and runs again only after a broadcast;  *)
(* the broadcast of a cancelled context comes from a goroutine of its own. *)
(* The record at index i is the number i, so a wrong, missing or reclaimed *)
(* record is seen in what a cursor holds.                                  *)
(***************************************************************************)
EXTENDS Integers, FiniteSets, FiniteSetsExt

CONSTANTS
    Readers,        \* the declared readers
    Writer,         \* the producer
    Capacity,       \* live records allowed, 0 = unbounded
    ChunkSize,      \* records in a storage chunk
    Total,          \* bound: records the producer has to append
    Nil             \* an empty slot

ASSUME BufferAssumption == /\ Capacity \in Nat
                           /\ ChunkSize \in Nat \ {0}
                           /\ Total \in Nat
                           /\ Writer \notin Readers
                           /\ Nil \notin Nat

Parties == Readers \cup {Writer}
Index == 0 .. Total - 1
Retired == Total + 1        \* math.MaxInt: past every record

VARIABLES
    length,         \* records published
    released,       \* records below this one are reclaimed
    done,           \* the producer completed
    failed,         \* it completed with an error
    slot,           \* slot[i]: where record i is, or was, stored
    base, top,      \* the chunks there are: base .. top - 1
    cursor,         \* cursor[r]: the record reader r needs next, to reclaim by
    pc,             \* pc[x]: what party x is doing
    pos, cur,       \* pos[r], cur[r]: the current record of cursor r
    parked,         \* parties waiting on the condition variable
    cancelled,      \* parties whose context has ended
    waking          \* those whose broadcast has yet to run

vars == <<length, released, done, failed, slot, base, top, cursor,
          pc, pos, cur, parked, cancelled, waking>>

Chunk(i) == i \div ChunkSize

Init == /\ length = 0 /\ released = 0
        /\ done = FALSE /\ failed = FALSE
        /\ slot = [i \in Index |-> Nil]
        /\ base = 0 /\ top = 0
        /\ cursor = [r \in Readers |-> 0]
        /\ pc = [x \in Parties |-> IF x = Writer THEN "append" ELSE "unassigned"]
        /\ pos = [r \in Readers |-> -1]
        /\ cur = [r \in Readers |-> Nil]
        /\ parked = {} /\ cancelled = {} /\ waking = {}

Goto(x, where) == pc' = [pc EXCEPT ![x] = where]
Awake(x) == x \notin parked
Broadcast == parked' = {}
Park(x) == parked' = parked \cup {x}

Closed == {r \in Readers : pc[r] = "closed"}

\* Mutant of Full: one record more than the capacity fits.
Full_OneMore == Capacity > 0 /\ length - released > Capacity

\* The writer may not hold more live records.
Full == Capacity > 0 /\ length - released >= Capacity

\* Mutant of LowWater: bounded by the cursors alone.
LowWater_Unbounded(cursors) == Min({cursors[r] : r \in Readers})

\* Mutant of LowWater: off by one.
LowWater_Past(cursors) == Min({length} \cup {cursors[r] + 1 : r \in Readers})

\* The record the slowest reader needs next.
LowWater(cursors) == Min({length} \cup {cursors[r] : r \in Readers})

\* reclaim: everything below the slowest cursor is niled, and a chunk all
\* of whose records are released is dropped.
Reclaim(cursors) ==
    LET kept == Max({released, LowWater(cursors)})
    IN  /\ released' = kept
        /\ slot' = [i \in Index |-> IF released <= i /\ i < kept THEN Nil ELSE slot[i]]
        /\ base' = Min({top, Max({base, Chunk(kept)})})
        /\ UNCHANGED <<length, top>>

(***************************************************************************)
(* The producer.                                                           *)
(***************************************************************************)
\* put, and the end of Append.
Publish ==
    /\ slot' = [slot EXCEPT ![length] = length]
    /\ top' = Max({top, Chunk(length) + 1})
    /\ length' = length + 1
    /\ UNCHANGED <<released, base>>
    /\ Broadcast

\* Append, from entering or from waking up in its loop.  The producer stops
\* when nobody consumes, or on its own cancellation.
Append ==
    /\ pc[Writer] = "append"
    /\ length < Total
    /\ Awake(Writer)
    /\ \/ /\ Closed = Readers
          /\ Goto(Writer, "stopped")
          /\ UNCHANGED <<length, released, slot, base, top, parked>>
       \/ /\ Closed # Readers /\ Writer \in cancelled
          /\ Goto(Writer, "stopped")
          /\ UNCHANGED <<length, released, slot, base, top, parked>>
       \/ /\ Closed # Readers /\ Writer \notin cancelled /\ ~Full
          /\ Publish
          /\ UNCHANGED pc
       \/ /\ Closed # Readers /\ Writer \notin cancelled /\ Full
          /\ Park(Writer)
          /\ UNCHANGED <<length, released, slot, base, top, pc>>
    /\ UNCHANGED <<done, failed, cursor, pos, cur, cancelled, waking>>

\* Complete: at the end of the input, after a stopped Append, or on a
\* failure of the producer's own.
Complete(err) ==
    /\ pc[Writer] \in {"append", "stopped"}
    /\ Awake(Writer)
    /\ err \/ length = Total \/ pc[Writer] = "stopped"
    /\ done' = TRUE
    /\ failed' = err
    /\ Goto(Writer, "completed")
    /\ Broadcast
    /\ UNCHANGED <<length, released, slot, base, top, cursor, pos, cur, cancelled, waking>>

(***************************************************************************)
(* A reader.                                                               *)
(***************************************************************************)
\* Reader: a cursor is handed out.
Assign(r) ==
    /\ pc[r] = "unassigned"
    /\ Goto(r, "reading")
    /\ UNCHANGED <<length, released, done, failed, slot, base, top, cursor, pos, cur,
                   parked, cancelled, waking>>

\* Mutant of AtEnd: a completed log has ended, read or not.
AtEnd_Done(r) == done

\* Reader r has had every record of a completed log.
AtEnd(r) == pos[r] + 1 >= length /\ done

\* Next, from entering or from waking up: the next record; the end of a
\* completed log; nothing, because the context has ended; or wait.
Next1(r) ==
    LET n == pos[r] + 1
        moved == [cursor EXCEPT ![r] = n + 1]
    IN
    /\ pc[r] = "reading"
    /\ Awake(r)
    /\ \/ /\ n < length
          /\ pos' = [pos EXCEPT ![r] = n]
          /\ cur' = [cur EXCEPT ![r] =
                        IF base <= Chunk(n) /\ Chunk(n) < top THEN slot[n] ELSE Nil]
          /\ cursor' = moved
          /\ Reclaim(moved)
          /\ Broadcast
          /\ UNCHANGED pc
       \/ /\ AtEnd(r)
          /\ Goto(r, "eof")
          /\ UNCHANGED <<length, released, slot, base, top, cursor, pos, cur, parked>>
       \/ /\ n >= length /\ ~done /\ r \in cancelled
          /\ Goto(r, "abandoned")
          /\ UNCHANGED <<length, released, slot, base, top, cursor, pos, cur, parked>>
       \/ /\ n >= length /\ ~done /\ r \notin cancelled
          /\ Park(r)
          /\ UNCHANGED <<length, released, slot, base, top, cursor, pos, cur, pc>>
    /\ UNCHANGED <<done, failed, cancelled, waking>>

\* Next entered with a context that has already ended returns at once.
NextRefused(r) ==
    /\ pc[r] = "reading"
    /\ Awake(r)
    /\ r \in cancelled
    /\ Goto(r, "abandoned")
    /\ UNCHANGED <<length, released, done, failed, slot, base, top, cursor, pos, cur,
                   parked, cancelled, waking>>

\* Mutant of Close: retires the cursor and tells nobody.
Close_Silent(r) ==
    LET retired == [cursor EXCEPT ![r] = Retired] IN
    /\ pc[r] \in {"reading", "eof", "abandoned"}
    /\ Awake(r)
    /\ Goto(r, "closed")
    /\ cursor' = retired
    /\ Reclaim(retired)
    /\ UNCHANGED <<done, failed, pos, cur, parked, cancelled, waking>>

\* Close: the reader never holds back the low-water mark again.
Close(r) ==
    LET retired == [cursor EXCEPT ![r] = Retired] IN
    /\ pc[r] \in {"reading", "eof", "abandoned"}
    /\ Awake(r)
    /\ Goto(r, "closed")
    /\ cursor' = retired
    /\ Reclaim(retired)
    /\ Broadcast
    /\ UNCHANGED <<done, failed, pos, cur, cancelled, waking>>

\* A party's context ends; the broadcast that lets it notice comes later.
Cancel(x) ==
    /\ x \notin cancelled
    /\ cancelled' = cancelled \cup {x}
    /\ waking' = waking \cup {x}
    /\ UNCHANGED <<length, released, done, failed, slot, base, top, cursor, pc, pos, cur, parked>>

Wake(x) ==
    /\ x \in waking
    /\ waking' = waking \ {x}
    /\ Broadcast
    /\ UNCHANGED <<length, released, done, failed, slot, base, top, cursor, pc, pos, cur, cancelled>>

----------------------------------------------------------------------------
WriterStep == Append \/ Complete(FALSE)
ReaderStep(r) == Assign(r) \/ Next1(r) \/ NextRefused(r)

Next == \/ WriterStep
        \/ Complete(TRUE)
        \/ \E r \in Readers : ReaderStep(r) \/ Close(r)
        \/ \E x \in Parties : Cancel(x) \/ Wake(x)

\* Goroutines that can run do, and a consumer keeps pulling until Next
\* returns false, then closes.  Nobody has to fail, cancel or close early.
Fairness == /\ WF_vars(WriterStep)
            /\ \A r \in Readers : /\ WF_vars(ReaderStep(r))
                                  /\ WF_vars(pc[r] \in {"eof", "abandoned"} /\ Close(r))
            /\ \A x \in Parties : WF_vars(Wake(x))

Spec == Init /\ [][Next]_vars /\ Fairness
----------------------------------------------------------------------------
(***************************************************************************)
(* Properties.                                                             *)
(***************************************************************************)
\* Type correctness of the log, its storage and the parties.
TypeOK ==
    /\ length \in 0 .. Total /\ released \in 0 .. Total
    /\ done \in BOOLEAN /\ failed \in BOOLEAN
    /\ slot \in [Index -> Index \cup {Nil}]
    /\ base \in Nat /\ top \in Nat /\ base <= top
    /\ cursor \in [Readers -> 0 .. Retired]
    /\ pc \in [Parties -> {"append", "stopped", "completed", "unassigned", "reading",
                           "eof", "abandoned", "closed"}]
    /\ pos \in [Readers -> -1 .. Total - 1]
    /\ cur \in [Readers -> Index \cup {Nil}]
    /\ parked \subseteq Parties /\ cancelled \subseteq Parties /\ waking \subseteq Parties

\* A cursor always holds the record it is at: nothing is reclaimed, dropped
\* with its chunk or left unwritten before every open reader has passed it,
\* late starters and early closers included.
ReadIntact == \A r \in Readers : pos[r] >= 0 => cur[r] = pos[r]

\* A reader that is told the log has ended has been given all of it.
EndIsEnd == \A r \in Readers : pc[r] = "eof" => done /\ pos[r] + 1 = length

\* Memory follows the live records: within capacity, and in no more chunks
\* than they span, plus the one being filled.
StorageIsBounded ==
    /\ Capacity > 0 => length - released <= Capacity
    /\ released < length => base <= Chunk(released) /\ Chunk(length - 1) < top
    /\ (top - base) * ChunkSize <= (length - released) + 2 * (ChunkSize - 1) + 1

\* No wakeup is lost: the producer always gets to complete and every reader
\* to close, whoever is cancelled, closes early or starts late, although all
\* may be parked in between.
EveryoneFinishes ==
    <>(pc[Writer] = "completed" /\ \A r \in Readers : pc[r] = "closed")
============================================================================
