------------------------------ MODULE RowCache ------------------------------
(***************************************************************************)
(* pkg/rowcache and internal/system_g/exchange/rowcache.go: reads of an    *)
(* API through a bounded, transactional row cache.  A read looks its key   *)
(* up; on a hit it serves the entry's rows, on a miss it opens a writer,   *)
(* copies the live rows into it and commits them when the read is whole.   *)
(*                                                                         *)
(* The API's answer for a key is NRows rows of its current version, fixed  *)
(* when the live read opens.  A row costs 1, an entry 1 more.  Readers     *)
(* read concurrently; each store operation holds the store's mutex.        *)
(***************************************************************************)
EXTENDS Integers, Sequences, SequencesExt, FiniteSets, FiniteSetsExt, Functions, TLC

CONSTANTS
    Keys, Readers,
    KeyOf,              \* KeyOf[r]: what reader r reads
    NRows,              \* rows of a whole answer
    MaxBytes, MaxEntryBytes, MaxEntries,
    TTL,
    Versions            \* bound on the answers' versions

VARIABLES
    world,              \* world[k]: the version of k's answer now
    entry,              \* the entries: key -> [rows, cost, ttl]
    order,              \* keys held, most recently used first
    bytes, reserved, writers,   \* the store's own accounts
    closed,             \* the cache has been closed
    read,               \* read[r]: "new", "hit", "live" or "done"
    left, version,      \* rows it has yet to be given; the answer it reads
    given,              \* rows it has been given
    writer,             \* its writer's rows, or NoWriter
    ended               \* "" or how its read ended: "eof", "error", "closed"

vars == <<world, entry, order, bytes, reserved, writers, closed, read, left, version, given, writer, ended>>
store == <<entry, order, bytes, reserved, writers>>
NoWriter == << "none" >>

Init ==
    /\ world = [k \in Keys |-> 1]
    /\ entry = << >> /\ order = << >> /\ bytes = 0 /\ reserved = 0 /\ writers = 0 /\ closed = FALSE
    /\ read = [r \in Readers |-> "new"] /\ left = [r \in Readers |-> << >>]
    /\ version = [r \in Readers |-> 0] /\ given = [r \in Readers |-> << >>]
    /\ writer = [r \in Readers |-> NoWriter] /\ ended = [r \in Readers |-> ""]

Without(keys) == [k \in DOMAIN entry \ keys |-> entry[k]]
CostOf(keys) == FoldSet(LAMBDA k, n : n + entry[k].cost, 0, keys)
WriterCost(r) == 1 + Len(writer[r])

\* reserve: the least recently used entries, but for the key being written,
\* until cost fits; all of them when it never does.
Evicted(cost, key) ==
    LET others == SelectSeq(order, LAMBDA k : k # key)
        last(n) == ToSet(SubSeq(others, Len(others) - n + 1, Len(others)))
        can == {n \in 0 .. Len(others) : bytes - CostOf(last(n)) + reserved + cost <= MaxBytes}
    IN IF can = {} THEN ToSet(others) ELSE last(Min(can))

\* reserve's effect, and whether it succeeds.
Reserve(cost, key) ==
    LET out == Evicted(cost, key) IN
    /\ entry' = Without(out)
    /\ order' = SelectSeq(order, LAMBDA k : k \notin out)
    /\ bytes' = bytes - CostOf(out)
    /\ reserved' = reserved + (IF bytes' + reserved + cost <= MaxBytes THEN cost ELSE 0)
Reserved(cost) == bytes' + reserved + cost <= MaxBytes

Expired(k) == entry[k].ttl = 0
Used(k) == <<k>> \o SelectSeq(order, LAMBDA x : x # k)
Answer(k, v) == [i \in 1 .. NRows |-> <<k, v, i>>]

\* start, on a hit: the rows are a snapshot of the entry.
Hit(r) ==
    /\ read[r] = "new" /\ ~closed
    /\ LET k == KeyOf[r] IN
       /\ k \in DOMAIN entry /\ ~Expired(k)
       /\ left' = [left EXCEPT ![r] = entry[k].rows]
       /\ order' = Used(k)
    /\ read' = [read EXCEPT ![r] = "hit"]
    /\ UNCHANGED <<world, entry, bytes, reserved, writers, closed, version, given, writer, ended>>

Open(r) ==
    /\ read' = [read EXCEPT ![r] = "live"]
    /\ version' = [version EXCEPT ![r] = world[KeyOf[r]]]
    /\ left' = [left EXCEPT ![r] = Answer(KeyOf[r], world[KeyOf[r]])]
    /\ UNCHANGED <<world, closed, given, ended>>

\* start, on an expired entry: Lookup removes it, and the reader goes on as
\* on a miss.
Expire(r) ==
    /\ read[r] = "new" /\ ~closed /\ KeyOf[r] \in DOMAIN entry /\ Expired(KeyOf[r])
    /\ entry' = Without({KeyOf[r]}) /\ order' = SelectSeq(order, LAMBDA k : k # KeyOf[r])
    /\ bytes' = bytes - entry[KeyOf[r]].cost
    /\ UNCHANGED <<world, reserved, writers, closed, read, left, version, given, writer, ended>>

\* start, on a miss: a writer where the store has room for one, and the live
\* read in any case.
Miss(r) ==
    /\ read[r] = "new" /\ (closed \/ KeyOf[r] \notin DOMAIN entry)
    /\ IF closed \/ writers >= MaxEntries \/ 1 > MaxEntryBytes
         THEN UNCHANGED <<store, writer>>
         ELSE /\ Reserve(1, KeyOf[r])
              /\ IF Reserved(1)
                   THEN writers' = writers + 1 /\ writer' = [writer EXCEPT ![r] = << >>]
                   ELSE UNCHANGED <<writers, writer>>
    /\ Open(r)

HitNext(r) ==
    /\ read[r] = "hit" /\ left[r] # << >>
    /\ given' = [given EXCEPT ![r] = Append(@, Head(left[r]))]
    /\ left' = [left EXCEPT ![r] = Tail(@)]
    /\ UNCHANGED <<world, store, closed, read, version, writer, ended>>

\* abort: the writer's reservation goes back.
Drop(r) ==
    IF writer[r] = NoWriter THEN UNCHANGED <<reserved, writers, writer>>
    ELSE /\ reserved' = reserved - WriterCost(r) /\ writers' = writers - 1
         /\ writer' = [writer EXCEPT ![r] = NoWriter]

\* Next on a live read: the row is given, and copied to the writer; a row the
\* cache has no room for ends the writer, never the read.
LiveNext(r) ==
    /\ read[r] = "live" /\ left[r] # << >>
    /\ given' = [given EXCEPT ![r] = Append(@, Head(left[r]))]
    /\ left' = [left EXCEPT ![r] = Tail(@)]
    /\ IF writer[r] = NoWriter THEN UNCHANGED <<store, writer>>
       ELSE IF closed \/ WriterCost(r) + 1 > MaxEntryBytes
         THEN Drop(r) /\ UNCHANGED <<entry, order, bytes>>
         ELSE LET out == Evicted(1, KeyOf[r])
                  fits == bytes - CostOf(out) + reserved + 1 <= MaxBytes
              IN /\ entry' = Without(out) /\ order' = SelectSeq(order, LAMBDA k : k \notin out)
                 /\ bytes' = bytes - CostOf(out)
                 /\ IF fits THEN /\ reserved' = reserved + 1 /\ UNCHANGED writers
                                 /\ writer' = [writer EXCEPT ![r] = Append(@, Head(left[r]))]
                    ELSE Drop(r)
    /\ UNCHANGED <<world, closed, read, version, ended>>

\* Commit: the old entry of the key goes, the least recently used while there
\* are too many, and the writer's rows become the entry.
Commit(r) ==
    LET k == KeyOf[r]
        rest == SelectSeq(order, LAMBDA x : x # k)
        keep == SubSeq(rest, 1, IF Len(rest) >= MaxEntries THEN MaxEntries - 1 ELSE Len(rest))
        out == DOMAIN entry \ ToSet(keep)
    IN /\ entry' = [x \in ToSet(keep) \cup {k} |-> IF x = k THEN [rows |-> writer[r], cost |-> WriterCost(r), ttl |-> TTL] ELSE entry[x]]
       /\ order' = <<k>> \o keep
       /\ bytes' = bytes - CostOf(out) + WriterCost(r)
       /\ reserved' = reserved - WriterCost(r) /\ writers' = writers - 1

Finish(r, how) == read' = [read EXCEPT ![r] = "done"] /\ ended' = [ended EXCEPT ![r] = how]

\* The source ends.  A whole answer is committed.
LiveEnd(r) ==
    /\ read[r] = "live" /\ left[r] = << >>
    /\ IF writer[r] = NoWriter \/ closed
         THEN Drop(r) /\ UNCHANGED <<entry, order, bytes>>
         ELSE Commit(r) /\ writer' = [writer EXCEPT ![r] = NoWriter]
    /\ Finish(r, "eof")
    /\ UNCHANGED <<world, closed, left, version, given>>

\* Mutant of LiveCut: an ignored failure is the end of the answer.
LiveCut_Commits(r, how) ==
    /\ read[r] = "live"
    /\ IF writer[r] = NoWriter \/ closed \/ how = "error"
         THEN Drop(r) /\ UNCHANGED <<entry, order, bytes>>
         ELSE Commit(r) /\ writer' = [writer EXCEPT ![r] = NoWriter]
    /\ Finish(r, how)
    /\ UNCHANGED <<world, closed, left, version, given>>

\* The source ends early: in an error, or in a failure the run ignores, which
\* ends the rows cleanly but marks the attempt incomplete.
LiveCut(r, how) ==
    /\ read[r] = "live"
    /\ Drop(r) /\ UNCHANGED <<entry, order, bytes>>
    /\ Finish(r, how)
    /\ UNCHANGED <<world, closed, left, version, given>>

HitEnd(r) ==
    /\ read[r] = "hit" /\ left[r] = << >>
    /\ Finish(r, "eof")
    /\ UNCHANGED <<world, store, closed, left, version, given, writer>>

\* The reader closes, or its context ends, at any point.
Leave(r) ==
    /\ read[r] \in {"hit", "live"}
    /\ Drop(r) /\ UNCHANGED <<entry, order, bytes>>
    /\ Finish(r, "closed")
    /\ UNCHANGED <<world, closed, left, version, given>>

\* The collector removes what has expired.
Collect ==
    /\ ~closed
    /\ LET dead == {k \in DOMAIN entry : Expired(k)} IN
       /\ dead # {}
       /\ entry' = Without(dead) /\ order' = SelectSeq(order, LAMBDA k : k \notin dead)
       /\ bytes' = bytes - CostOf(dead)
    /\ UNCHANGED <<world, reserved, writers, closed, read, left, version, given, writer, ended>>

Close ==
    /\ ~closed /\ closed' = TRUE
    /\ entry' = << >> /\ order' = << >> /\ bytes' = 0
    /\ UNCHANGED <<world, reserved, writers, read, left, version, given, writer, ended>>

Tick ==
    /\ \E k \in DOMAIN entry : ~Expired(k)
    /\ entry' = [k \in DOMAIN entry |-> [entry[k] EXCEPT !.ttl = IF @ > 0 THEN @ - 1 ELSE 0]]
    /\ UNCHANGED <<world, order, bytes, reserved, writers, closed, read, left, version, given, writer, ended>>

\* The answer to a key changes.
Change(k) ==
    /\ world[k] < Versions /\ world' = [world EXCEPT ![k] = @ + 1]
    /\ UNCHANGED <<store, closed, read, left, version, given, writer, ended>>

Next ==
    \/ \E r \in Readers : \/ Hit(r) \/ Expire(r) \/ Miss(r) \/ HitNext(r) \/ LiveNext(r) \/ LiveEnd(r)
                          \/ HitEnd(r) \/ Leave(r) \/ LiveCut(r, "error") \/ LiveCut(r, "ignored")
    \/ Collect \/ Close \/ Tick \/ (\E k \in Keys : Change(k))

Spec == Init /\ [][Next]_vars

-----------------------------------------------------------------------------
Writing == {r \in Readers : writer[r] # NoWriter}

\* The store's accounts are what it holds: its bytes the entries', what is
\* reserved the open writers', and neither is left behind by a commit, an
\* eviction, an abort or a close.
AccountsBalance ==
    /\ bytes = CostOf(DOMAIN entry)
    /\ reserved = FoldSet(LAMBDA r, n : n + WriterCost(r), 0, Writing)
    /\ writers = Cardinality(Writing)
    /\ ToSet(order) = DOMAIN entry /\ IsInjective(order)

\* Entries and pending writes together never exceed the store's bounds.
WithinBounds ==
    /\ CostOf(DOMAIN entry) + FoldSet(LAMBDA r, n : n + WriterCost(r), 0, Writing) <= MaxBytes
    /\ Cardinality(DOMAIN entry) <= MaxEntries

\* An entry is the whole of one answer: a read cut short, ignored, closed or
\* out of room never becomes one.
OnlyWholeAnswers == \A k \in DOMAIN entry : \E v \in 1 .. Versions : entry[k].rows = Answer(k, v)

\* A read that ends cleanly gave the whole of one answer, from the cache or
\* live, whatever was evicted, replaced or closed while it ran.
ReadsAreWhole ==
    \A r \in Readers : ended[r] = "eof" => \E v \in 1 .. Versions : given[r] = Answer(KeyOf[r], v)

\* Refreshing a key does not cost it: while its writer runs, the old entry is
\* evicted for another key's sake or not at all.
RefreshKeepsTheOld ==
    \A r \in Readers :
      (writer[r] # NoWriter /\ writer'[r] # NoWriter /\ writer'[r] # writer[r])
         /\ KeyOf[r] \in DOMAIN entry => KeyOf[r] \in DOMAIN entry'
=============================================================================
