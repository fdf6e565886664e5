-------------------------------- MODULE Sink --------------------------------
(***************************************************************************)
(* internal/system_g/sink: the io.WriteCloser many producers share.  Each  *)
(* Write queues one record on a bounded channel; one owner goroutine       *)
(* writes the queue to the destination; Close signals the owner to flush   *)
(* and waits for it.  The data channel is never closed, so a Write and a   *)
(* Close may run side by side.                                             *)
(*                                                                         *)
(* A producer writes its records one after the other; record <<p, i>> is   *)
(* the i-th of producer p.  Whether the destination fails is its choice.   *)
(***************************************************************************)
EXTENDS Naturals, Sequences, Functions, FiniteSets

CONSTANTS
    Producers,      \* goroutines that write
    Closers,        \* goroutines that close
    QueueCap,       \* capacity of the channel
    PerProducer     \* bound: records each producer has to write

Records == Producers \X (1 .. PerProducer)

VARIABLES
    ch,             \* the channel's buffered records
    closing,        \* the closing channel is closed
    owner,          \* the owner goroutine: "serve", "flush", "done"
    err,            \* the sticky error is set
    disk,           \* what the destination has
    pc,             \* pc[x]: where producer or closer x is
    next,           \* next[p]: the record producer p is to write
    acked,          \* records whose Write returned success
    refused,        \* records whose Write returned an error
    early           \* records acknowledged before any Close signalled

vars == <<ch, closing, owner, err, disk, pc, next, acked, refused, early>>

Init == /\ ch = << >> /\ closing = FALSE /\ owner = "serve" /\ err = FALSE
        /\ disk = << >>
        /\ pc = [x \in Producers \cup Closers |-> "idle"]
        /\ next = [p \in Producers |-> 1]
        /\ acked = {} /\ refused = {} /\ early = {}

Current(p) == <<p, next[p]>>

Refuse(p) == /\ refused' = refused \cup {Current(p)}
             /\ next' = [next EXCEPT ![p] = @ + 1]
             /\ pc' = [pc EXCEPT ![p] = "idle"]
             /\ UNCHANGED <<ch, closing, owner, err, disk, acked, early>>

\* Write, up to its first select: the sticky error is returned at once.
Enter(p) ==
    /\ pc[p] = "idle" /\ next[p] <= PerProducer
    /\ IF err
         THEN Refuse(p)
         ELSE /\ pc' = [pc EXCEPT ![p] = "entered"]
              /\ UNCHANGED <<ch, closing, owner, err, disk, next, acked, refused, early>>

\* The first select: a sink already closed refuses, whatever space it has.
CheckClosed(p) ==
    /\ pc[p] = "entered"
    /\ IF closing
         THEN Refuse(p)
         ELSE /\ pc' = [pc EXCEPT ![p] = "sending"]
              /\ UNCHANGED <<ch, closing, owner, err, disk, next, acked, refused, early>>

\* The second select, its send case: the record is queued and acknowledged.
Send(p) ==
    /\ pc[p] = "sending" /\ Len(ch) < QueueCap
    /\ ch' = Append(ch, Current(p))
    /\ acked' = acked \cup {Current(p)}
    /\ early' = IF closing THEN early ELSE early \cup {Current(p)}
    /\ next' = [next EXCEPT ![p] = @ + 1]
    /\ pc' = [pc EXCEPT ![p] = "idle"]
    /\ UNCHANGED <<closing, owner, err, disk, refused>>

\* The second select, its closing case.  A select with both cases ready
\* takes either.
SendRefused(p) == pc[p] = "sending" /\ closing /\ Refuse(p)

\* The owner's write of the record at the head of the queue: after the
\* first error records are drained and dropped.
WriteHead(fails) ==
    /\ ch # << >>
    /\ ch' = Tail(ch)
    /\ IF err
         THEN ~fails /\ UNCHANGED <<disk, err>>
         ELSE /\ disk' = IF fails THEN disk ELSE Append(disk, Head(ch))
              /\ err' = fails
    /\ UNCHANGED <<closing, pc, next, acked, refused, early>>

\* run's outer select, the queue case.
Serve(fails) == owner = "serve" /\ WriteHead(fails) /\ UNCHANGED owner

\* run's outer select, the closing case.
StartFlush ==
    /\ owner = "serve" /\ closing
    /\ owner' = "flush"
    /\ UNCHANGED <<ch, closing, err, disk, pc, next, acked, refused, early>>

\* run's inner select: flush what is queued, then stop.
Flush(fails) == owner = "flush" /\ WriteHead(fails) /\ UNCHANGED owner

StopFlush ==
    /\ owner = "flush" /\ ch = << >>
    /\ owner' = "done"
    /\ UNCHANGED <<ch, closing, err, disk, pc, next, acked, refused, early>>

\* Close: signal once, wait for the owner, report the first error.
Close(c) ==
    /\ pc[c] = "idle"
    /\ closing' = TRUE
    /\ pc' = [pc EXCEPT ![c] = "waiting"]
    /\ UNCHANGED <<ch, owner, err, disk, next, acked, refused, early>>

CloseReturns(c) ==
    /\ pc[c] = "waiting" /\ owner = "done"
    /\ pc' = [pc EXCEPT ![c] = IF err THEN "failed" ELSE "closed"]
    /\ UNCHANGED <<ch, closing, owner, err, disk, next, acked, refused, early>>

\* Every goroutine has run to its end: the program goes on elsewhere.
Finished == /\ owner = "done"
            /\ \A p \in Producers : pc[p] = "idle" /\ next[p] > PerProducer
            /\ \A c \in Closers : pc[c] \in {"closed", "failed"}
            /\ UNCHANGED vars

OwnerStep == \/ \E fails \in BOOLEAN : Serve(fails) \/ Flush(fails)
             \/ StartFlush \/ StopFlush
ProducerStep(p) == Enter(p) \/ CheckClosed(p) \/ Send(p) \/ SendRefused(p)
CloserStep(c) == Close(c) \/ CloseReturns(c)

Next == \/ \E p \in Producers : ProducerStep(p)
        \/ \E c \in Closers : CloserStep(c)
        \/ OwnerStep
        \/ Finished

\* What must go on: some goroutine that can take a step does, and every call
\* returns.  Nobody is obliged to fail, to cancel or to leave early.
Progress == OwnerStep \/ (\E p \in Producers : ProducerStep(p)) \/ (\E c \in Closers : CloserStep(c))

Spec == Init /\ [][Next]_vars /\ WF_vars(Progress)

(***************************************************************************)
(* Properties.                                                             *)
(***************************************************************************)
TypeOK ==
    /\ ch \in Seq(Records) /\ Len(ch) <= QueueCap
    /\ closing \in BOOLEAN /\ err \in BOOLEAN
    /\ owner \in {"serve", "flush", "done"}
    /\ disk \in Seq(Records)
    /\ \A p \in Producers : pc[p] \in {"idle", "entered", "sending"}
    /\ \A c \in Closers : pc[c] \in {"idle", "waiting", "closed", "failed"}
    /\ next \in [Producers -> 1 .. PerProducer + 1]
    /\ acked \subseteq Records /\ refused \subseteq Records /\ early \subseteq acked

\* Every record reaches the destination at most once and each producer's in
\* the order it wrote them, and what is there was acknowledged: the fan-in
\* through one owner neither repeats, reorders nor invents.
DiskInOrder ==
    /\ Range(disk) \subseteq acked
    /\ \A i, j \in DOMAIN disk :
          i < j /\ disk[i][1] = disk[j][1] => disk[i][2] < disk[j][2]

\* "Close drains what is already queued": when a Close returns without an
\* error, every record acknowledged before the first Close signalled is at
\* the destination.
CleanCloseKeepsEarly ==
    \A c \in Closers : pc[c] = "closed" => early \subseteq Range(disk)

\* "Write errors are sticky": the destination's failure ends what it holds
\* for good, and a Write that starts after it is refused.
ErrorSticks ==
    err => /\ err' /\ disk' = disk
           /\ \A p \in Producers : pc[p] = "idle" => pc'[p] = "idle"

\* Close has returned and no producer is in a Write: reached for good, however
\* full the queue was when the sink closed.
Done == /\ \A c \in Closers : pc[c] \in {"closed", "failed"}
        /\ \A p \in Producers : pc[p] = "idle"
-----------------------------------------------------------------------------
(***************************************************************************)
(* The sink for any producers, closers, queue and number of records.       *)
(* Order at the destination rests on order in the queue, on nothing queued *)
(* being older than what was written, and on a producer's next record      *)
(* being newer than both.                                                  *)
(***************************************************************************)
Instance ==
    Producers \cap Closers = {} /\ QueueCap \in Nat /\ PerProducer \in Nat

\* The queue and the destination hold records the producers are past.
Past == \A p \in Producers :
    /\ \A i \in 1 .. Len(disk) : disk[i][1] = p => disk[i][2] < next[p]
    /\ \A i \in 1 .. Len(ch) : ch[i][1] = p => ch[i][2] < next[p]

InOrder(s) == \A i, j \in 1 .. Len(s) : i < j /\ s[i][1] = s[j][1] => s[i][2] < s[j][2]

\* The queue follows on from the destination.
Follows == \A i \in 1 .. Len(disk), j \in 1 .. Len(ch) :
    disk[i][1] = ch[j][1] => disk[i][2] < ch[j][2]

Ordered == Past /\ InOrder(disk) /\ InOrder(ch) /\ Follows

Written(r) == \E i \in 1 .. Len(disk) : disk[i] = r
Queued(r) == \E i \in 1 .. Len(ch) : ch[i] = r

\* What was acknowledged in time is written or queued until an error, and
\* written once the owner has stopped.
Kept == /\ \A r : Written(r) \/ Queued(r) => r \in acked
        /\ ~err => \A r \in early : Written(r) \/ Queued(r)
        /\ ~err /\ owner = "done" => \A r \in early : Written(r)

Closed == /\ owner # "serve" => closing
          /\ \A c \in Closers : pc[c] = "closed" => ~err /\ owner = "done"

Places == {"idle", "entered", "sending", "waiting", "closed", "failed"}

Positions == /\ pc \in [Producers \cup Closers -> Places]
             /\ \A p \in Producers : pc[p] # "idle" => next[p] <= PerProducer

IInv == TypeOK /\ Positions /\ Ordered /\ Kept /\ Closed
=============================================================================
