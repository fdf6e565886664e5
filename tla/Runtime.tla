------------------------------ MODULE Runtime ------------------------------
(***************************************************************************)
(* The parts a query and a destroy run on, side by side: what is asked of  *)
(* one is asked of all of them.  A behaviour is of one part, which moves   *)
(* while the variables of the others stand still.                          *)
(*                                                                         *)
(* Parts that are proved about in RuntimeProofs keep the names of their    *)
(* variables, the others (proved about where they are defined) share s1,   *)
(* s2 and so on in the order they declare theirs.  Two parts that look at  *)
(* one module with different constants share its variables.                *)
(***************************************************************************)
EXTENDS Integers, Sequences, FiniteSets, TLC

CONSTANTS
    Producers, Closers, QueueCap, PerProducer,          \* a sink
    Nodes, Slots,                                       \* a schedule; slots of a host too
    OuterRows, PerRow, NMembers, FanOut, JoinFanOut,    \* a join and a section
    Sections, Ahead, MayFail,
    Outputs, Legs, LegOf(_), PerLeg, Limit,             \* outputs with a limit
    Members, Betas, Outside, Row, Responses(_, _), Specs,   \* a cycle
    Bounds, Growths(_, _),                              \* one that only its bound ends
    Kinds, Tokens, FirstURL, Pages, MaxAttempts, PageLimits, Ignorable,   \* an exchange of many pages
    Requests, Tries, Burst, Delays, RetryAfters,        \* requests to one host
    Keys, Phases, Uses, Enforced, MaxRuns,              \* a destroy
    GraphKeys, Reads, Creates, Addressable              \* a graph

VARIABLES
    part,                                               \* the part that moves
    ch, closing, owner, err, disk, pc, next, acked, refused, early,     \* Sink
    deps, indeg, stage, node, cancelled, byCaller, firstErr,            \* Schedule
    left, leg, merged, mend, mergeErr, ctx, taken, term, delivered, end, caller,    \* Output
    spec, phase, seen, frontier, fresh, pending, derived, failed,       \* Cycle
    iterations, emitted, runs, expired, reason,
    kind, limit, fetch, token, known, page, answer, asked, unread, reader, result,  \* Paging
    ahead, state, index, wait, held,                                    \* Retry
    s1, s2, s3, s4, s5, s6, s7, s8, s9, s10, s11, s12, s13, s14     \* Pipeline, Destroy, GraphRun

sink == <<ch, closing, owner, err, disk, pc, next, acked, refused, early>>
schedule == <<deps, indeg, stage, node, cancelled, byCaller, firstErr>>
output == <<left, leg, merged, mend, mergeErr, ctx, taken, term, delivered, end, caller>>
cycle == <<spec, phase, seen, frontier, fresh, pending, derived, failed,
           iterations, emitted, runs, expired, reason>>
paging == <<kind, limit, fetch, token, known, page, answer, asked, unread, reader, result>>
retry == <<ahead, state, index, wait, held>>
shared == <<s1, s2, s3, s4, s5, s6, s7, s8, s9, s10, s11, s12, s13, s14>>

vars == <<part, sink, schedule, output, cycle, paging, retry, shared>>

Snk == INSTANCE Sink

Sch == INSTANCE Schedule WITH phase <- stage

Join == INSTANCE Pipeline WITH
  NMembers <- 1, Sectioned <- FALSE, FanOut <- JoinFanOut, row <- s1, sent <- s2,
  buf1 <- s3, end1 <- s4, read1 <- s5, failed1 <- s6, current <- s7, task <- s8,
  failed2 <- s9, buf2 <- s10, end2 <- s11, read2 <- s12, out <- s13

Sect == INSTANCE Pipeline WITH
  Sectioned <- TRUE, row <- s1, sent <- s2, buf1 <- s3, end1 <- s4, read1 <- s5,
  failed1 <- s6, current <- s7, task <- s8, failed2 <- s9, buf2 <- s10, end2 <- s11,
  read2 <- s12, out <- s13

\* Legs merged into one cursor.
Together(l) == 1
Mrg == INSTANCE Output WITH
  Outputs <- {1}, Legs <- 1 .. 3, LegOf <- Together, Limit <- 0, RowSink <- TRUE,
  MayTimeOut <- TRUE, firstErr <- mergeErr

\* Outputs that share a limit.
Lim == INSTANCE Output WITH
  RowSink <- FALSE, MayTimeOut <- TRUE, firstErr <- mergeErr

Clo == INSTANCE Cycle WITH Gates <- {}

\* A member that answers itself with ever new values.
Bnd == INSTANCE Cycle WITH
  Members <- {"f"}, Betas <- {<<"f", "f">>}, Outside <- {"f"}, Gates <- {},
  Responses <- Growths, Specs <- Bounds, MayFail <- FALSE

\* The polling loop of the developer guide: a member polls again while the branch on its
\* answer chooses "pending".
Polled(m, x) == IF m = "poll" THEN {{}, {"p1"}, {"p2"}, {"done"}}
                ELSE {{IF x = "done" THEN "done" ELSE "pending"}}
Pol == INSTANCE Cycle WITH
  Members <- {"poll", "br"}, Betas <- {<<"poll", "br">>, <<"poll", "poll">>},
  Outside <- {"poll"}, Gates <- {<<"br", "pending", "poll">>}, Row <- "op",
  Responses <- Polled, Specs <- {[op |-> "rounds", n |-> 10]}, MayFail <- FALSE

Pag == INSTANCE Paging WITH phase <- fetch, seen <- known

Ret == INSTANCE Retry

Des == INSTANCE Destroy WITH
  entry <- s1, object <- s2, outside <- s3, journal <- s4, listed <- s5, late <- s6,
  pc <- s7, runs <- s8, pending <- s9, at <- s10, next <- s11, progress <- s12,
  refusedWith <- s13, out <- s14

Gra == INSTANCE GraphRun WITH
  Keys <- GraphKeys, node <- s1, entry <- s2, object <- s3, applied <- s4, phase <- s5,
  pending <- s6, todo <- s7, next <- s8, progress <- s9, done <- s10, left <- s11

\* What the theorems assume of the parts.
ASSUME Instances ==
  /\ Snk!Instance /\ Sch!Instance /\ Join!Instance /\ Sect!Instance /\ Lim!Instance
  /\ Pag!Instance /\ Ret!Instance /\ Des!Instance /\ Gra!Instance

\* Variables of parts that stand still.
Unused(v) == v = "-"
SinkIdle ==
  /\ Unused(ch) /\ Unused(closing) /\ Unused(owner) /\ Unused(err) /\ Unused(disk)
  /\ Unused(pc) /\ Unused(next) /\ Unused(acked) /\ Unused(refused) /\ Unused(early)
ScheduleIdle ==
  /\ Unused(deps) /\ Unused(indeg) /\ Unused(stage) /\ Unused(node) /\ Unused(cancelled)
  /\ Unused(byCaller) /\ Unused(firstErr)
OutputIdle ==
  /\ Unused(left) /\ Unused(leg) /\ Unused(merged) /\ Unused(mend) /\ Unused(mergeErr)
  /\ Unused(ctx) /\ Unused(taken) /\ Unused(term) /\ Unused(delivered) /\ Unused(end)
  /\ Unused(caller)
CycleIdle ==
  /\ Unused(spec) /\ Unused(phase) /\ Unused(seen) /\ Unused(frontier) /\ Unused(fresh)
  /\ Unused(pending) /\ Unused(derived) /\ Unused(failed) /\ Unused(iterations)
  /\ Unused(emitted) /\ Unused(runs) /\ Unused(expired) /\ Unused(reason)
PagingIdle ==
  /\ Unused(kind) /\ Unused(limit) /\ Unused(fetch) /\ Unused(token) /\ Unused(known)
  /\ Unused(page) /\ Unused(answer) /\ Unused(asked) /\ Unused(unread) /\ Unused(reader)
  /\ Unused(result)
RetryIdle ==
  Unused(ahead) /\ Unused(state) /\ Unused(index) /\ Unused(wait) /\ Unused(held)
Unused12 == Unused(s12) /\ Unused(s13) /\ Unused(s14)
SharedIdle ==
  /\ Unused(s1) /\ Unused(s2) /\ Unused(s3) /\ Unused(s4) /\ Unused(s5) /\ Unused(s6)
  /\ Unused(s7) /\ Unused(s8) /\ Unused(s9) /\ Unused(s10) /\ Unused(s11) /\ Unused12

Parts == {"sink", "schedule", "join", "section", "merge", "limit", "closure", "bound", "poll",
          "paging", "retry", "destroy", "graph"}

Init ==
  /\ part \in Parts
  /\ IF part = "sink" THEN Snk!Init ELSE SinkIdle
  /\ IF part = "schedule" THEN Sch!Init ELSE ScheduleIdle
  /\ IF part = "merge" THEN Mrg!Init ELSE IF part = "limit" THEN Lim!Init ELSE OutputIdle
  /\ IF part = "closure" THEN Clo!Init
     ELSE IF part = "bound" THEN Bnd!Init ELSE IF part = "poll" THEN Pol!Init ELSE CycleIdle
  /\ IF part = "paging" THEN Pag!Init ELSE PagingIdle
  /\ IF part = "retry" THEN Ret!Init ELSE RetryIdle
  /\ IF part = "join" THEN Join!Init /\ Unused(s14)
     ELSE IF part = "section" THEN Sect!Init /\ Unused(s14)
     ELSE IF part = "destroy" THEN Des!Init
     ELSE IF part = "graph" THEN Gra!Init /\ Unused12 ELSE SharedIdle

\* A step is one of the part's own.
NotSink == UNCHANGED <<part, schedule, output, cycle, paging, retry, shared>>
NotSchedule == UNCHANGED <<part, sink, output, cycle, paging, retry, shared>>
NotOutput == UNCHANGED <<part, sink, schedule, cycle, paging, retry, shared>>
NotCycle == UNCHANGED <<part, sink, schedule, output, paging, retry, shared>>
NotPaging == UNCHANGED <<part, sink, schedule, output, cycle, retry, shared>>
NotRetry == UNCHANGED <<part, sink, schedule, output, cycle, paging, shared>>
NotShared == UNCHANGED <<part, sink, schedule, output, cycle, paging, retry>>

SinkStep == part = "sink" /\ Snk!Next /\ NotSink
ScheduleStep == part = "schedule" /\ Sch!Next /\ NotSchedule
JoinStep == part = "join" /\ Join!Next /\ NotShared /\ UNCHANGED s14
SectionStep == part = "section" /\ Sect!Next /\ NotShared /\ UNCHANGED s14
MergeStep == part = "merge" /\ Mrg!Next /\ NotOutput
LimitStep == part = "limit" /\ Lim!Next /\ NotOutput
ClosureStep == part = "closure" /\ Clo!Next /\ NotCycle
BoundStep == part = "bound" /\ Bnd!Next /\ NotCycle
PollStep == part = "poll" /\ Pol!Next /\ NotCycle
PagingStep == part = "paging" /\ Pag!Next /\ NotPaging
RetryStep == part = "retry" /\ Ret!Next /\ NotRetry
DestroyStep == part = "destroy" /\ Des!Next /\ NotShared
GraphStep == part = "graph" /\ Gra!Next /\ NotShared /\ UNCHANGED <<s12, s13, s14>>

Next ==
  \/ SinkStep
  \/ ScheduleStep
  \/ JoinStep
  \/ SectionStep
  \/ MergeStep
  \/ LimitStep
  \/ ClosureStep
  \/ BoundStep
  \/ PollStep
  \/ PagingStep
  \/ RetryStep
  \/ DestroyStep
  \/ GraphStep

\* What a part must go on with: see Progress in each.
Progress ==
  \/ part = "sink" /\ Snk!Progress /\ NotSink
  \/ part = "schedule" /\ Sch!Progress /\ NotSchedule
  \/ part = "join" /\ Join!Progress /\ NotShared /\ UNCHANGED s14
  \/ part = "section" /\ Sect!Progress /\ NotShared /\ UNCHANGED s14
  \/ part = "merge" /\ Mrg!Progress /\ NotOutput
  \/ part = "limit" /\ Lim!Progress /\ NotOutput
  \/ part = "closure" /\ Clo!Progress /\ NotCycle
  \/ part = "bound" /\ Bnd!Progress /\ NotCycle
  \/ part = "poll" /\ Pol!Progress /\ NotCycle
  \/ part = "paging" /\ Pag!Progress /\ NotPaging
  \/ part = "retry" /\ Ret!Progress /\ NotRetry
  \/ part = "destroy" /\ Des!Progress /\ NotShared
  \/ part = "graph" /\ Gra!Progress /\ NotShared /\ UNCHANGED <<s12, s13, s14>>

Spec == Init /\ [][Next]_vars /\ WF_vars(Progress)

-----------------------------------------------------------------------------
\* Each row, record and page comes exactly once: a sink has written every record it
\* acknowledged before its close and none twice, a join's or a section's caller that came to a
\* clean end has every row once, no record leaves a cycle twice, and a continuation asks for
\* every page the server named, once: the first page of a continuation by URL may come again
\* (NoPageTwice in Paging).
ExactlyOnce ==
  /\ part = "sink" => Snk!DiskInOrder /\ Snk!CleanCloseKeepsEarly
  /\ part = "join" => Join!CleanEndIsComplete
  /\ part = "section" => Sect!CleanEndIsComplete
  /\ part = "closure" => Clo!EmittedOnce
  /\ part = "paging" => Pag!NoPageTwice /\ Pag!CleanEndIsTheServersEnd

\* Limits hold: a run's limit over all its outputs, a host's slots and the cap on a wait
\* between attempts, the pages fetched ahead of a reader and the one more that waits for room.
LimitsHold ==
  /\ part = "limit" => Lim!NeverOverTheLimit
  /\ part = "retry" => Ret!AdmissionHolds /\ Ret!WaitIsCapped
  /\ part = "paging" => Pag!NeverTooFarAhead

\* Objects are accounted for: what existed before a failed run is still there, an object that
\* could not be removed still has its ledger entry, with a commit still under way as the unwind
\* begins too, and the reports say so, however often a destroy was interrupted and run again and
\* whether or not the tombstone of a failed Forget was written.
NothingOrphaned ==
  /\ part = "destroy" => Des!NothingOrphaned /\ Des!ReportIsTrue /\ Des!GivenUpForAReason
  /\ part = "graph" => Gra!OnlyOwnRemoved /\ Gra!NothingOrphaned

\* An answer is whole: a merge that ends without an error has every row of its legs and a
\* limited output as many as the limit, unless the run's timeout passed, which may end either
\* early and without an error (output.go:70, against omnisdk.go:2096); a cycle has all that its
\* rounds reach and stops within the rounds its accepted termination allows, a gate fires
\* exactly once for each new choice of its arm, and a schedule runs every node, refuses exactly
\* the graphs with a cycle and fails with a node's own error.
AnswerIsWhole ==
  /\ part = "merge" => Mrg!CleanEndIsWhole
  /\ part = "limit" => Lim!ExactlyTheLimit
  /\ part = "closure" => Clo!ReachesTheClosure
  /\ part = "bound" => Bnd!ReachesTheClosure /\ Bnd!AcceptedMeansBounded
  /\ part = "poll" => Pol!OneRunPerChoice
  /\ part = "schedule" => Sch!NothingDropped /\ Sch!RejectsCycles /\ Sch!ErrorIsACause

InOrder ==
  /\ part = "sink" => Snk!ErrorSticks
  /\ part = "schedule" => Sch!AfterDependencies /\ Sch!StopsLaunching
  /\ part = "section" => Sect!FailureStartsNothing
  /\ part = "destroy" => Des!DependentsFirst
  /\ part = "graph" => Gra!LatestFirst

\* Steps keep their order: a node starts after what it depends on and none after a failure, a
\* failed section starts nothing and a failed sink takes nothing more, a failed graph is undone
\* against the order of its commits, and dependents are deleted before what they depend on, the
\* ones a pending entry speaks of apart (DependentsFirst in Destroy).
StepsInOrder == [][InOrder]_vars

Ended ==
  /\ part = "sink" => Snk!Done
  /\ part = "schedule" => Sch!Done
  /\ part = "join" => Join!Quiet
  /\ part = "section" => Sect!Quiet \/ Sect!Starved
  /\ part = "merge" => Mrg!Done
  /\ part = "limit" => Lim!Done
  /\ part = "closure" => Clo!Done
  /\ part = "bound" => Bnd!Done
  /\ part = "poll" => Pol!Done
  /\ part = "paging" => Pag!Done
  /\ part = "retry" => Ret!Done
  /\ part = "destroy" => Des!Done
  /\ part = "graph" => Gra!Done

\* Whatever fails, is refused, cancelled or left early, every part comes to its end and stays
\* there: callers return, goroutines are gone, no slot is waited for.  The exception is a
\* section behind a join that has as many rows as there are fan-out slots (Starved in
\* Pipeline): it may wait for ever, which schedule.go:126-128 means to rule out.
EverythingEnds == <>[]Ended

-----------------------------------------------------------------------------
(***************************************************************************)
(* What TLC gives the constants: small instances of the parts.             *)
(***************************************************************************)
\* One output for each leg.
OwnOutput(l) == l

\* Terminations of a cycle: bounds, and their combinations.
Leaf(op, n) == [op |-> op, n |-> n]
Comb(op, of) == [op |-> op, of |-> of]
Leaves == {Leaf("rounds", n) : n \in 0 .. 3} \cup {Leaf("records", n) : n \in {0, 2, 4}}
Bounded ==
    Leaves \cup {Comb(op, of) : op \in {"any", "all"}, of \in {s \in SUBSET Leaves : Cardinality(s) <= 2}}
           \cup {Comb(op, {Comb("any", {}), Leaf("rounds", 2)}) : op \in {"any", "all"}}
Timed == {Leaf("rounds", 9), Leaf("within", 1), Leaf("within", 0),
          Comb("all", {Leaf("within", 1), Leaf("rounds", 1)})}

\* What a cycle's members answer: over two values, and ever new ones.
Graph(m, x) == {IF m = "f" THEN {1 - x} ELSE {0, x}}
Grow(m, x) == {{x + 1}}
Edges == {<<"f", "g">>, <<"g", "f">>, <<"f", "f">>}

\* What depends on what: a chain and a key beside it.
DestroyUses == (1 :> {2}) @@ (2 :> {}) @@ (3 :> {1, 2})
GraphReads == (1 :> {}) @@ (2 :> {1}) @@ (3 :> {2}) @@ (4 :> {})
=============================================================================
