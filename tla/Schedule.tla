------------------------------ MODULE Schedule ------------------------------
(***************************************************************************)
(* internal/system_g/schedule and internal/system_g/admit: a dependency    *)
(* graph is run by one coordinator and a goroutine per node, each behind a *)
(* slot of the limiter.  The graph is any graph over Nodes; Run rejects a  *)
(* cyclic one before it starts anything.                                   *)
(***************************************************************************)
EXTENDS Integers, FiniteSets, FiniteSetTheorems

CONSTANTS
    Nodes,
    Slots           \* the semaphore's size, 0 = no limiter

VARIABLES
    deps,           \* deps[n]: what node n depends on
    indeg,          \* indeg[n]: of them, those yet to complete
    phase,          \* the coordinator: "new", "loop", "rejected", "returned"
    node,           \* node[n]: where the goroutine of n is, "none" before launch
    cancelled,      \* the context the nodes run under has ended
    byCaller,       \* ... because the caller's had
    firstErr        \* the error Run is to return: "nil", "own" or "ctx"

vars == <<deps, indeg, phase, node, cancelled, byCaller, firstErr>>

Init == /\ deps \in [Nodes -> SUBSET Nodes]
        /\ indeg = [n \in Nodes |-> Cardinality(deps[n])]
        /\ phase = "new"
        /\ node = [n \in Nodes |-> "none"]
        /\ cancelled = FALSE /\ byCaller = FALSE /\ firstErr = "nil"

Dependents(n) == {m \in Nodes : n \in deps[m]}
At(where) == {n \in Nodes : node[n] \in where}
Reporting == {"ok", "own", "ctx"}       \* done, and what to report on doneCh
Live == {"acquire", "running"} \cup Reporting

\* Kahn's: take away nodes nothing in the rest precedes until none is left
\* to take; Peel[i] is what i rounds leave.
Peel[i \in Nat] ==
    IF i = 0 THEN Nodes
    ELSE {n \in Peel[i - 1] : deps[n] \cap Peel[i - 1] # {}}

Cyclic == Peel[Cardinality(Nodes)] # {}

\* Run, up to its loop: reject, or launch every node with no dependency.
Start ==
    /\ phase = "new"
    /\ IF Cyclic
         THEN phase' = "rejected" /\ UNCHANGED node
         ELSE /\ phase' = "loop"
              /\ node' = [n \in Nodes |-> IF indeg[n] = 0 THEN "acquire" ELSE "none"]
    /\ UNCHANGED <<deps, indeg, cancelled, byCaller, firstErr>>

Holders == Cardinality(At({"running"}))

\* semaphore.Acquire: a free slot is taken even under an ended context,
\* when the select happens to choose it.
Acquire(n) ==
    /\ node[n] = "acquire" /\ (Slots = 0 \/ Holders < Slots)
    /\ node' = [node EXCEPT ![n] = "running"]
    /\ UNCHANGED <<deps, indeg, phase, cancelled, byCaller, firstErr>>

AcquireRefused(n) ==
    /\ node[n] = "acquire" /\ Slots # 0 /\ cancelled
    /\ node' = [node EXCEPT ![n] = "ctx"]
    /\ UNCHANGED <<deps, indeg, phase, cancelled, byCaller, firstErr>>

\* runOne: the node's work ends and its slot is released.  A node under an
\* ended context may still succeed, or fail for its own reason.
Finish(n, how) ==
    /\ node[n] = "running" /\ how \in Reporting
    /\ how = "ctx" => cancelled
    /\ node' = [node EXCEPT ![n] = how]
    /\ UNCHANGED <<deps, indeg, phase, cancelled, byCaller, firstErr>>

Satisfied(n) == [m \in Nodes |-> IF m \in Dependents(n) THEN indeg[m] - 1 ELSE indeg[m]]

\* The coordinator takes one result off doneCh: the first error cancels the
\* rest, and from then on it only drains.
Receive(n) ==
    /\ phase = "loop" /\ node[n] \in Reporting
    /\ firstErr' = IF node[n] # "ok" /\ firstErr = "nil" THEN node[n] ELSE firstErr
    /\ cancelled' = (cancelled \/ node[n] # "ok")
    /\ indeg' = IF node[n] = "ok" /\ firstErr = "nil" THEN Satisfied(n) ELSE indeg
    /\ node' = [m \in Nodes |->
          IF m = n THEN "done"
          ELSE IF indeg'[m] = 0 /\ indeg[m] # 0 THEN "acquire" ELSE node[m]]
    /\ UNCHANGED <<deps, phase, byCaller>>

\* Nothing is running: Run returns, and its deferred cancel runs.
Return ==
    /\ phase = "loop" /\ At(Live) = {}
    /\ phase' = "returned"
    /\ cancelled' = TRUE
    /\ UNCHANGED <<deps, indeg, node, byCaller, firstErr>>

\* The caller's context ends.
CallerCancels ==
    /\ ~cancelled /\ cancelled' = TRUE /\ byCaller' = TRUE
    /\ UNCHANGED <<deps, indeg, phase, node, firstErr>>

NodeStep(n) == Acquire(n) \/ AcquireRefused(n) \/ \E how \in Reporting : Finish(n, how)
Coordinate == Start \/ Return \/ \E n \in Nodes : Receive(n)
Next == Coordinate \/ CallerCancels \/ \E n \in Nodes : NodeStep(n)

\* What must go on: some goroutine that can take a step does, and every call
\* returns.  Nobody is obliged to fail, to cancel or to leave early.
Progress == Coordinate \/ \E n \in Nodes : NodeStep(n)

Spec == Init /\ [][Next]_vars /\ WF_vars(Progress)

(***************************************************************************)
(* Properties.                                                             *)
(***************************************************************************)
TypeOK == /\ deps \in [Nodes -> SUBSET Nodes]
          /\ indeg \in [Nodes -> 0 .. Cardinality(Nodes)]
          /\ phase \in {"new", "loop", "rejected", "returned"}
          /\ node \in [Nodes -> {"none", "done"} \cup Live]
          /\ cancelled \in BOOLEAN /\ byCaller \in BOOLEAN
          /\ firstErr \in {"nil", "own", "ctx"}

\* Run rejects exactly the graphs with a cycle: a set of nodes each of which
\* depends on another of the set.
RejectsCycles ==
    phase # "new" =>
      (phase = "rejected" <=>
         \E S \in SUBSET Nodes \ {{}} : \A n \in S : deps[n] \cap S # {})

\* A node runs only after everything it depends on has succeeded, and each
\* at most once, whatever order the results arrive in.
AfterDependencies ==
    \A n \in Nodes : node[n] # node'[n] =>
       /\ node'[n] = "acquire" =>
             node[n] = "none" /\ \A d \in deps[n] : node[d] \in {"ok", "done"} /\ indeg'[n] = 0
       /\ node'[n] = "running" => node[n] = "acquire"

\* On an error nothing more is launched.
StopsLaunching ==
    firstErr # "nil" => \A n \in Nodes : node[n] = "none" => node'[n] = "none"

\* "No silent drops": a run that returns without an error has run every
\* node, and one that returns has left no goroutine behind.
NothingDropped == phase = "returned" =>
    /\ At(Live) = {}
    /\ firstErr = "nil" => \A n \in Nodes : node[n] = "done"

\* The error Run returns is a node's own, not one its own cancellation
\* caused in another node, unless the caller cancelled.
ErrorIsACause == firstErr = "ctx" => byCaller

\* Run has returned.
Done == phase \in {"rejected", "returned"}
-----------------------------------------------------------------------------
(***************************************************************************)
(* The schedule for any finite graph and any number of slots.  A count     *)
(* that reaches zero launches its node, so all hangs on what the counts    *)
(* stand for; after an error they stand for nothing, and none moves.       *)
(***************************************************************************)
Instance == IsFiniteSet(Nodes)

\* While nothing has failed, a node's count is of what it still waits for.
Waits(n) == {d \in deps[n] : node[d] # "done"}
Counted == firstErr = "nil" => \A n \in Nodes : indeg[n] = Cardinality(Waits(n))

\* What has been launched is what had nothing to wait for.
Launched ==
    /\ phase \in {"new", "rejected"} => firstErr = "nil" /\ \A n \in Nodes : node[n] = "none"
    /\ phase \in {"loop", "returned"} /\ firstErr = "nil" =>
          \A n \in Nodes : node[n] = "none" <=> indeg[n] # 0

\* Why the context has ended.
Causes == /\ \A n \in Nodes : node[n] = "ctx" => cancelled
          /\ cancelled => byCaller \/ firstErr # "nil" \/ phase = "returned"
          /\ firstErr = "ctx" => byCaller

Left == phase = "returned" => At(Live) = {}

IInv == TypeOK /\ Counted /\ Launched /\ Causes /\ Left
=============================================================================
