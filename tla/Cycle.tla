------------------------------- MODULE Cycle -------------------------------
(***************************************************************************)
(* internal/system_g/plan/cycle.go, internal/system_g/scc and              *)
(* internal/system_g/termination: a cycle of a plan, run for one upstream  *)
(* row.  Members that a value from outside can start run on the row; then  *)
(* each round sends every new record along the cycle's own edges, its      *)
(* invocations side by side, until a round derives nothing new or the      *)
(* termination policy, asked before each round, stops it.                  *)
(*                                                                         *)
(* A record is the member that produced it and the row it carries: what    *)
(* each member that ran on the way last gave, the arm chosen for a branch. *)
(* Two records are the same when all of that is (recordKey).  A            *)
(* termination spec is a record: "rounds" and "records" have a bound n,    *)
(* "within" a duration n, "any" and "all" a set of specs.                  *)
(***************************************************************************)
EXTENDS Integers, Sequences, FiniteSets, FiniteSetsExt, TLC

CONSTANTS
    Members,
    Betas,              \* value edges within the cycle
    Outside,            \* members whose inputs can come from outside it
    Gates,              \* <<branch, arm, member>>: gates from a branch in it
    Row,                \* the value the upstream row brings
    Responses(_, _),    \* Responses(m, x): the sets of values m may answer x with
    Specs,              \* the terminations a plan may give the cycle
    MayFail             \* whether requests fail and the reader leaves

VARIABLES
    spec,               \* the termination this cycle was planned with
    phase,              \* "plan", "emit", "check", "round", "ended"
    seen, frontier,     \* records reached; those of the last round
    fresh,              \* records of this round yet to be emitted
    pending,            \* this round's invocations under way
    derived, failed,    \* what they gave; whether one has failed
    iterations,         \* rounds begun
    emitted,            \* records sent outward
    runs,               \* runs[m]: times the gated member m ran
    expired,            \* the deadline has passed
    reason              \* "running", "fixpoint", "terminated", "refused",
                        \* "error" or "closed"

vars == <<spec, phase, seen, frontier, fresh, pending, derived, failed,
          iterations, emitted, runs, expired, reason>>

Branches == {g[1] : g \in Gates}
Gated == {g[3] : g \in Gates}
Feeds == Betas \cup {<<g[1], g[3]>> : g \in Gates}

\* An entry: all of its inputs can be had from outside.  A gate from within
\* the cycle is no obstacle.
Startable(m) == m \in Outside \/ \A e \in Betas : e[2] # m
Entries == {m \in Members : Startable(m)}

(***************************************************************************)
(* Termination.                                                            *)
(***************************************************************************)
\* cycleSpec: the first bound reached of its members' wins.
CycleSpec == [op |-> "any", of |-> {spec}]

\* The specs a plan may give a cycle and the ones within them.
Nesting == 2    \* bound: how deep a plan nests combinations
Within[k \in Nat] ==
    IF k = 0 THEN {[op |-> "any", of |-> {s}] : s \in Specs}
    ELSE Within[k - 1] \cup UNION {s.of : s \in {s \in Within[k - 1] : s.op \in {"any", "all"}}}
Terminations == Within[Nesting + 1]

WellFounded[s \in Terminations] ==
    CASE s.op = "any" -> \E x \in s.of : WellFounded[x]
      [] s.op = "all" -> s.of # {} /\ \A x \in s.of : WellFounded[x]
      [] OTHER -> s.n >= 1

\* The policy of s asked for its progress; an alternative that bounds
\* nothing is left out of any's policy and kept in all's.
Stop[s \in Terminations] ==
    CASE s.op = "rounds" -> iterations >= s.n
      [] s.op = "records" -> Len(emitted) >= s.n
      [] s.op = "within" -> s.n <= 0 \/ expired
      [] s.op = "any" -> \E x \in s.of : WellFounded[x] /\ Stop[x]
      [] s.op = "all" -> s.of # {} /\ \A x \in s.of : Stop[x]

\* A choice fires the run it caused and no other; the first run of an entry
\* waits for none.
Fired(m, base, from) ==
    \/ m \notin Gated
    \/ from = ""
    \/ \E g \in Gates : g[3] = m /\ from = g[1] /\ base.row[g[1]] = g[2]

\* The input of m: the edge that caused the run, or the value from outside.
Value(m, base, from) == IF <<from, m>> \in Betas THEN base.row[from] ELSE Row

\* What m gives on base, for one answer of its exchange: the row with its output merged
\* in.  A branch makes no request; its output is the arm it chooses.
Invoke(m, base, from, answer) ==
    IF ~Fired(m, base, from) THEN {}
    ELSE {[m |-> m, row |-> (m :> x) @@ base.row] : x \in answer}

\* The gated members among ms have run once more.
Ran(ms) == runs' = [m \in Gated |-> runs[m] + IF m \in ms THEN 1 ELSE 0]

Upstream == [m |-> "", row |-> << >>]

Init ==
    /\ spec \in Specs /\ phase = "plan"
    /\ seen = {} /\ frontier = {} /\ fresh = {} /\ pending = {}
    /\ derived = {} /\ failed = FALSE /\ iterations = 0 /\ emitted = << >>
    /\ runs = [m \in Gated |-> 0]
    /\ expired = FALSE /\ reason = "running"

End(why) == phase' = "ended" /\ reason' = why

\* composePipeline: a cycle that need not stop, or that nothing can start, is
\* refused before any of it runs.
Refuse ==
    /\ phase = "plan"
    /\ ~WellFounded[CycleSpec] \/ Entries = {}
    /\ End("refused")
    /\ UNCHANGED <<spec, seen, frontier, fresh, pending, derived, failed, iterations, emitted, runs, expired>>

\* loop: the entries run on the row, and what they give is the seed.
Seed ==
    /\ phase = "plan" /\ WellFounded[CycleSpec] /\ Entries # {}
    /\ \E answer \in [Entries -> UNION {Responses(m, Row) : m \in Entries}] :
         /\ \A m \in Entries : answer[m] \in Responses(m, Row)
         /\ fresh' = UNION {Invoke(m, Upstream, "", answer[m]) : m \in Entries}
    /\ seen' = fresh' /\ frontier' = fresh'
    /\ phase' = "emit" /\ Ran(Entries)
    /\ UNCHANGED <<spec, pending, derived, failed, iterations, emitted, expired, reason>>

SeedFails ==
    /\ MayFail /\ phase = "plan" /\ WellFounded[CycleSpec] /\ Entries # {}
    /\ End("error")
    /\ UNCHANGED <<spec, seen, frontier, fresh, pending, derived, failed, iterations, emitted, runs, expired>>

\* The new records leave one by one, in the order their invocations ended.
Emit(r) ==
    /\ phase = "emit" /\ r \in fresh
    /\ emitted' = Append(emitted, r)
    /\ fresh' = fresh \ {r}
    /\ UNCHANGED <<spec, phase, seen, frontier, pending, derived, failed, iterations, runs, expired, reason>>

\* The reader has gone: a clean stop.
Closed ==
    /\ MayFail /\ phase = "emit" /\ fresh # {}
    /\ End("closed")
    /\ UNCHANGED <<spec, seen, frontier, fresh, pending, derived, failed, iterations, emitted, runs, expired>>

\* The entries gave nothing: the row passes through, or is dropped, as the
\* first entry's flatten decides.
Empty ==
    /\ phase = "emit" /\ fresh = {} /\ frontier = {}
    /\ End("fixpoint")
    /\ emitted' \in {<< >>, <<Upstream>>}
    /\ UNCHANGED <<spec, seen, frontier, fresh, pending, derived, failed, iterations, runs, expired>>

\* The head of the loop: the policy stops it, or another round begins.
Check ==
    /\ phase = "emit" /\ fresh = {} /\ frontier # {}
    /\ IF Stop[CycleSpec] THEN End("terminated") /\ UNCHANGED <<pending, iterations>>
       ELSE /\ phase' = "round" /\ UNCHANGED reason
            /\ iterations' = iterations + 1
            /\ pending' = {x \in [base : frontier, to : Members] : <<x.base.m, x.to>> \in Feeds}
    /\ derived' = {} /\ failed' = FALSE
    /\ UNCHANGED <<spec, seen, frontier, fresh, emitted, runs, expired>>

\* One invocation of the round returns.
Return(p) ==
    /\ phase = "round" /\ p \in pending
    /\ \E answer \in Responses(p.to, Value(p.to, p.base, p.base.m)) :
         derived' = derived \cup Invoke(p.to, p.base, p.base.m, answer)
    /\ pending' = pending \ {p}
    /\ Ran(IF Fired(p.to, p.base, p.base.m) THEN {p.to} ELSE {})
    /\ UNCHANGED <<spec, phase, seen, frontier, fresh, failed, iterations, emitted, expired, reason>>

ReturnsError(p) ==
    /\ MayFail /\ phase = "round" /\ p \in pending
    /\ failed' = TRUE /\ pending' = pending \ {p}
    /\ Ran(IF Fired(p.to, p.base, p.base.m) THEN {p.to} ELSE {})
    /\ UNCHANGED <<spec, phase, seen, frontier, fresh, derived, iterations, emitted, expired, reason>>

\* The round is over: an error, a fixpoint, or a new frontier.
RoundEnds ==
    /\ phase = "round" /\ pending = {}
    /\ IF failed THEN End("error") /\ UNCHANGED <<seen, frontier, fresh>>
       ELSE IF derived \subseteq seen THEN End("fixpoint") /\ UNCHANGED <<seen, frontier, fresh>>
       ELSE /\ phase' = "emit" /\ UNCHANGED reason
            /\ fresh' = derived \ seen /\ frontier' = derived \ seen
            /\ seen' = seen \cup derived
    /\ UNCHANGED <<spec, pending, derived, failed, iterations, emitted, runs, expired>>

\* The deadline of a "within" passes.
Expire ==
    /\ ~expired /\ phase # "ended" /\ expired' = TRUE
    /\ UNCHANGED <<spec, phase, seen, frontier, fresh, pending, derived, failed, iterations, emitted, runs, reason>>

Returns == \E p \in pending : Return(p)
Step == Refuse \/ Seed \/ (\E r \in fresh : Emit(r)) \/ Empty \/ Check \/ Returns \/ RoundEnds

Next == Step \/ SeedFails \/ Closed \/ (\E p \in pending : ReturnsError(p)) \/ Expire

\* Every goroutine of the cycle runs on, requests answer, and time passes.
\* What must go on: some goroutine that can take a step does, and every call
\* returns.  Nobody is obliged to fail, to cancel or to leave early.
\* Time passes.
Progress == Step \/ Expire

Spec == Init /\ [][Next]_vars /\ WF_vars(Progress)

-----------------------------------------------------------------------------
(***************************************************************************)
(* What is right.                                                          *)
(***************************************************************************)
\* A record leaves the cycle at most once, however many paths reach it.
EmittedOnce == IsInjective(emitted)

\* Reached[k]: records derivable in at most k rounds when every exchange has
\* one answer, the reference the evaluation is measured against.
Answer(m, x) == CHOOSE a \in Responses(m, x) : TRUE
Reached[k \in Nat] ==
    IF k = 0 THEN UNION {Invoke(m, Upstream, "", Answer(m, Row)) : m \in Entries}
    ELSE Reached[k - 1] \cup
         UNION {UNION {Invoke(e[2], r, r.m, Answer(e[2], Value(e[2], r, r.m)))
                       : e \in {e \in Feeds : e[1] = r.m}} : r \in Reached[k - 1]}

\* Semi-naive evaluation loses nothing: a cycle that ends at its fixpoint has
\* emitted all that is reachable, and one stopped after k rounds exactly what
\* k rounds reach.
ReachesTheClosure ==
    /\ reason = "terminated" => Range(emitted) = Reached[iterations]
    /\ reason = "fixpoint" => Range(emitted) = Reached[Cardinality(seen)]

\* The rounds a spec without durations allows: each round that goes on adds a
\* record, so a bound on records is one on rounds.
Bound[s \in Terminations] ==
    CASE s.op \in {"rounds", "records"} -> s.n
      [] s.op = "any" -> Min({Bound[x] : x \in {x \in s.of : WellFounded[x]}} \cup (IF s.of = {} THEN {0} ELSE {}))
      [] s.op = "all" -> Max({Bound[x] : x \in s.of})

\* A termination that is accepted bounds the loop, whatever new records its
\* exchanges go on finding (WellFounded, Stop).
AcceptedMeansBounded == phase \notin {"plan", "ended"} => iterations <= Bound[CycleSpec]

\* The cycle has ended: at its fixpoint, at its bound, or with an error.
Done == phase = "ended"

\* The choices of g's arm that have left the cycle, those of the last round aside until it
\* has been followed up.
Chosen(g) ==
    {i \in DOMAIN emitted :
        /\ emitted[i].m = g[1] /\ emitted[i].row[g[1]] = g[2]
        /\ reason = "fixpoint" \/ emitted[i] \notin frontier}

\* A gated member runs once for the row and exactly once for each choice of its arm: a
\* choice carried on in the row fires nothing later, and none is left without its run
\* unless the termination stopped the cycle.  A choice made again on a row that is the
\* same to the last column is not a new record (scc.go:164) and no choice here, so a poll
\* answered twice alike ends pending, where developer_guide.md:616 has the loop exit
\* through its branch.
OneRunPerChoice ==
    (phase = "emit" /\ fresh = {}) \/ reason \in {"fixpoint", "terminated"} =>
        \A m \in Gated : runs[m] = 1 + Cardinality(UNION {Chosen(g) : g \in {g \in Gates : g[3] = m}})

(***************************************************************************)
(* Why a record leaves once, whatever the members answer: what has left    *)
(* was reached and is not waiting to leave. The proof is in RuntimeProofs. *)
(***************************************************************************)
Emitted == {Upstream} \cup seen

Sound == /\ emitted \in Seq(Emitted)
         /\ fresh \subseteq seen
         /\ phase = "round" => fresh = {}
         /\ phase = "plan" => emitted = << >>
Left == phase # "ended" => \A i \in 1 .. Len(emitted) : emitted[i] \in seen /\ emitted[i] \notin fresh
Once == \A i, j \in 1 .. Len(emitted) : emitted[i] = emitted[j] => i = j
IInv == Sound /\ Left /\ Once
=============================================================================
