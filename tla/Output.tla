------------------------------- MODULE Output -------------------------------
(***************************************************************************)
(* internal/system_g/plan/output.go and merge.go, internal/system_g/abort  *)
(* and the public cursor of pkg/omnisdk: how the rows of a run's legs      *)
(* reach its caller.                                                       *)
(*                                                                         *)
(* Each output merges its legs into one buffer and drains it: a row takes  *)
(* a place of the budget all outputs share, is handed to the sink, and the *)
(* last place aborts the run.  A row output (RowSink) appends to the       *)
(* buffer its caller reads; a byte output encodes to a writer.  The abort, *)
(* a timeout and Close all end the one context the run is under.           *)
(***************************************************************************)
EXTENDS Integers, FiniteSets, FiniteSetTheorems

CONSTANTS
    Outputs,        \* the terminals; one, unless they write bytes
    Legs,           \* the plans merged
    LegOf(_),       \* LegOf(l): the output leg l feeds
    PerLeg,         \* rows a leg has
    Limit,          \* the result budget, 0 = none
    RowSink,        \* whether outputs append to a cursor's buffer
    MayFail,        \* whether legs fail
    MayTimeOut      \* whether the run has a timeout

VARIABLES
    left,           \* left[l]: rows leg l has yet to emit
    leg,            \* leg[l]: "run" or "done"
    merged, mend,   \* merged[o]: rows in the merge's buffer; mend[o]: its end
    firstErr,       \* firstErr[o]: the merge's first error
    ctx,            \* the run's context: "live", "canceled", "deadline"
    taken,          \* places of the budget taken
    term,           \* term[o]: the terminal: "pull", "sink", "last", "done"
    delivered,      \* rows handed to the sink
    end,            \* end[o]: how the output completed
    caller          \* "reading", then "eof", "failed" or "closed"

vars == <<left, leg, merged, mend, firstErr, ctx, taken, term, delivered, end, caller>>

Init == /\ left = [l \in Legs |-> PerLeg]
        /\ leg = [l \in Legs |-> "run"]
        /\ merged = [o \in Outputs |-> 0]
        /\ mend = [o \in Outputs |-> "open"]
        /\ firstErr = [o \in Outputs |-> "nil"]
        /\ ctx = "live" /\ taken = 0
        /\ term = [o \in Outputs |-> "pull"]
        /\ delivered = 0
        /\ end = [o \in Outputs |-> "open"]
        /\ caller = "reading"

terminal == <<taken, term, delivered, end, caller>>

\* The merge's own context ends with the run's, or at the first error.
MergeEnded(o) == ctx # "live" \/ firstErr[o] # "nil"
\* Mutant of Note: the last error of a leg is kept, not the first.
Note_Last(o, err) == firstErr' = [firstErr EXCEPT ![o] = err]
Note(o, err) == firstErr' = [firstErr EXCEPT ![o] = IF @ = "nil" THEN err ELSE @]

LegEmits(l) ==
    /\ leg[l] = "run" /\ left[l] > 0 /\ ~MergeEnded(LegOf(l))
    /\ left' = [left EXCEPT ![l] = @ - 1]
    /\ merged' = [merged EXCEPT ![LegOf(l)] = @ + 1]
    /\ UNCHANGED <<leg, mend, firstErr, ctx>> /\ UNCHANGED terminal

LegEnds(l) ==
    /\ leg[l] = "run" /\ left[l] = 0
    /\ leg' = [leg EXCEPT ![l] = "done"]
    /\ UNCHANGED <<left, merged, mend, firstErr, ctx>> /\ UNCHANGED terminal

LegFails(l) ==
    /\ leg[l] = "run" /\ MayFail
    /\ leg' = [leg EXCEPT ![l] = "done"]
    /\ Note(LegOf(l), "own")
    /\ UNCHANGED <<left, merged, mend, ctx>> /\ UNCHANGED terminal

\* A leg sees the context end.  Next returns false; what Err then says
\* depends on whether the leg's own producer has completed by then.
LegStops(l) ==
    /\ leg[l] = "run" /\ MergeEnded(LegOf(l))
    /\ leg' = [leg EXCEPT ![l] = "done"]
    /\ \E err \in {"nil", IF ctx = "deadline" THEN "deadline" ELSE "canceled"} :
          Note(LegOf(l), err)
    /\ UNCHANGED <<left, merged, mend, ctx>> /\ UNCHANGED terminal

MergeCompletes(o) ==
    /\ mend[o] = "open" /\ \A l \in Legs : LegOf(l) = o => leg[l] = "done"
    /\ mend' = [mend EXCEPT ![o] = firstErr[o]]
    /\ UNCHANGED <<left, leg, merged, firstErr, ctx>> /\ UNCHANGED terminal

Finish(o, err) == /\ term' = [term EXCEPT ![o] = "done"]
                  /\ end' = [end EXCEPT ![o] = err]

\* Budget.Take: one atomic addition.
Take == [ok |-> taken + 1 <= Limit, last |-> taken + 1 = Limit]

Abort == ctx' = IF ctx = "live" THEN "canceled" ELSE ctx

\* drainEgress takes a row and a place for it; a budget another output has
\* spent ends this one.
TerminalTakes(o) ==
    /\ term[o] = "pull" /\ ctx = "live" /\ merged[o] > 0
    /\ merged' = [merged EXCEPT ![o] = @ - 1]
    /\ IF Limit = 0 THEN term' = [term EXCEPT ![o] = "sink"] /\ UNCHANGED <<taken, ctx, end>>
       ELSE /\ taken' = taken + 1
            /\ IF Take.ok
                 THEN /\ term' = [term EXCEPT ![o] = IF Take.last THEN "last" ELSE "sink"]
                      /\ UNCHANGED <<ctx, end>>
                 ELSE Finish(o, "nil") /\ Abort
    /\ UNCHANGED <<left, leg, mend, firstErr, delivered, caller>>

\* The row goes to the sink.  Appending to the cursor's buffer fails when
\* the context has ended; a cursor closed by its caller is a clean stop.
TerminalSinks(o) ==
    /\ term[o] \in {"sink", "last"}
    /\ IF RowSink /\ ctx # "live"
         THEN /\ Finish(o, IF caller = "closed" THEN "nil" ELSE ctx)
              /\ UNCHANGED <<ctx, delivered>>
         ELSE /\ delivered' = delivered + 1
              /\ IF term[o] = "last" THEN Finish(o, "nil") /\ Abort
                 ELSE term' = [term EXCEPT ![o] = "pull"] /\ UNCHANGED <<ctx, end>>
    /\ UNCHANGED <<left, leg, merged, mend, firstErr, taken, caller>>

\* The merge's cursor has no more: at its end, or because the context ended,
\* when Err is that of a merge which may not have completed.
TerminalEnds(o) ==
    /\ term[o] = "pull"
    /\ ctx # "live" \/ (merged[o] = 0 /\ mend[o] # "open")
    /\ Finish(o, IF mend[o] = "open" THEN "nil" ELSE mend[o])
    /\ UNCHANGED <<left, leg, merged, mend, firstErr, ctx, taken, delivered, caller>>

\* The caller reads to the end.  The cursor's Err takes a cancelled context
\* for an intended stop.
CallerEnds ==
    /\ caller = "reading" /\ \A o \in Outputs : end[o] # "open"
    /\ caller' = IF \E o \in Outputs : end[o] \in {"own", "deadline"} THEN "failed" ELSE "eof"
    /\ UNCHANGED <<left, leg, merged, mend, firstErr, ctx, taken, term, delivered, end>>

CallerCloses ==
    /\ caller = "reading" /\ MayFail
    /\ caller' = "closed" /\ Abort
    /\ UNCHANGED <<left, leg, merged, mend, firstErr, taken, term, delivered, end>>

TimesOut == /\ MayTimeOut /\ ctx = "live" /\ ctx' = "deadline"
            /\ UNCHANGED <<left, leg, merged, mend, firstErr>> /\ UNCHANGED terminal

LegStep(l) == LegEmits(l) \/ LegEnds(l) \/ LegStops(l)
TerminalStep(o) == TerminalTakes(o) \/ TerminalSinks(o) \/ TerminalEnds(o)
Next == \/ \E l \in Legs : LegStep(l) \/ LegFails(l)
        \/ \E o \in Outputs : MergeCompletes(o) \/ TerminalStep(o)
        \/ CallerEnds \/ CallerCloses \/ TimesOut

\* What must go on: some goroutine that can take a step does, and every call
\* returns.  Nobody is obliged to fail, to cancel or to leave early.
Progress == \/ \E l \in Legs : LegStep(l)
            \/ \E o \in Outputs : MergeCompletes(o) \/ TerminalStep(o)
            \/ CallerEnds

Spec == Init /\ [][Next]_vars /\ WF_vars(Progress)

(***************************************************************************)
(* Properties.                                                             *)
(***************************************************************************)
Rows == PerLeg * Cardinality(Legs)
Errors == {"nil", "own", "canceled", "deadline"}

TypeOK == /\ left \in [Legs -> 0 .. PerLeg] /\ leg \in [Legs -> {"run", "done"}]
          /\ merged \in [Outputs -> 0 .. Rows]
          /\ mend \in [Outputs -> Errors \cup {"open"}]
          /\ firstErr \in [Outputs -> Errors]
          /\ ctx \in {"live", "canceled", "deadline"}
          /\ taken \in 0 .. Limit + Cardinality(Outputs)
          /\ term \in [Outputs -> {"pull", "sink", "last", "done"}]
          /\ delivered \in 0 .. Rows
          /\ end \in [Outputs -> Errors \cup {"open"}]
          /\ caller \in {"reading", "eof", "failed", "closed"}

\* However outputs overlap, none delivers a row the budget has no place for.
NeverOverTheLimit == Limit > 0 => delivered <= Limit

\* The run's timeout passed: drainEgress returns the Err of a cursor whose producer may
\* not have completed, nil (output.go:70), and the rows end early without an error, where
\* omnisdk.go:2096-2097 takes only an abort, a limit and Close for no error.
TimedOut == ctx = "deadline"

\* "Exactly N records are emitted across the whole query however many
\* disjoint outputs run": never more, and a run that ended well, in time, has
\* all it was asked for.
ExactlyTheLimit ==
    /\ NeverOverTheLimit
    /\ caller = "eof" /\ ~TimedOut /\ Limit > 0 /\ Limit <= Rows
          /\ (\A o \in Outputs : firstErr[o] \in {"nil", "canceled"}) => delivered = Limit

\* "Err reports a genuine failure": a cursor that ends with no error has
\* every row, or as many as the limit asks for, however its legs failed
\* ("the first leg to fail fails the whole"), unless the run timed out.
CleanEndIsWhole ==
    caller = "eof" /\ ~TimedOut => delivered = IF Limit = 0 \/ Rows < Limit THEN Rows ELSE Limit

\* The run has ended for its caller and left no leg running.
Done == caller # "reading" /\ \A l \in Legs : leg[l] = "done"

(***************************************************************************)
(* Why a limit is never passed, for any outputs: each row in hand or       *)
(* delivered has its own place of the budget. The proof is in              *)
(* RuntimeProofs.                                                          *)
(***************************************************************************)
Instance == IsFiniteSet(Outputs) /\ Limit \in Nat

\* Outputs with a row in hand, for which they have a place.
Carrying == {o \in Outputs : term[o] \in {"sink", "last"}}

\* Rows delivered and in hand have a place each, of those the budget has.
Budgeted == Limit > 0 => /\ delivered + Cardinality(Carrying) <= taken
                         /\ delivered + Cardinality(Carrying) <= Limit

Terminals == /\ taken \in Nat /\ delivered \in Nat
             /\ term \in [Outputs -> {"pull", "sink", "last", "done"}]

IInv == Terminals /\ Budgeted
=============================================================================
