------------------------------- MODULE Retry -------------------------------
(***************************************************************************)
(* internal/system_g/retry and op.send of internal/system_g/httpx: the     *)
(* requests of a run share one retry policy, whose governor reserves a     *)
(* place for each retry, and one admission semaphore per host, a slot of   *)
(* which a request holds across all of its attempts.                       *)
(*                                                                         *)
(* Time is counted in the governor's intervals, from now on.  An attempt   *)
(* ends well, or in a transient failure (a transport error, 429, 502, 503, *)
(* 504, with or without a Retry-After), or in a permanent one (any other   *)
(* status, a deadline, a cancellation).                                    *)
(***************************************************************************)
EXTENDS Integers, FiniteSets, FiniteSetsExt, FiniteSetTheorems

CONSTANTS
    Requests,
    Tries,          \* attempts a request may make
    Burst,          \* the governor's burst, in intervals
    Slots,          \* slots of the host's admission
    Delays,         \* what the backoff may draw
    RetryAfters     \* what a server may ask for, 0 = nothing

VARIABLES
    ahead,          \* the governor's next, counted from now
    state,          \* state[r]: "idle", "acquire", "send", "wait", "ok", "failed"
    index,          \* index[r]: the attempt it is at
    wait,           \* wait[r]: how long it has yet to wait
    held            \* slots taken

vars == <<ahead, state, index, wait, held>>

Init == /\ ahead = 0 /\ held = 0
        /\ state = [r \in Requests |-> "idle"]
        /\ index = [r \in Requests |-> 0]
        /\ wait = [r \in Requests |-> 0]

Begin(r) ==
    /\ state[r] = "idle"
    /\ state' = [state EXCEPT ![r] = "acquire"]
    /\ UNCHANGED <<ahead, index, wait, held>>

Acquire(r) ==
    /\ state[r] = "acquire" /\ held < Slots
    /\ held' = held + 1
    /\ state' = [state EXCEPT ![r] = "send"]
    /\ UNCHANGED <<ahead, index, wait>>

\* send returns, and its deferred Release runs.
Leave(r, how) == state' = [state EXCEPT ![r] = how] /\ held' = held - 1

Succeeds(r) ==
    /\ state[r] = "send" /\ Leave(r, "ok")
    /\ UNCHANGED <<ahead, index, wait>>

\* A permanent failure, or the last attempt's: Recover declines.
GivesUp(r) ==
    /\ state[r] = "send" /\ Leave(r, "failed")
    /\ UNCHANGED <<ahead, index, wait>>

\* Mutant of Wait: a caller waits for its place however far it is.
Wait_Uncapped == ahead

\* rateGovernor.Reserve: a place on the moving schedule, the wait for it
\* never longer than the burst.
Wait == IF ahead > Burst THEN Burst ELSE ahead

\* A transient failure with attempts left: the governor's wait, and the
\* server's hint or else the backoff's delay.
Recover(r, delay, after) ==
    /\ state[r] = "send" /\ index[r] + 1 < Tries
    /\ ahead' = ahead + 1
    /\ wait' = [wait EXCEPT ![r] = Wait + (IF after > 0 THEN after ELSE delay)]
    /\ index' = [index EXCEPT ![r] = @ + 1]
    /\ state' = [state EXCEPT ![r] = "wait"]
    /\ UNCHANGED held

Fire(r) ==
    /\ state[r] = "wait" /\ wait[r] = 0
    /\ state' = [state EXCEPT ![r] = "send"]
    /\ UNCHANGED <<ahead, index, wait, held>>

\* The context ends while the request waits for its slot or its turn.
Cancelled(r) ==
    /\ \/ state[r] = "wait" /\ Leave(r, "failed")
       \/ state[r] = "acquire" /\ state' = [state EXCEPT ![r] = "failed"] /\ UNCHANGED held
    /\ UNCHANGED <<ahead, index, wait>>

Less(n) == IF n > 0 THEN n - 1 ELSE 0

\* An interval passes.
Tick == /\ ahead' = Less(ahead)
        /\ wait' = [r \in Requests |-> Less(wait[r])]
        /\ UNCHANGED <<state, index, held>>

Retries(r) == \E d \in Delays, a \in RetryAfters : Recover(r, d, a)
Answered(r) == Succeeds(r) \/ GivesUp(r) \/ Retries(r)
Moves(r) == Begin(r) \/ Acquire(r) \/ Fire(r) \/ Answered(r)

Next == (\E r \in Requests : Moves(r) \/ Cancelled(r)) \/ Tick

\* What must go on: some request that can take a step does, every attempt is
\* answered (the request timeout sees to it) and time passes.
Progress == (\E r \in Requests : Moves(r)) \/ Tick

Spec == Init /\ [][Next]_vars /\ WF_vars(Progress)

-----------------------------------------------------------------------------
Holding == {r \in Requests : state[r] \in {"send", "wait"}}

\* The host sees at most as many requests as it admits, those between two
\* attempts included: whoever ends, however it ends, gives back one slot.
AdmissionHolds == held = Cardinality(Holding) /\ held <= Slots

\* Every request has ended: attempts are bounded and no waiter is passed by.
Done == \A r \in Requests : state[r] \in {"ok", "failed"}

\* However many requests fail at once, none is asked to wait longer than the
\* burst and its own delay (Reserve's cap).
WaitIsCapped ==
    \A r \in Requests : state[r] = "wait" => wait[r] <= Burst + Max(Delays \cup RetryAfters)

(***************************************************************************)
(* Why limits hold, for any requests, slots and delays: a request holds a  *)
(* slot exactly while it is sending or between two attempts, and a wait is *)
(* capped when it is set. The proof is in RuntimeProofs.                   *)
(***************************************************************************)
Instance ==
    /\ IsFiniteSet(Requests)
    /\ Slots \in Nat /\ Burst \in Nat
    /\ Delays \subseteq Nat /\ RetryAfters \subseteq Nat
    /\ \E m \in Delays \cup RetryAfters : \A d \in Delays \cup RetryAfters : d <= m

States == {"idle", "acquire", "send", "wait", "ok", "failed"}
TypeOK ==
    /\ ahead \in Nat /\ held \in Nat
    /\ state \in [Requests -> States]
    /\ wait \in [Requests -> Nat]

Longest == Max(Delays \cup RetryAfters)

Capped == \A r \in Requests : wait[r] <= Burst + Longest

IInv == TypeOK /\ AdmissionHolds /\ Capped
=============================================================================
