------------------------------ MODULE GraphRun ------------------------------
(***************************************************************************)
(* pkg/omnisdk/managed.go, ConvergeGraph: a run of a hand-written graph    *)
(* over a collection.  Its mutation nodes run side by side, a node after   *)
(* those it reads from; each records its intent, sends its request and     *)
(* commits what landed, which adds it to the effects applied.  A run that  *)
(* fails compensates: the creates applied, latest first, in passes until a *)
(* pass removes nothing; the rest it reports.                              *)
(*                                                                         *)
(* A node's row goes on as soon as the answer is in; its commit is the     *)
(* next thing its own goroutine does.  So what reads from a node may start,*)
(* commit and fail before that commit, and a failed run compensates        *)
(* without waiting for it.                                                 *)
(*                                                                         *)
(* The lease, the journal's records and the recall, read and diff before a *)
(* mutation are module Converge's.  One node per key.                      *)
(***************************************************************************)
EXTENDS Integers, Sequences, SequencesExt, FiniteSets, FiniteSetTheorems, TLAPS

CONSTANTS
    Keys,
    Reads,          \* Reads[k]: the keys whose node k's node reads from
    Creates,        \* keys whose node is a create; the others' objects exist
    Addressable     \* keys whose resource declares what addresses its object

VARIABLES
    node,           \* node[k]: "idle", "begun", "sent", "landed", "answered",
                    \* "committed", "failed", or "unrecorded" where the commit failed
    entry,          \* entry[k]: the ledger's "Gone", "Pending" or "Live"
    object,         \* keys whose object exists
    applied,        \* run.applied: keys in the order they committed
    phase,          \* "running", "undo" or "done"
    pending,        \* compensate: what it took of applied, latest first
    todo, next, progress,   \* the pass, what it left over
    done, left      \* the keys reported compensated, and completed

vars == <<node, entry, object, applied, phase, pending, todo, next, progress, done, left>>
undoing == <<pending, todo, next, progress, done, left>>

Init ==
    /\ node = [k \in Keys |-> "idle"]
    /\ entry = [k \in Keys |-> IF k \in Creates THEN "Gone" ELSE "Live"]
    /\ object = Keys \ Creates
    /\ applied = << >> /\ phase = "running" /\ pending = << >>
    /\ todo = << >> /\ next = << >> /\ progress = FALSE /\ done = << >> /\ left = << >>

Failed == \E k \in Keys : node[k] \in {"failed", "unrecorded"}
Move(k, to) == node' = [node EXCEPT ![k] = to]

\* The rows k's node takes its inputs from have come: the join sends a row on
\* when it has it, before the effect that answered with it is committed.
Ready(k) == \A d \in Reads[k] : node[d] \in {"answered", "committed", "unrecorded"}

\* open: Begin, then the journal.  A goroutine that has its slot looks at
\* nothing else first, a failure elsewhere included.
Begin(k) ==
    /\ phase = "running" /\ node[k] = "idle" /\ Ready(k)
    /\ entry' = [entry EXCEPT ![k] = "Pending"] /\ Move(k, "begun")
    /\ UNCHANGED <<object, applied, phase, undoing>>

\* Recording the intent fails, in the ledger or in the journal after it.
NotAttempted(k) ==
    /\ phase = "running" /\ node[k] \in {"idle", "begun"} /\ Ready(k)
    /\ Move(k, "failed")
    /\ UNCHANGED <<entry, object, applied, phase, undoing>>

Send(k) == /\ phase = "running" /\ node[k] = "begun" /\ Move(k, "sent")
           /\ UNCHANGED <<entry, object, applied, phase, undoing>>

Land(k) == /\ node[k] = "sent" /\ object' = object \cup {k} /\ Move(k, "landed")
           /\ UNCHANGED <<entry, applied, phase, undoing>>

\* A refusal withdraws the intent of a create, where the ledger lets it.
Refuse(k) == /\ node[k] = "sent" /\ Move(k, "failed")
             /\ entry' \in {entry} \cup {[entry EXCEPT ![c] = "Gone"] : c \in {k} \cap Creates}
             /\ UNCHANGED <<object, applied, phase, undoing>>

\* No answer, or the run was cancelled while the request was out.
Unknown(k) == /\ node[k] \in {"sent", "landed"} /\ Move(k, "failed")
              /\ UNCHANGED <<entry, object, applied, phase, undoing>>

\* The answer's row is sent on.
Answer(k) == /\ node[k] = "landed" /\ Move(k, "answered")
             /\ UNCHANGED <<entry, object, applied, phase, undoing>>

\* The following Next commits; the run may be compensating by then, or over.
Commit(k) ==
    /\ node[k] = "answered" /\ Move(k, "committed")
    /\ entry' = [entry EXCEPT ![k] = "Live"] /\ applied' = Append(applied, k)
    /\ UNCHANGED <<object, phase, undoing>>

\* The ledger's Get or Resolve fails, the latter with or without effect, or
\* the run is cancelled first.
CommitFails(k) ==
    /\ node[k] = "answered" /\ Move(k, "unrecorded")
    /\ entry' \in {entry, [entry EXCEPT ![k] = "Live"]}
    /\ UNCHANGED <<object, applied, phase, undoing>>

\* What compensate deletes: a create, by the identity it minted.
Reversible(k) == k \in Creates /\ k \in Addressable
Completed(k) == ~Reversible(k)
ToUndo(s) == SelectSeq(s, Reversible)
ToReport(s) == SelectSeq(s, Completed)

\* The graph's rows end.  A run that failed compensates what is applied by
\* then: the stage that failed and those after it have waited for their own
\* goroutines, those before it may have commits to come.
Settle ==
    /\ phase = "running" /\ \A k \in Keys : node[k] \notin {"begun", "sent", "landed"}
    /\ IF Failed
         THEN /\ phase' = "undo" /\ pending' = Reverse(applied)
              /\ todo' = ToUndo(Reverse(applied))
              /\ left' = ToReport(Reverse(applied))
         ELSE /\ \A k \in Keys : node[k] = "committed"
              /\ phase' = "done" /\ UNCHANGED <<pending, todo, left>>
    /\ UNCHANGED <<node, entry, object, applied, next, progress, done>>

Step == /\ phase = "undo" /\ todo # << >> /\ todo' = Tail(todo)
        /\ UNCHANGED <<node, applied, phase, pending, left>>

\* deleteOne landed; the key is forgotten where the ledger lets it.
Undone ==
    /\ Step /\ object' = object \ {Head(todo)}
    /\ entry' \in {entry, [entry EXCEPT ![Head(todo)] = "Gone"]}
    /\ done' = Append(done, Head(todo)) /\ progress' = TRUE /\ UNCHANGED next

\* Refused (a dependent is there, or the object is gone) or unanswered.
NotUndone ==
    /\ Step /\ next' = Append(next, Head(todo))
    /\ object' \in {object, object \ {Head(todo)}}
    /\ UNCHANGED <<entry, done, progress>>

EndPass ==
    /\ phase = "undo" /\ todo = << >>
    /\ IF progress /\ next # << >>
         THEN /\ todo' = next /\ next' = << >> /\ progress' = FALSE /\ UNCHANGED <<phase, left>>
         ELSE /\ phase' = "done" /\ left' = left \o next /\ UNCHANGED <<todo, next, progress>>
    /\ UNCHANGED <<node, entry, object, applied, pending, done>>

Work == \/ \E k \in Keys : \/ Begin(k) \/ NotAttempted(k) \/ Send(k) \/ Land(k) \/ Refuse(k) \/ Unknown(k)
                           \/ Answer(k) \/ Commit(k) \/ CommitFails(k)
        \/ Settle \/ Undone \/ NotUndone \/ EndPass
Ended == phase = "done" /\ UNCHANGED vars
Next == Work \/ Ended
\* What must go on: some goroutine that can take a step does, and every call
\* returns.  Nobody is obliged to fail, to cancel or to leave early.
Progress == Work

Spec == Init /\ [][Next]_vars /\ WF_vars(Progress)

-----------------------------------------------------------------------------
\* What existed before the run is not removed by its failure.
OnlyOwnRemoved == Keys \ Creates \subseteq object

\* a comes before b in what is compensated: it was committed after it.
Precedes(s, a, b) == \E i, j \in 1 .. Len(s) : i < j /\ a = s[i] /\ b = s[j]
Before(a, b) == Precedes(pending, a, b)

\* Reverse order, over all the passes: while the provider removes what it is
\* asked to, an object goes before those committed before it, and so before
\* those its node read from.  The exception is the code's: a node whose commit
\* came after that of a node reading from it goes before that one.
LatestFirst ==
    \A k \in object \ object', o \in object' :
      Before(o, k) /\ Reversible(o) => o \in ToSet(next)

\* Every object of the collection has its ledger entry.  A failed run reports
\* what it had applied when it began to compensate, each once; an effect that
\* committed after that is in neither list, and is live in the ledger.
NothingOrphaned ==
    /\ \A k \in object : entry[k] # "Gone"
    /\ phase = "done" /\ Failed =>
         /\ IsInjective(done \o left) /\ ToSet(done \o left) = ToSet(pending)
         /\ \A k \in ToSet(applied) \ ToSet(pending) : k \in object /\ entry[k] = "Live"

\* The run has ended, and no goroutine of it is left.
Done == phase = "done" /\ \A k \in Keys : node[k] # "answered"

-----------------------------------------------------------------------------
(***************************************************************************)
(* A graph run over any keys, read from one another in any way.            *)
(*                                                                         *)
(* What is compensated is what was applied when the run settled, reversed. *)
(* Selected and retried, it stays in that order, and what a pass left over *)
(* comes before what it has yet to take (Undoing): at the head of the pass *)
(* is the latest of what is left to try.  A commit that comes later adds   *)
(* to what is applied and touches none of it (Landed, Late).               *)
(***************************************************************************)
Once(s) == \A i, j \in 1 .. Len(s) : s[i] = s[j] => i = j

\* t has the members of s that are in S, in the order s has them in.
Selected(t, s, S) ==
    /\ t \in Seq(Keys) /\ ToSet(t) = ToSet(s) \cap S
    /\ \A i, j \in 1 .. Len(t) :
         i < j => \E a, b \in 1 .. Len(s) : a < b /\ t[i] = s[a] /\ t[j] = s[b]

Undoable == {k \in Keys : Reversible(k)}

\* What the library's SelectSeq promises of the orders keys can land in.
Orders == UNION {Injection(1 .. n, Keys) : n \in 0 .. Cardinality(Keys)}
Selecting == \A s \in Orders : /\ Selected(ToUndo(s), s, Undoable)
                               /\ Selected(ToReport(s), s, Keys \ Undoable)
Instance == Selecting /\ IsFiniteSet(Keys) /\ Reads \in [Keys -> SUBSET Keys]

States == {"idle", "begun", "sent", "landed", "answered", "committed", "failed", "unrecorded"}
TypeOK ==
    /\ node \in [Keys -> States]
    /\ entry \in [Keys -> {"Gone", "Pending", "Live"}]
    /\ object \in SUBSET Keys /\ applied \in Seq(Keys)
    /\ phase \in {"running", "undo", "done"} /\ progress \in BOOLEAN /\ pending \in Seq(Keys)
    /\ todo \in Seq(Keys) /\ next \in Seq(Keys) /\ done \in Seq(Keys) /\ left \in Seq(Keys)

\* What is applied is what was committed, once each; what is compensated was
\* applied.
Landed ==
    /\ ToSet(applied) = {k \in Keys : node[k] = "committed"} /\ Once(applied)
    /\ ToSet(pending) \subseteq ToSet(applied)

\* A key has its entry from before its object is there.
Held ==
    /\ \A k \in object : entry[k] # "Gone"
    /\ \A k \in Keys : node[k] \in {"begun", "sent", "landed", "answered"} => entry[k] = "Pending"
    /\ \A k \in Keys : k \in Creates /\ node[k] \in {"idle", "begun", "sent"} => k \notin object

\* What the compensation does not know of it leaves as it is.
Late ==
    \A k \in Keys :
      /\ node[k] \in {"landed", "answered"} => k \in object
      /\ node[k] = "committed" /\ k \notin ToSet(pending) => k \in object /\ entry[k] = "Live"

InFlight == {"begun", "sent", "landed"}
Settled ==
    /\ phase # "running" => \A k \in Keys : node[k] \notin InFlight
    /\ phase # "running" => Failed \/ \A k \in Keys : node[k] = "committed"
    /\ phase = "running" => /\ todo = << >> /\ next = << >> /\ done = << >> /\ left = << >>
                            /\ progress = FALSE /\ pending = << >>

\* The members of s in the order they have in p.
Latest(p, s) == \A i, j \in 1 .. Len(s) : i < j => Precedes(p, s[i], s[j])

\* Each effect to compensate is ahead, left over, undone or reported; the
\* first two are the run's creates, latest first.
Undoing ==
    /\ Failed /\ Once(pending)
    /\ Once(todo) /\ Once(next) /\ Once(done) /\ Once(left)
    /\ ToSet(todo) \cup ToSet(next) \cup ToSet(done) \cup ToSet(left) = ToSet(pending)
    /\ ToSet(todo) \cap ToSet(next) = {}
    /\ ToSet(done) \cap (ToSet(todo) \cup ToSet(next)) = {}
    /\ ToSet(todo) \cup ToSet(next) \cup ToSet(done) \subseteq Undoable
    /\ ToSet(left) \cap Undoable = {}
    /\ ToSet(done) \cap object = {}
    /\ Latest(pending, todo) /\ Latest(pending, next)
    /\ \A n \in ToSet(next), t \in ToSet(todo) : Before(n, t)

\* A failed run that has ended reported each effect it compensates once.
AllReported ==
    phase = "done" /\ Failed =>
        IsInjective(done \o left) /\ ToSet(done \o left) = ToSet(pending)

IInv == /\ TypeOK /\ Landed /\ Held /\ Late /\ Settled /\ OnlyOwnRemoved
        /\ phase = "undo" => Undoing
        /\ AllReported

\* Sequences as the sets of their members: one more at the end.
LEMMA KeyMembers ==
  ASSUME NEW s \in Seq(Keys), NEW x \in Keys, NEW p
  PROVE  /\ ToSet(s) = {s[i] : i \in 1 .. Len(s)} /\ ToSet(s) \in SUBSET Keys
         /\ Append(s, x) \in Seq(Keys) /\ ToSet(Append(s, x)) = ToSet(s) \cup {x}
         /\ Once(s) /\ x \notin ToSet(s) => Once(Append(s, x))
         /\ Latest(p, s) /\ (\A k \in ToSet(s) : Precedes(p, k, x)) => Latest(p, Append(s, x))
<1>1. DOMAIN s = 1 .. Len(s) /\ Len(s) \in Nat /\ \A i \in 1 .. Len(s) : s[i] \in Keys
  OBVIOUS
<1>2. ToSet(s) = {s[i] : i \in 1 .. Len(s)} /\ ToSet(s) \in SUBSET Keys
  BY <1>1 DEF ToSet
<1> DEFINE t == Append(s, x)
<1>3. /\ t \in Seq(Keys) /\ DOMAIN t = 1 .. Len(t) /\ Len(t) = Len(s) + 1
      /\ t[Len(s) + 1] = x /\ \A i \in 1 .. Len(s) : t[i] = s[i]
  OBVIOUS
<1> HIDE DEF t
<1>4. ToSet(t) = {t[i] : i \in 1 .. Len(t)}
  BY <1>3 DEF ToSet
<1>5. ToSet(t) \subseteq ToSet(s) \cup {x}
  <2> SUFFICES ASSUME NEW i \in 1 .. Len(t) PROVE t[i] \in ToSet(s) \cup {x}
    BY <1>4
  <2> QED
    BY <1>1, <1>2, <1>3
<1>6. x \in ToSet(t)
  BY <1>1, <1>3, <1>4
<1>7. ASSUME NEW y \in ToSet(s) PROVE y \in ToSet(t)
  <2>1. PICK i \in 1 .. Len(s) : y = s[i]
    BY <1>2
  <2>2. i \in 1 .. Len(t) /\ t[i] = y
    BY <1>1, <1>3, <2>1
  <2> QED
    BY <1>4, <2>2
<1>8. ASSUME Once(s), x \notin ToSet(s) PROVE Once(t)
  <2> SUFFICES ASSUME NEW i \in 1 .. Len(t), NEW j \in 1 .. Len(t), t[i] = t[j] PROVE i = j
    BY DEF Once
  <2>1. CASE i \in 1 .. Len(s) /\ j \in 1 .. Len(s)
    BY <1>3, <1>8, <2>1 DEF Once
  <2>2. CASE i = Len(s) + 1 \/ j = Len(s) + 1
    BY <1>1, <1>2, <1>3, <1>8, <2>2
  <2> QED
    BY <1>1, <1>3, <2>1, <2>2
<1>9. ASSUME Latest(p, s), \A k \in ToSet(s) : Precedes(p, k, x) PROVE Latest(p, t)
  <2> SUFFICES ASSUME NEW i \in 1 .. Len(t), NEW j \in 1 .. Len(t), i < j PROVE Precedes(p, t[i], t[j])
    BY DEF Latest
  <2>1. i \in 1 .. Len(s) /\ t[i] = s[i] /\ s[i] \in ToSet(s)
    BY <1>1, <1>2, <1>3
  <2>2. CASE j \in 1 .. Len(s)
    BY <1>3, <1>9, <2>1, <2>2 DEF Latest
  <2>3. CASE j = Len(s) + 1
    BY <1>3, <1>9, <2>1, <2>3
  <2> QED
    BY <1>1, <1>3, <2>2, <2>3
<1> QED
  BY <1>2, <1>3, <1>5, <1>6, <1>7, <1>8, <1>9 DEF t

\* One less at the front.
LEMMA Rest ==
  ASSUME NEW s \in Seq(Keys), s # << >>, NEW p
  PROVE  /\ Head(s) \in Keys /\ Tail(s) \in Seq(Keys)
         /\ ToSet(s) = {Head(s)} \cup ToSet(Tail(s))
         /\ Once(s) => Once(Tail(s)) /\ Head(s) \notin ToSet(Tail(s))
         /\ Latest(p, s) => Latest(p, Tail(s)) /\ \A k \in ToSet(Tail(s)) : Precedes(p, Head(s), k)
<1> DEFINE t == Tail(s)
<1>1. /\ DOMAIN s = 1 .. Len(s) /\ Len(s) \in Nat /\ Len(s) > 0
      /\ Head(s) = s[1] /\ s[1] \in Keys
  OBVIOUS
<1>2. /\ t \in Seq(Keys) /\ DOMAIN t = 1 .. Len(t) /\ Len(t) = Len(s) - 1
      /\ \A i \in 1 .. Len(t) : t[i] = s[i + 1]
  BY <1>1
<1> HIDE DEF t
<1>3. ToSet(s) = {s[i] : i \in 1 .. Len(s)} /\ ToSet(t) = {t[i] : i \in 1 .. Len(t)}
  BY <1>1, <1>2 DEF ToSet
<1>4. ASSUME NEW i \in 1 .. Len(s) PROVE s[i] \in {s[1]} \cup ToSet(t)
  <2>1. CASE i = 1
    BY <2>1
  <2>2. CASE i # 1
    <3>1. i - 1 \in 1 .. Len(t) /\ t[i - 1] = s[i]
      BY <1>1, <1>2, <2>2
    <3> QED
      BY <1>3, <3>1
  <2> QED
    BY <2>1, <2>2
<1>5. ASSUME NEW i \in 1 .. Len(t)
      PROVE  /\ t[i] \in ToSet(s) /\ i + 1 \in 1 .. Len(s) /\ t[i] = s[i + 1]
             /\ Once(s) => t[i] # s[1]
             /\ Latest(p, s) => Precedes(p, s[1], t[i])
  <2>1. i + 1 \in 1 .. Len(s) /\ t[i] = s[i + 1] /\ 1 \in 1 .. Len(s) /\ 1 < i + 1
    BY <1>1, <1>2
  <2> QED
    BY <1>3, <2>1 DEF Once, Latest
<1>6. ToSet(s) = {s[1]} \cup ToSet(t)
  BY <1>1, <1>3, <1>4, <1>5
<1>7. ASSUME Once(s) PROVE Once(t) /\ s[1] \notin ToSet(t)
  <2>1. ASSUME NEW i \in 1 .. Len(t), NEW j \in 1 .. Len(t), t[i] = t[j] PROVE i = j
    BY <1>2, <1>5, <1>7, <2>1 DEF Once
  <2> QED
    BY <1>3, <1>5, <1>7, <2>1 DEF Once
<1>8. ASSUME Latest(p, s) PROVE Latest(p, t) /\ \A k \in ToSet(t) : Precedes(p, s[1], k)
  <2>1. ASSUME NEW i \in 1 .. Len(t), NEW j \in 1 .. Len(t), i < j PROVE Precedes(p, t[i], t[j])
    BY <1>2, <1>5, <1>8, <2>1 DEF Latest
  <2> QED
    BY <1>3, <1>5, <1>8, <2>1 DEF Latest
<1> QED
  BY <1>1, <1>2, <1>6, <1>7, <1>8 DEF t

\* Two, one after the other.
LEMMA Joined ==
  ASSUME NEW s \in Seq(Keys), NEW t \in Seq(Keys)
  PROVE  /\ s \o t \in Seq(Keys) /\ ToSet(s \o t) = ToSet(s) \cup ToSet(t)
         /\ Once(s) /\ Once(t) /\ ToSet(s) \cap ToSet(t) = {} => Once(s \o t) /\ IsInjective(s \o t)
<1> DEFINE u == s \o t
<1>1. /\ DOMAIN s = 1 .. Len(s) /\ Len(s) \in Nat /\ DOMAIN t = 1 .. Len(t) /\ Len(t) \in Nat
      /\ u \in Seq(Keys) /\ DOMAIN u = 1 .. Len(u) /\ Len(u) = Len(s) + Len(t)
      /\ \A i \in 1 .. Len(s) : u[i] = s[i]
      /\ \A i \in Len(s) + 1 .. Len(u) : u[i] = t[i - Len(s)]
  OBVIOUS
<1> HIDE DEF u
<1>2. /\ ToSet(s) = {s[i] : i \in 1 .. Len(s)} /\ ToSet(t) = {t[i] : i \in 1 .. Len(t)}
      /\ ToSet(u) = {u[i] : i \in 1 .. Len(u)}
  BY <1>1 DEF ToSet
<1>3. ASSUME NEW i \in 1 .. Len(u)
      PROVE  \/ i \in 1 .. Len(s) /\ u[i] = s[i] /\ u[i] \in ToSet(s)
             \/ i - Len(s) \in 1 .. Len(t) /\ u[i] = t[i - Len(s)] /\ u[i] \in ToSet(t)
  <2>1. CASE i \in 1 .. Len(s)
    BY <1>1, <1>2, <2>1
  <2>2. CASE i \in Len(s) + 1 .. Len(u)
    <3>1. i - Len(s) \in 1 .. Len(t) /\ u[i] = t[i - Len(s)]
      BY <1>1, <2>2
    <3> QED
      BY <1>2, <3>1
  <2> QED
    BY <1>1, <2>1, <2>2
<1>4. ASSUME NEW i \in 1 .. Len(s) PROVE s[i] \in ToSet(u)
  BY <1>1, <1>2
<1>5. ASSUME NEW i \in 1 .. Len(t) PROVE t[i] \in ToSet(u)
  <2>1. i + Len(s) \in Len(s) + 1 .. Len(u) /\ i + Len(s) \in 1 .. Len(u) /\ (i + Len(s)) - Len(s) = i
    BY <1>1
  <2>2. u[i + Len(s)] = t[i]
    BY <1>1, <2>1
  <2> QED
    BY <1>2, <2>1, <2>2
<1>6. ToSet(u) = ToSet(s) \cup ToSet(t)
  BY <1>2, <1>3, <1>4, <1>5
<1>7. ASSUME Once(s), Once(t), ToSet(s) \cap ToSet(t) = {} PROVE Once(u)
  <2> SUFFICES ASSUME NEW i \in 1 .. Len(u), NEW j \in 1 .. Len(u), u[i] = u[j] PROVE i = j
    BY DEF Once
  <2>1. CASE u[i] \in ToSet(s)
    BY <1>3, <1>7, <2>1 DEF Once
  <2>2. CASE u[i] \in ToSet(t)
    <3>1. i - Len(s) \in 1 .. Len(t) /\ u[i] = t[i - Len(s)]
      BY <1>3, <1>7, <2>2
    <3>2. j - Len(s) \in 1 .. Len(t) /\ u[j] = t[j - Len(s)]
      BY <1>3, <1>7, <2>2
    <3>3. i - Len(s) = j - Len(s)
      BY <1>7, <3>1, <3>2 DEF Once
    <3> QED
      BY <1>1, <3>3
  <2> QED
    BY <1>3, <2>1, <2>2
<1> QED
  BY <1>1, <1>6, <1>7 DEF u, Once, IsInjective

\* A run that has done nothing.
LEMMA InitEstablishes == ASSUME Instance, Init PROVE IInv
<1>1. /\ applied = << >> /\ ToSet(applied) = {} /\ Len(applied) = 0 /\ applied \in Seq(Keys)
      /\ pending = << >> /\ ToSet(pending) = {} /\ pending \in Seq(Keys)
      /\ todo \in Seq(Keys) /\ next \in Seq(Keys) /\ done \in Seq(Keys) /\ left \in Seq(Keys)
  BY DEF Init, ToSet
<1>2. TypeOK
  BY <1>1 DEF Init, TypeOK, States
<1>3. Landed
  BY <1>1 DEF Landed, Once, Init
<1>4. Held /\ Late /\ Settled /\ OnlyOwnRemoved /\ AllReported /\ phase # "undo"
  BY DEF Init, Held, Late, InFlight, Settled, OnlyOwnRemoved, AllReported
<1> QED
  BY <1>2, <1>3, <1>4 DEF IInv

\* A node that moves on without committing, in a run that goes on or from the
\* answer.
LEMMA NodeMoves ==
  ASSUME Instance, IInv, NEW k \in Keys,
         NEW to \in {"begun", "sent", "landed", "answered", "failed", "unrecorded"},
         node[k] \notin {"committed", "failed", "unrecorded"}, Move(k, to),
         phase = "running" \/ (node[k] = "answered" /\ to = "unrecorded"),
         UNCHANGED <<applied, phase, undoing>>,
         entry' \in [Keys -> {"Gone", "Pending", "Live"}],
         object' \in SUBSET Keys, object \subseteq object', object' \subseteq object \cup {k},
         \A d \in Keys \ {k} : entry'[d] = entry[d],
         to \in {"landed", "answered"} => k \in object',
         phase # "running" => object' = object,
         Held'
  PROVE  IInv'
<1>1. TypeOK /\ Landed /\ Settled /\ OnlyOwnRemoved /\ Late
  BY DEF IInv
<1>2. /\ node \in [Keys -> States]
      /\ node' = [node EXCEPT ![k] = to] /\ applied' = applied /\ phase' = phase /\ pending' = pending
      /\ todo' = todo /\ next' = next /\ done' = done /\ left' = left /\ progress' = progress
  BY <1>1 DEF TypeOK, Move, undoing
<1>3. TypeOK'
  BY <1>1, <1>2 DEF TypeOK, States
<1>4. \A d \in Keys : (node'[d] = "committed") <=> (node[d] = "committed")
  BY <1>2
<1>5. Late'
  BY <1>1, <1>2, <1>4 DEF Late
<1>6. Landed'
  <2>1. {d \in Keys : node'[d] = "committed"} = {d \in Keys : node[d] = "committed"}
    BY <1>4
  <2> QED
    BY <1>1, <1>2, <2>1 DEF Landed, Once
<1>7. OnlyOwnRemoved'
  BY <1>1 DEF OnlyOwnRemoved
<1>8. CASE phase = "running"
  BY <1>1, <1>2, <1>3, <1>5, <1>6, <1>7, <1>8 DEF IInv, Settled, AllReported
<1>9. CASE phase # "running"
  <2>1. node[k] = "answered" /\ to = "unrecorded" /\ Failed /\ Failed' /\ object' = object
    BY <1>1, <1>2, <1>9 DEF Settled, Failed
  <2>2. Settled' /\ AllReported'
    BY <1>1, <1>2, <2>1 DEF Settled, InFlight, AllReported, IInv
  <2>3. phase = "undo" => Undoing'
    BY <1>2, <2>1 DEF IInv, Undoing, Once, Latest, Before
  <2> QED
    BY <1>2, <1>3, <1>5, <1>6, <1>7, <2>2, <2>3 DEF IInv
<1> QED
  BY <1>8, <1>9

\* A node in flight is of a run that goes on.
LEMMA Running ==
  ASSUME IInv, NEW k \in Keys, node[k] \in InFlight PROVE phase = "running"
BY DEF IInv, Settled

\* Each step of a node that does not commit it.
LEMMA NodeKeeps ==
  ASSUME Instance, IInv, NEW k \in Keys,
         \/ Begin(k) \/ NotAttempted(k) \/ Send(k) \/ Land(k) \/ Refuse(k) \/ Unknown(k)
         \/ Answer(k) \/ CommitFails(k)
  PROVE  IInv'
<1>1. TypeOK /\ Held /\ Late
  BY DEF IInv
<1>2. /\ node \in [Keys -> States]
      /\ entry \in [Keys -> {"Gone", "Pending", "Live"}] /\ object \in SUBSET Keys
  BY <1>1 DEF TypeOK
<1>3. CASE Begin(k)
  <2>1. Held'
    BY <1>1, <1>2, <1>3 DEF Begin, Move, Held
  <2>2. phase = "running"
    BY <1>3, Running DEF Begin, InFlight
  <2> QED
    BY <1>1, <1>2, <1>3, <2>1, <2>2, NodeMoves DEF Begin, Late
<1>4. CASE NotAttempted(k)
  <2>1. Held'
    BY <1>1, <1>2, <1>4 DEF NotAttempted, Move, Held
  <2>2. phase = "running"
    BY <1>4, Running DEF NotAttempted, InFlight
  <2> QED
    BY <1>1, <1>2, <1>4, <2>1, <2>2, NodeMoves DEF NotAttempted, Late
<1>5. CASE Send(k)
  <2>1. Held'
    BY <1>1, <1>2, <1>5 DEF Send, Move, Held
  <2>2. phase = "running"
    BY <1>5, Running DEF Send, InFlight
  <2> QED
    BY <1>1, <1>2, <1>5, <2>1, <2>2, NodeMoves DEF Send, Late
<1>6. CASE Land(k)
  <2>1. Held'
    BY <1>1, <1>2, <1>6 DEF Land, Move, Held
  <2>2. phase = "running"
    BY <1>6, Running DEF Land, InFlight
  <2> QED
    BY <1>1, <1>2, <1>6, <2>1, <2>2, NodeMoves DEF Land, Late
<1>7. CASE Refuse(k)
  <2>1. Held'
    BY <1>1, <1>2, <1>7 DEF Refuse, Move, Held
  <2>2. phase = "running"
    BY <1>7, Running DEF Refuse, InFlight
  <2> QED
    BY <1>1, <1>2, <1>7, <2>1, <2>2, NodeMoves DEF Refuse, Late
<1>8. CASE Unknown(k)
  <2>1. Held'
    BY <1>1, <1>2, <1>8 DEF Unknown, Move, Held, Late
  <2>2. phase = "running"
    BY <1>8, Running DEF Unknown, InFlight
  <2> QED
    BY <1>1, <1>2, <1>8, <2>1, <2>2, NodeMoves DEF Unknown, Late
<1>9. CASE Answer(k)
  <2>1. Held'
    BY <1>1, <1>2, <1>9 DEF Answer, Move, Held
  <2>2. phase = "running"
    BY <1>9, Running DEF Answer, InFlight
  <2> QED
    BY <1>1, <1>2, <1>9, <2>1, <2>2, NodeMoves DEF Answer, Late
<1>10. CASE CommitFails(k)
  <2>1. Held'
    BY <1>1, <1>2, <1>10 DEF CommitFails, Move, Held
  <2>2. node[k] = "answered"
    BY <1>10, Running DEF CommitFails, InFlight
  <2> QED
    BY <1>1, <1>2, <1>10, <2>1, <2>2, NodeMoves DEF CommitFails, Late
<1> QED
  BY <1>3, <1>4, <1>5, <1>6, <1>7, <1>8, <1>9, <1>10

\* A commit adds its key to those applied, whatever the run does by then.
LEMMA CommitKeeps == ASSUME Instance, IInv, NEW k \in Keys, Commit(k) PROVE IInv'
<1>1. TypeOK /\ Landed /\ Held /\ Late /\ Settled /\ OnlyOwnRemoved
  BY DEF IInv
<1>2. /\ node \in [Keys -> States] /\ pending' = pending
      /\ node[k] = "answered" /\ node' = [node EXCEPT ![k] = "committed"]
      /\ entry \in [Keys -> {"Gone", "Pending", "Live"}] /\ entry' = [entry EXCEPT ![k] = "Live"]
      /\ applied \in Seq(Keys) /\ applied' = Append(applied, k) /\ object' = object /\ phase' = phase
      /\ todo' = todo /\ next' = next /\ done' = done /\ left' = left /\ progress' = progress
  BY <1>1 DEF TypeOK, Commit, Move, undoing
<1>4. /\ applied' \in Seq(Keys) /\ ToSet(applied') = ToSet(applied) \cup {k} /\ k \notin ToSet(applied)
      /\ Once(applied')
  BY <1>1, <1>2, KeyMembers DEF Landed
<1>5. TypeOK'
  BY <1>1, <1>2, <1>4 DEF TypeOK, States
<1>6. Failed' <=> Failed
  BY <1>2 DEF Failed
<1>7. Landed'
  <2>1. ToSet(applied') = {d \in Keys : node'[d] = "committed"}
    BY <1>1, <1>2, <1>4 DEF Landed
  <2> QED
    BY <1>1, <1>2, <1>4, <2>1 DEF Landed, Once
<1>8. Held' /\ Late'
  BY <1>1, <1>2 DEF Held, Late
<1>9. Settled' /\ OnlyOwnRemoved' /\ AllReported'
  BY <1>1, <1>2, <1>6 DEF Settled, InFlight, OnlyOwnRemoved, AllReported, IInv
<1>10. phase' = "undo" => Undoing'
  BY <1>2, <1>6 DEF IInv, Undoing, Once, Latest, Before
<1> QED
  BY <1>5, <1>7, <1>8, <1>9, <1>10 DEF IInv

\* The effects applied, reversed, are one of the orders there are.
LEMMA Reversed ==
  ASSUME Instance, TypeOK, Landed
  PROVE  LET r == Reverse(applied) IN
         /\ r \in Orders /\ Once(r) /\ ToSet(r) = ToSet(applied)
         /\ r \in Seq(Keys)
<1> DEFINE r == Reverse(applied)
           n == Len(applied)
<1>1. /\ applied \in Seq(Keys) /\ n \in Nat /\ DOMAIN applied = 1 .. n
      /\ \A i \in 1 .. n : applied[i] \in Keys
  BY DEF TypeOK
<1>2. r = [i \in 1 .. n |-> applied[(n - i) + 1]]
  BY DEF Reverse
<1>3. \A i \in 1 .. n : (n - i) + 1 \in 1 .. n
  BY <1>1
<1>4. /\ r \in [1 .. n -> Keys] /\ r \in Seq(Keys) /\ Len(r) = n /\ DOMAIN r = 1 .. n
      /\ \A i \in 1 .. n : r[i] = applied[(n - i) + 1]
  BY <1>1, <1>2, <1>3
<1> HIDE DEF r, n
<1>5. Once(r)
  <2> SUFFICES ASSUME NEW i \in 1 .. n, NEW j \in 1 .. n, r[i] = r[j] PROVE i = j
    BY <1>4 DEF Once
  <2>1. (n - i) + 1 = (n - j) + 1
    BY <1>3, <1>4 DEF Landed, Once, n
  <2> QED
    BY <1>1, <2>1
<1>7. ToSet(r) = ToSet(applied)
  <2>1. ToSet(r) = {r[i] : i \in 1 .. n} /\ ToSet(applied) = {applied[i] : i \in 1 .. n}
    BY <1>1, <1>4 DEF ToSet
  <2>2. ASSUME NEW i \in 1 .. n PROVE r[i] \in ToSet(applied)
    BY <1>3, <1>4, <2>1
  <2>3. ASSUME NEW i \in 1 .. n PROVE applied[i] \in ToSet(r)
    <3>1. (n - ((n - i) + 1)) + 1 = i
      BY <1>1
    <3> QED
      BY <1>3, <1>4, <2>1, <3>1
  <2> QED
    BY <2>1, <2>2, <2>3
<1>8. r \in Orders
  <2>1. r \in Injection(1 .. n, Keys)
    BY <1>4, <1>5 DEF Injection, IsInjective, Once
  <2>2. Cardinality(1 .. n) <= Cardinality(Keys)
    BY <2>1, FS_Injection DEF Instance
  <2>3. Cardinality(1 .. n) = n
    BY <1>1, FS_Interval
  <2>4. n \in 0 .. Cardinality(Keys)
    BY <1>1, <2>2, <2>3, FS_CardinalityType DEF Instance
  <2> QED
    BY <2>1, <2>4 DEF Orders
<1> QED
  BY <1>4, <1>5, <1>7, <1>8 DEF r

\* A selection of an order keeps what the order had.
LEMMA SelectedKeeps ==
  ASSUME NEW s \in Seq(Keys), NEW t, NEW S, Selected(t, s, S), Once(s)
  PROVE  Once(t) /\ Latest(s, t)
<1>1. /\ t \in Seq(Keys) /\ Len(t) \in Nat
      /\ \A i, j \in 1 .. Len(t) :
           i < j => \E a, b \in 1 .. Len(s) : a < b /\ t[i] = s[a] /\ t[j] = s[b]
  BY DEF Selected
<1>2. ASSUME NEW i \in 1 .. Len(t), NEW j \in 1 .. Len(t), i < j
      PROVE  t[i] # t[j] /\ Precedes(s, t[i], t[j])
  <2>1. PICK a \in 1 .. Len(s), b \in 1 .. Len(s) : a < b /\ t[i] = s[a] /\ t[j] = s[b]
    BY <1>1, <1>2
  <2> QED
    BY <2>1 DEF Once, Precedes
<1>3. ASSUME NEW i \in 1 .. Len(t), NEW j \in 1 .. Len(t), t[i] = t[j] PROVE i = j
  <2>1. ~(i < j) /\ ~(j < i)
    BY <1>2, <1>3
  <2> QED
    BY <1>1, <2>1
<1> QED
  BY <1>2, <1>3 DEF Once, Latest

\* The end of the graph's rows.
LEMMA SettleKeeps == ASSUME Instance, IInv, Settle PROVE IInv'
<1>1. TypeOK /\ Landed /\ Held /\ Late /\ Settled /\ OnlyOwnRemoved
  BY DEF IInv
<1>2. /\ node' = node /\ entry' = entry /\ object' = object /\ applied' = applied
      /\ next' = next /\ progress' = progress /\ done' = done
      /\ \A k \in Keys : node[k] \notin InFlight
      /\ next = << >> /\ done = << >> /\ pending = << >>
  BY <1>1 DEF Settle, Settled, InFlight
<1>3. Held' /\ OnlyOwnRemoved'
  BY <1>1, <1>2 DEF Held, OnlyOwnRemoved
<1>4. CASE ~Failed
  <2>1. /\ phase' = "done" /\ todo' = todo /\ left' = left /\ pending' = pending /\ ~Failed'
        /\ \A k \in Keys : node[k] = "committed"
    BY <1>2, <1>4 DEF Settle, Failed
  <2>2. TypeOK' /\ Settled' /\ AllReported' /\ Landed' /\ Late'
    BY <1>1, <1>2, <2>1 DEF TypeOK, Settled, AllReported, Landed, Once, Late
  <2> QED
    BY <1>3, <2>1, <2>2 DEF IInv
<1>5. CASE Failed
  <2> DEFINE r == Reverse(applied)
  <2>1. phase' = "undo" /\ pending' = r /\ todo' = ToUndo(r) /\ left' = ToReport(r) /\ Failed'
    BY <1>2, <1>5 DEF Settle, Failed
  <2>2. r \in Orders /\ Once(r) /\ ToSet(r) = ToSet(applied) /\ r \in Seq(Keys)
    BY <1>1, Reversed
  <2> HIDE DEF r
  <2>3. Selected(todo', r, Undoable) /\ Selected(left', r, Keys \ Undoable)
    BY <2>1, <2>2 DEF Instance, Selecting
  <2>4. /\ todo' \in Seq(Keys) /\ ToSet(todo') = ToSet(applied) \cap Undoable
        /\ left' \in Seq(Keys) /\ ToSet(left') = ToSet(applied) \cap (Keys \ Undoable)
    BY <2>2, <2>3 DEF Selected
  <2>5. Once(todo') /\ Latest(r, todo') /\ Once(left')
    BY <2>2, <2>3, SelectedKeeps
  <2>6. ToSet(next) = {} /\ ToSet(done) = {} /\ Len(next) = 0 /\ Len(done) = 0
    BY <1>2 DEF ToSet
  <2>7. TypeOK' /\ Settled' /\ AllReported'
    BY <1>1, <1>2, <2>1, <2>2, <2>4 DEF TypeOK, Settled, AllReported
  <2>8. ToSet(applied) \subseteq Keys
    BY <1>1, KeyMembers DEF TypeOK, Landed
  <2>9. Landed' /\ Late'
    BY <1>1, <1>2, <2>1, <2>2 DEF Landed, Once, Late
  <2>10. Undoing'
    <3>1. /\ (Once(pending) /\ Once(todo) /\ Once(next) /\ Once(done) /\ Once(left))'
          /\ (Latest(pending, todo) /\ Latest(pending, next))'
      BY <1>2, <2>1, <2>2, <2>5, <2>6 DEF Once, Latest
    <3>2. ToSet(next)' = {} /\ ToSet(done)' = {} /\ ToSet(pending)' = ToSet(applied)
      BY <1>2, <2>1, <2>2, <2>6
    <3> QED
      BY <2>1, <2>4, <2>8, <3>1, <3>2 DEF Undoing, Undoable, Reversible
  <2> QED
    BY <1>3, <2>7, <2>9, <2>10 DEF IInv
<1> QED
  BY <1>4, <1>5

\* One key of a pass: what a step makes of it.
LEMMA PassStep ==
  ASSUME Instance, IInv, phase = "undo", todo # << >>, todo' = Tail(todo),
         UNCHANGED <<node, applied, phase, pending, left>>,
         NEW k, k = Head(todo), object' \subseteq object, object \ {k} \subseteq object',
         \/ /\ k \notin object' /\ entry' \in {entry, [entry EXCEPT ![k] = "Gone"]}
            /\ done' = Append(done, k) /\ next' = next /\ progress' = TRUE
         \/ /\ next' = Append(next, k) /\ UNCHANGED <<entry, done, progress>>
  PROVE  IInv'
<1>1. TypeOK /\ Landed /\ Held /\ Late /\ Settled /\ OnlyOwnRemoved /\ Undoing
  BY DEF IInv
<1>2. /\ todo \in Seq(Keys) /\ next \in Seq(Keys) /\ done \in Seq(Keys) /\ left \in Seq(Keys)
      /\ object \in SUBSET Keys /\ entry \in [Keys -> {"Gone", "Pending", "Live"}]
  BY <1>1 DEF TypeOK
<1>3. /\ k \in Keys /\ todo' \in Seq(Keys) /\ ToSet(todo) = {k} \cup ToSet(todo')
      /\ Once(todo') /\ k \notin ToSet(todo') /\ Latest(pending, todo')
      /\ \A o \in ToSet(todo') : Precedes(pending, k, o)
  BY <1>1, <1>2, Rest DEF Undoing
<1>4. k \notin ToSet(next) /\ k \notin ToSet(done) /\ k \in Undoable
  BY <1>1, <1>3 DEF Undoing
<1>5. Landed' /\ Settled' /\ AllReported' /\ Failed' /\ phase' = "undo"
  BY <1>1 DEF Landed, Once, Settled, AllReported, Undoing, Failed
<1>6. OnlyOwnRemoved'
  BY <1>1, <1>4 DEF OnlyOwnRemoved, Undoable, Reversible
<1>7. Held' /\ Late'
  <2>1. k \in ToSet(pending) /\ node[k] = "committed"
    BY <1>1, <1>3 DEF Undoing, Landed
  <2>2. \A o \in Keys \ {k} : entry'[o] = entry[o] /\ (o \in object' <=> o \in object)
    BY <1>2, <1>3
  <2> QED
    BY <1>1, <1>2, <1>3, <2>1, <2>2 DEF Held, Late
<1>8. CASE /\ k \notin object' /\ entry' \in {entry, [entry EXCEPT ![k] = "Gone"]}
           /\ done' = Append(done, k) /\ next' = next /\ progress' = TRUE
  <2>1. /\ done' \in Seq(Keys) /\ ToSet(done') = ToSet(done) \cup {k} /\ Once(done')
    BY <1>1, <1>2, <1>3, <1>4, <1>8, KeyMembers DEF Undoing
  <2>2. TypeOK'
    BY <1>1, <1>2, <1>3, <1>8, <2>1 DEF TypeOK
  <2>3. (Once(todo) /\ Once(next) /\ Once(done) /\ Once(left)
        /\ Latest(pending, todo) /\ Latest(pending, next))'
    BY <1>1, <1>3, <1>8, <2>1 DEF Undoing, Once, Latest
  <2>4. /\ ToSet(next)' = ToSet(next) /\ ToSet(left)' = ToSet(left) /\ ToSet(pending)' = ToSet(pending)
        /\ ToSet(todo)' = ToSet(todo) \ {k} /\ ToSet(done)' = ToSet(done) \cup {k}
    BY <1>3, <1>8, <2>1
  <2>5. Undoing'
    BY <1>1, <1>3, <1>4, <1>5, <1>8, <2>3, <2>4 DEF Undoing, Undoable, Reversible, Before
  <2> QED
    BY <1>5, <1>6, <1>7, <2>2, <2>5 DEF IInv
<1>9. CASE next' = Append(next, k) /\ UNCHANGED <<entry, done, progress>>
  <2>1. /\ next' \in Seq(Keys) /\ ToSet(next') = ToSet(next) \cup {k} /\ Once(next')
        /\ Latest(pending, next')
    BY <1>1, <1>2, <1>3, <1>4, <1>9, KeyMembers DEF Undoing, Before
  <2>2. TypeOK'
    BY <1>1, <1>2, <1>3, <1>9, <2>1 DEF TypeOK
  <2>3. (Once(todo) /\ Once(next) /\ Once(done) /\ Once(left)
        /\ Latest(pending, todo) /\ Latest(pending, next))'
    BY <1>1, <1>3, <1>9, <2>1 DEF Undoing, Once, Latest
  <2>4. /\ ToSet(done)' = ToSet(done) /\ ToSet(left)' = ToSet(left) /\ ToSet(pending)' = ToSet(pending)
        /\ ToSet(todo)' = ToSet(todo) \ {k} /\ ToSet(next)' = ToSet(next) \cup {k}
    BY <1>3, <1>9, <2>1
  <2>5. Undoing'
    BY <1>1, <1>3, <1>4, <1>5, <1>9, <2>3, <2>4 DEF Undoing, Undoable, Reversible, Before
  <2> QED
    BY <1>5, <1>6, <1>7, <2>2, <2>5 DEF IInv
<1> QED
  BY <1>8, <1>9

\* The end of a pass: another, or the report.
LEMMA EndPassKeeps == ASSUME Instance, IInv, EndPass PROVE IInv'
<1>1. /\ TypeOK /\ Landed /\ Held /\ Late /\ Settled /\ OnlyOwnRemoved /\ Undoing
      /\ node' = node /\ entry' = entry /\ object' = object /\ applied' = applied /\ done' = done
      /\ phase = "undo" /\ todo = << >> /\ pending' = pending
  BY DEF IInv, EndPass
<1>2. /\ todo \in Seq(Keys) /\ next \in Seq(Keys) /\ done \in Seq(Keys) /\ left \in Seq(Keys)
      /\ ToSet(todo) = {} /\ Failed'
  BY <1>1 DEF TypeOK, ToSet, Undoing, Failed
<1>3. Landed' /\ Held' /\ Late' /\ OnlyOwnRemoved'
  BY <1>1 DEF Landed, Once, Held, Late, OnlyOwnRemoved
<1>4. CASE progress /\ next # << >>
  <2>1. todo' = next /\ next' = << >> /\ progress' = FALSE /\ phase' = "undo" /\ left' = left
    BY <1>1, <1>4 DEF EndPass
  <2>2. ToSet(next)' = {} /\ ToSet(todo)' = ToSet(next) /\ ToSet(done)' = ToSet(done)
        /\ ToSet(left)' = ToSet(left) /\ ToSet(pending)' = ToSet(pending)
    BY <1>1, <2>1 DEF ToSet
  <2>3. TypeOK' /\ Settled' /\ AllReported'
    BY <1>1, <1>2, <2>1 DEF TypeOK, Settled, AllReported
  <2>4. (Once(todo) /\ Once(next) /\ Once(done) /\ Once(left)
        /\ Latest(pending, todo) /\ Latest(pending, next))'
    BY <1>1, <2>1 DEF Undoing, Once, Latest
  <2>5. Undoing'
    BY <1>1, <1>2, <2>2, <2>4 DEF Undoing, Undoable, Reversible
  <2> QED
    BY <1>3, <2>3, <2>5 DEF IInv
<1>5. CASE ~(progress /\ next # << >>)
  <2>1. phase' = "done" /\ left' = left \o next /\ todo' = todo /\ next' = next /\ progress' = progress
    BY <1>1, <1>5 DEF EndPass
  <2>2. /\ left' \in Seq(Keys) /\ ToSet(left') = ToSet(left) \cup ToSet(next) /\ Once(left')
    BY <1>1, <1>2, <2>1, Joined DEF Undoing
  <2>3. ToSet(done) \cap ToSet(left') = {}
    BY <1>1, <2>2 DEF Undoing
  <2>4. TypeOK' /\ Settled'
    BY <1>1, <1>2, <2>1, <2>2 DEF TypeOK, Settled
  <2>5. IsInjective(done \o left') /\ ToSet(done \o left') = ToSet(pending)
    <3>1. IsInjective(done \o left') /\ ToSet(done \o left') = ToSet(done) \cup ToSet(left')
      BY <1>1, <1>2, <2>2, <2>3, Joined DEF Undoing
    <3> QED
      BY <1>1, <1>2, <2>2, <3>1 DEF Undoing
  <2>6. AllReported'
    BY <1>1, <2>5 DEF AllReported
  <2> QED
    BY <1>3, <2>1, <2>4, <2>6 DEF IInv
<1> QED
  BY <1>4, <1>5

\* Every step of the specification keeps the invariant.
LEMMA NextKeeps == ASSUME Instance, IInv, [Next]_vars PROVE IInv'
<1>1. ASSUME NEW k \in Keys,
             \/ Begin(k) \/ NotAttempted(k) \/ Send(k) \/ Land(k) \/ Refuse(k) \/ Unknown(k)
             \/ Answer(k) \/ Commit(k) \/ CommitFails(k)
      PROVE  IInv'
  BY <1>1, NodeKeeps, CommitKeeps
<1>2. CASE Settle
  BY <1>2, SettleKeeps
<1>3. CASE Undone
  <2>1. /\ phase = "undo" /\ todo # << >> /\ todo' = Tail(todo) /\ UNCHANGED <<node, applied, phase, pending, left>>
        /\ object' = object \ {Head(todo)} /\ entry' \in {entry, [entry EXCEPT ![Head(todo)] = "Gone"]}
        /\ done' = Append(done, Head(todo)) /\ next' = next /\ progress' = TRUE
    BY <1>3 DEF Undone, Step
  <2> QED
    BY <2>1, PassStep
<1>4. CASE NotUndone
  <2>1. /\ phase = "undo" /\ todo # << >> /\ todo' = Tail(todo) /\ UNCHANGED <<node, applied, phase, pending, left>>
        /\ object' \in {object, object \ {Head(todo)}}
        /\ next' = Append(next, Head(todo)) /\ UNCHANGED <<entry, done, progress>>
    BY <1>4 DEF NotUndone, Step
  <2> QED
    BY <2>1, PassStep
<1>5. CASE EndPass
  BY <1>5, EndPassKeeps
<1>6. CASE UNCHANGED vars
  <2>1. /\ node' = node /\ entry' = entry /\ object' = object /\ applied' = applied /\ phase' = phase
        /\ todo' = todo /\ next' = next /\ progress' = progress /\ done' = done /\ left' = left
        /\ pending' = pending
    BY <1>6 DEF vars
  <2>2. (TypeOK' <=> TypeOK) /\ (OnlyOwnRemoved' <=> OnlyOwnRemoved)
    BY <2>1 DEF TypeOK, OnlyOwnRemoved
  <2>4. Failed' <=> Failed
    BY <2>1 DEF Failed
  <2>3. (Landed' <=> Landed) /\ (Held' <=> Held) /\ (Late' <=> Late) /\ (Settled' <=> Settled)
    BY <2>1, <2>4 DEF Landed, Once, Held, Late, Settled
  <2>5. (Undoing' <=> Undoing) /\ (AllReported' <=> AllReported)
    BY <2>1, <2>4 DEF Undoing, Once, Latest, Before, AllReported
  <2> QED
    BY <2>1, <2>2, <2>3, <2>5 DEF IInv
<1> QED
  BY <1>1, <1>2, <1>3, <1>4, <1>5, <1>6 DEF Next, Work, Ended

\* The invariant holds of every graph run.
THEOREM Invariant == ASSUME Instance PROVE Spec => []IInv
<1>1. Init => IInv
  BY InitEstablishes
<1>2. IInv /\ [Next]_vars => IInv'
  BY NextKeeps
<1> QED
  BY <1>1, <1>2, PTL DEF Spec

\* The compensation of a failed run removes none of the objects that were
\* there before it (compensate, managed.go).
THEOREM OwnRemoved == ASSUME Instance PROVE Spec => []OnlyOwnRemoved
<1>1. IInv => OnlyOwnRemoved
  BY DEF IInv
<1> QED
  BY <1>1, Invariant, PTL

\* What exists is recorded, and what was applied in time is reported.
LEMMA Entries == ASSUME IInv PROVE NothingOrphaned
BY DEF IInv, TypeOK, Landed, Held, Late, AllReported, NothingOrphaned

\* In every state every object has its ledger entry; a failed run that has
\* ended has reported each effect applied by the time it compensated once, as
\* compensated or as completed, and what committed after that is live in the
\* ledger (compensate and durableRecords.commit, managed.go).
THEOREM EntriesOutlive == ASSUME Instance PROVE Spec => []NothingOrphaned
<1>1. IInv => NothingOrphaned
  BY Entries
<1> QED
  BY <1>1, Invariant, PTL

\* What an undo removes next is the latest of those not yet tried.
LEMMA LatestGoes == ASSUME Instance, IInv, Next PROVE LatestFirst
<1> SUFFICES ASSUME NEW k \in object \ object', NEW o \in object',
                    Before(o, k), Reversible(o)
             PROVE  o \in ToSet(next)
  BY DEF LatestFirst
<1>1. Undone \/ NotUndone
  BY DEF Next, Work, Ended, vars, Begin, NotAttempted, Send, Land, Refuse, Unknown, Answer, Commit,
              CommitFails, Settle, EndPass
<1>2. phase = "undo" /\ todo # << >> /\ object' \in {object, object \ {Head(todo)}}
  BY <1>1 DEF Undone, NotUndone, Step
<1>3. TypeOK /\ Undoing
  BY <1>2 DEF IInv
<1>4. k = Head(todo) /\ o # k /\ o \in object
  BY <1>2
<1>5. ToSet(todo) = {k} \cup ToSet(Tail(todo)) /\ \A x \in ToSet(Tail(todo)) : Before(k, x)
  BY <1>2, <1>3, <1>4, Rest DEF TypeOK, Undoing, Before
<1>6. ~Before(k, o)
  BY <1>3 DEF Before, Precedes, Undoing, Once, TypeOK
<1>7. o \notin ToSet(todo)
  BY <1>4, <1>5, <1>6
<1>8. o \in ToSet(pending)
  <2>1. PICK i \in 1 .. Len(pending) : o = pending[i]
    BY DEF Before, Precedes
  <2>2. DOMAIN pending = 1 .. Len(pending)
    BY <1>3 DEF TypeOK
  <2> QED
    BY <2>1, <2>2 DEF ToSet
<1>9. o \in Undoable
  BY <1>3, <1>4 DEF TypeOK, Undoable
<1> QED
  BY <1>3, <1>4, <1>7, <1>8, <1>9 DEF Undoing

\* Over any passes, and whatever commits come while it compensates, a run
\* removes an object only after those committed after it, except for the ones
\* this pass failed to remove (compensate, managed.go).
THEOREM LatestGoFirst == ASSUME Instance PROVE Spec => [][LatestFirst]_vars
<1>1. ASSUME Instance, IInv, Next PROVE LatestFirst
  BY <1>1, LatestGoes
<1>2. ASSUME Instance, IInv, [Next]_vars PROVE [LatestFirst]_vars
  BY <1>1, <1>2
<1> QED
  BY <1>2, Invariant, PTL DEF Spec

=============================================================================
