--------------------------- MODULE ConvergeProofs ---------------------------
(***************************************************************************)
(* The converging runs of module Converge, for any runs, keys, documents   *)
(* and dependencies, however they interleave, fail and die.                *)
(*                                                                         *)
(* The argument.  The lock lets one run work at a time (Locked), so while  *)
(* it works the ledger and its own journal change only by its steps, and   *)
(* what it knows of a key stays true of the ledger and of the provider     *)
(* (KeysOK, Logged).  The one thing it does not control is what earlier    *)
(* runs left on the way.  A compensation that lands late marks the object  *)
(* it reaches, which for a delete is one its run made (Late, Posted).  A   *)
(* creation that lands late makes an object the ledger does not name.  A   *)
(* late update could overwrite what a run relies on; it cannot, because    *)
(* whoever sent it had erased the identity from the ledger to record its   *)
(* intent, so no later run can come to name that object (Stale).  A        *)
(* journal has one record of a key and a run one object for it (Logged,    *)
(* Once), hence what the ledger names under a creation of the run is the   *)
(* run's own (Own), and a creation without an entry has no trace           *)
(* (Forgotten): unwinding deletes and restores the right objects, and its  *)
(* report says what is so (UnderWay, Reversed).  While a pass has reversed *)
(* nothing, what blocked a record does so still (Barred).                  *)
(***************************************************************************)
EXTENDS Converge, TLAPS

\* The run is at work.
Active(r) == phase[r] \in {"running", "unwinding"}

\* Where the ledger holds the intent of the operation under way.
Recorded == {"append", "send", "sent", "landed", "refused"}

(***************************************************************************)
(* The parts of the inductive invariant.                                   *)
(***************************************************************************)
\* Whoever works on the collection has its lock, so it works alone.
Locked == \A r \in Runs : Active(r) => holder = r

\* What a run has in memory, in its journal and in its report before it
\* gets to the part that fills them, and once it has ended; unwinding, all
\* it has in flight are commits.
Quiet == \A r \in Runs :
    /\ ~Active(r) => \A k \in Keys : op[r][k] = Idle
    /\ phase[r] = "unwinding" => \A k \in Keys : op[r][k].pc \notin InFlight \ {"landed"}
    /\ phase[r] # "unwinding" => undo[r] = NoUndo
    /\ phase[r] = "new" => journal[r] = <<>>
    /\ phase[r] \in {"new", "running"} => report[r].compensated = {}

\* A run at work has been asked for something of every key.
Wanted == \A r \in Runs : Active(r) => \A k \in Keys : want[r][k] \in Docs

\* What is being done to k: an update has an object of that key to update.
Decided(r, k) ==
    LET o == op[r][k] IN
    /\ o.pc \notin {"idle", "kept"} => o.form \in {"create", "update"}
    /\ o.form = "update" => /\ o.ident # None
                            /\ object[o.ident].key = k
                            /\ Found(entry[k])
                            /\ o.pc \in Recorded => Found(o.was)

\* From the intent to the answer, the ledger and the journal say what is asked.
Intended(r, k) ==
    LET o == op[r][k] IN
    /\ o.pc \in Recorded => /\ entry[k].phase = "Pending"
                            /\ entry[k].identity = None
                            /\ entry[k].proposed = want[r][k]
    /\ o.pc \in Recorded \ {"append"} => Journaled(r, k, o.form)

\* The object holds the document, unless a late compensation has reached it.
Holds(i, d) == Late(i) \/ (Present(i) /\ object[i].doc = d)

\* An answer names the object that now holds what was asked.
Landed(r, k) ==
    LET o == op[r][k] IN
    o.pc = "landed" => /\ o.ident # None
                       /\ object[o.ident].key = k
                       /\ Holds(o.ident, want[r][k])
                       /\ o.form = "create" => object[o.ident].maker = r

\* A key that is finished with is what it should be.
Converged(r, k) ==
    phase[r] = "running" /\ op[r][k].pc \in {"kept", "settled"} =>
        /\ entry[k].phase = "Live"
        /\ entry[k].identity # None
        /\ Holds(entry[k].identity, want[r][k])

\* All of what a run at work relies on for a key.
KeyOK(r, k) == Decided(r, k) /\ Intended(r, k) /\ Landed(r, k) /\ Converged(r, k)

KeysOK == \A r \in Runs : Active(r) => \A k \in Keys : KeyOK(r, k)

\* A key is in the journal only once its intent is, and only as it was decided.
Logged == \A r \in Runs : Active(r) => \A n \in DOMAIN journal[r] :
    LET o == op[r][journal[r][n].key] IN
    /\ o.pc \notin {"idle", "kept", "open", "append"}
    /\ journal[r][n].form = o.form
    /\ journal[r][n].prior = o.was.plan

\* A run under way still waits for what it sent, or has given up on it.
Sent == \A q \in wire : Active(q.run) =>
    LET o == op[q.run][q.key] IN
    /\ o.pc \in {"sent", "failed"}
    /\ q.form = o.form /\ q.ident = o.ident /\ q.doc = want[q.run][q.key]

\* Every object was made by some run for some key, as its creation.
Makers == \A i \in Ids : object[i] # Absent =>
    /\ object[i].maker \in Runs /\ object[i].key \in Keys /\ object[i].status # "absent"
    /\ Active(object[i].maker) =>
          LET o == op[object[i].maker][object[i].key] IN
          o.pc \in {"landed", "settled", "failed"} /\ o.form = "create"

\* A recorded identity is that of an object of its key.
Named == \A k \in Keys : entry[k].identity # None =>
    entry[k].phase = "Live" /\ object[entry[k].identity].key = k

\* An update that nobody waits for any more, and that may land at any time,
\* is to an object that neither the ledger nor a run refers to.
Stale == \A q \in wire : q.form = "update" =>
    /\ q.ident # None
    /\ object[q.ident].key = q.key
    /\ entry[q.key].identity # q.ident
    /\ \A r \in Runs : op[r][q.key].ident = q.ident => r = q.run
    /\ \A r \in Runs : undo[r].ident # q.ident

\* What a run created and the ledger knows of is the run's own.
Own == \A r \in Runs, k \in Keys :
    Active(r) /\ Journaled(r, k, "create") /\ entry[k].identity # None =>
        object[entry[k].identity].maker = r

\* A run sends one request for a key and makes one object at most.
Once == /\ \A i, j \in Ids : /\ object[i] # Absent
                             /\ object[i].maker = object[j].maker
                             /\ object[i].key = object[j].key
                             => i = j
        /\ \A p, q \in wire : p.run = q.run /\ p.key = q.key => p = q
        /\ \A q \in wire : q.form = "create" =>
              \A i \in Ids : object[i].maker # q.run \/ object[i].key # q.key

\* Nothing the run made for the key exists, and nothing it sent can make it.
NoTrace(r, k) == /\ \A j \in Ids : Present(j) => object[j].key # k \/ object[j].maker # r
                 /\ \A q \in wire : q.key # k \/ q.run # r

\* A creation that has no entry has no effect either.
Forgotten == \A r \in Runs, k \in Keys :
    Active(r) /\ Journaled(r, k, "create") /\ ~Found(entry[k]) => NoTrace(r, k)

\* Every record of s is one of the run's journal.
FromJournal(r, s) == \A n \in DOMAIN s : \E m \in DOMAIN journal[r] : s[n] = journal[r][m]

\* Unwinding works through records of the run's own journal.
ToUndo == \A r \in Runs : phase[r] = "unwinding" =>
    FromJournal(r, undo[r].todo) /\ FromJournal(r, undo[r].blocked)

\* Between a compensation and its record in the ledger: the key has no commit
\* to make, so nobody else writes its entry.
UnderWay == \A r \in Runs : phase[r] = "unwinding" /\ undo[r].at # "next" =>
    LET p == First(r)
        i == undo[r].ident
    IN  /\ undo[r].todo # <<>>
        /\ i # None
        /\ object[i].key = p.key
        /\ op[r][p.key].pc # "landed"
        /\ p.form = "create" => /\ undo[r].at = "effected"
                                /\ object[i].status = "removed"
                                /\ object[i].maker = r
        /\ p.form = "update" => Holds(i, p.prior)
        /\ undo[r].at = "begun" => /\ entry[p.key].phase = "Pending"
                                   /\ entry[p.key].proposed = p.prior

\* The effect of p's request is gone: as CompensatedIsUndone has it.
Undone(r, p) ==
    IF p.form = "create" THEN NoTrace(r, p.key)
    ELSE /\ entry[p.key].phase = "Live" /\ entry[p.key].plan = p.prior
         /\ entry[p.key].identity # None
         /\ Holds(entry[p.key].identity, p.prior)

\* What the report calls compensated is undone, or being undone once more.
Reversed == \A r \in Runs : phase[r] = "unwinding" => \A n \in DOMAIN journal[r] :
    LET p == journal[r][n] IN
    p.key \in report[r].compensated \ report[r].outstanding =>
        (undo[r].at = "begun" /\ First(r).key = p.key) \/ Undone(r, p)

\* What blocked k blocks it still, or is just being removed.
Waits(r, k) ==
    \/ StillBlocked(r, k)
    \/ /\ undo[r].at # "next"
       /\ First(r).key \in Inside[k]
       /\ \E i \in Ids : object[i].key = First(r).key

\* As long as a pass has reversed nothing, what it found blocked is.
Barred == \A r \in Runs : phase[r] = "unwinding" /\ ~undo[r].progressed =>
    \A n \in DOMAIN undo[r].blocked : Waits(r, undo[r].blocked[n].key)

\* A compensation that may land late is for an object of its key, and a
\* delete for one its run made.
Posted == \A c \in late : /\ object[c.ident].key = c.key
                          /\ c.form = "delete" => object[c.ident].maker = c.run

\* What of the invariant is about the runs; the effects; and the unwinding.
Order == TypeOK /\ Locked /\ Quiet /\ Wanted
Effects == /\ KeysOK /\ Logged /\ Sent /\ Makers /\ Named /\ Stale /\ Own /\ Once /\ Forgotten
           /\ IntentBeforeEffect
Reversal == ToUndo /\ UnderWay /\ Reversed /\ Barred /\ Posted

IInv == Order /\ Effects /\ Reversal
-----------------------------------------------------------------------------
(***************************************************************************)
(* What the cases below share.                                             *)
(***************************************************************************)
\* One run works on the collection at a time.
LEMMA Alone ==
  ASSUME Locked, NEW r \in Runs, Active(r)
  PROVE  \A s \in Runs : s # r => ~Active(s)
  BY DEF Locked

\* An object that exists, or that a late delete has taken away.
Around(i) == Present(i) \/ object[i].status = "withdrawn"

\* What is posted stays so while objects keep their key and maker.
LEMMA PostedKept ==
  ASSUME TypeOK, Posted, late' \subseteq late,
         \A i \in Ids : object[i].key # None =>
            object'[i].key = object[i].key /\ object'[i].maker = object[i].maker
  PROVE  Posted'
<1> SUFFICES ASSUME NEW c \in late'
             PROVE  /\ object'[c.ident].key = c.key
                    /\ c.form = "delete" => object'[c.ident].maker = c.run
  BY DEF Posted
<1>1. c \in late /\ c.ident \in Ids /\ c.key \in Keys
  BY DEF TypeOK, Compensations
<1>2. object[c.ident].key = c.key /\ (c.form = "delete" => object[c.ident].maker = c.run)
  BY <1>1 DEF Posted
<1> QED
  BY <1>1, <1>2, NoneIsApart

\* A step that is not the unwinding's own leaves what is barred barred.
LEMMA BarredKept ==
  ASSUME TypeOK, Barred, UNCHANGED <<undo, report>>,
         \A r \in Runs : phase'[r] = "unwinding" => phase[r] = "unwinding",
         \A i \in Ids : object[i].key # None => object'[i].key = object[i].key,
         \A i \in Ids : Around(i) => Around(i)'
  PROVE  Barred'
<1> SUFFICES ASSUME NEW r \in Runs, phase[r] = "unwinding", ~undo[r].progressed,
                    NEW n \in DOMAIN undo[r].blocked
             PROVE  Waits(r, undo[r].blocked[n].key)'
  BY DEF Barred
<1>2. undo[r].blocked[n].key \in Keys
  <2>1. undo[r].blocked \in Seq(JournalRecords)
    BY DEF TypeOK, Undos
  <2>2. undo[r].blocked[n] \in JournalRecords
    BY <2>1
  <2> QED
    BY <2>2 DEF JournalRecords
<1>3. PICK k \in Keys : k = undo[r].blocked[n].key
  BY <1>2
<1>1. Waits(r, k)
  BY <1>3 DEF Barred
<1>a. Inside[k] \subseteq Keys
  BY GraphAssumption
<1>4. ASSUME StillBlocked(r, k) PROVE StillBlocked(r, k)'
  <2>1. PICK i \in Ids : /\ object[i].key \in Inside[k]
                         /\ Around(i) \/ object[i].key \in report[r].outstanding
    BY <1>4 DEF StillBlocked, Around
  <2>2. object'[i].key = object[i].key
    BY <1>a, <2>1, NoneIsApart
  <2> QED
    BY <2>1, <2>2 DEF StillBlocked, Around
<1>5. ASSUME undo[r].at # "next", First(r).key \in Inside[k],
             \E i \in Ids : object[i].key = First(r).key
      PROVE  \E i \in Ids : object'[i].key = First(r).key
  BY <1>a, <1>5, NoneIsApart
<1>6. First(r)' = First(r)
  BY DEF First
<1>7. Waits(r, k)'
  BY <1>1, <1>4, <1>5, <1>6 DEF Waits
<1> QED
  BY <1>3, <1>7

\* A journal holds journal records.
LEMMA JournalTyped ==
  ASSUME TypeOK, NEW r \in Runs, NEW n \in DOMAIN journal[r]
  PROVE  journal[r][n] \in JournalRecords /\ journal[r][n].key \in Keys
<1>1. journal[r] \in Seq(JournalRecords)
  BY DEF TypeOK
<1>2. journal[r][n] \in JournalRecords
  BY <1>1
<1> QED
  BY <1>2 DEF JournalRecords

\* So does what is left to undo.
LEMMA FirstTyped ==
  ASSUME TypeOK, NEW r \in Runs, undo[r].todo # <<>>
  PROVE  /\ First(r) \in JournalRecords
         /\ First(r).key \in Keys
         /\ First(r).form \in {"create", "update"}
         /\ First(r).prior \in DocOrNone
         /\ Tail(undo[r].todo) \in Seq(JournalRecords)
<1>1. undo[r].todo \in Seq(JournalRecords)
  BY DEF TypeOK, Undos
<1>2. First(r) \in JournalRecords /\ Tail(undo[r].todo) \in Seq(JournalRecords)
  BY <1>1 DEF First
<1> QED
  BY <1>2 DEF JournalRecords

\* A step of run r on key k leaves every other operation and entry alone.
OnlyKey(r, k) == /\ \A s \in Runs, j \in Keys : s # r \/ j # k => op'[s][j] = op[s][j]
                 /\ \A j \in Keys : j # k => entry'[j] = entry[j]

\* Beside the unwind, a run has only commits to make.
CommitStep(r, k) == /\ phase[r] = "unwinding" /\ op[r][k].pc = "landed"
                    /\ op'[r][k].pc \in {"settled", "failed"}
                    /\ UNCHANGED <<journal, wire>>

\* A step that moves a key on, without an effect, has to account for that
\* key and for what it sends.
LEMMA KeyStepKeeps ==
  ASSUME IInv, NEW r \in Runs, NEW k \in Keys, OnlyKey(r, k),
         phase[r] = "running" \/ CommitStep(r, k),
         UNCHANGED object, UNCHANGED runVars,
         \A s \in Runs : s # r => journal'[s] = journal[s],
         \A j \in Keys, form \in {"create", "update"} : Journaled(r, j, form) => Journaled(r, j, form)',
         \A q \in wire' : Journaled(q.run, q.key, q.form)',
         TypeOK', KeyOK(r, k)', Logged', Sent', Makers', Named', Stale', Own', Once', Forgotten'
  PROVE  IInv'
<1> USE DEF IInv, Order, Effects, Reversal
<1>a. Active(r) /\ \A s \in Runs : s # r => ~Active(s)
  BY Alone DEF Active, CommitStep
<1>b. UNCHANGED <<object, late, holder, phase, want, undo, report>>
  BY DEF runVars
<1>1. Locked' /\ Wanted'
  BY <1>b DEF Locked, Active, Wanted
<1>2. Quiet'
  BY <1>a, <1>b DEF Quiet, Active, OnlyKey, CommitStep, InFlight
<1>3. KeysOK'
  <2> SUFFICES ASSUME NEW s \in Runs, Active(s)', NEW j \in Keys
               PROVE  KeyOK(s, j)'
    BY DEF KeysOK
  <2>1. s = r
    BY <1>a, <1>b DEF Active
  <2>2. CASE j = k
    BY <2>1, <2>2
  <2>3. CASE j # k
    <3>1. KeyOK(r, j) /\ op'[r][j] = op[r][j] /\ entry'[j] = entry[j]
      BY <2>3, <1>a DEF KeysOK, OnlyKey
    <3>2. Decided(r, j)'
      BY <3>1, <1>b DEF KeyOK, Decided
    <3>3. Intended(r, j)'
      <4>1. op[r][j].pc \in Recorded => op[r][j].form \in {"create", "update"}
        BY <3>1 DEF KeyOK, Decided, Recorded
      <4> QED
        BY <3>1, <4>1, <1>b DEF KeyOK, Intended
    <3>4. Landed(r, j)' /\ Converged(r, j)'
      BY <3>1, <1>b DEF KeyOK, Landed, Converged, Present, Late, Holds
    <3> QED
      BY <2>1, <3>2, <3>3, <3>4 DEF KeyOK
  <2> QED
    BY <2>2, <2>3
<1>4. IntentBeforeEffect'
  <2>1. \A i \in Ids : object[i] # Absent => Journaled(object[i].maker, object[i].key, "create")'
    <3> SUFFICES ASSUME NEW i \in Ids, object[i] # Absent
                 PROVE  Journaled(object[i].maker, object[i].key, "create")'
      OBVIOUS
    <3>1. /\ object[i].maker \in Runs /\ object[i].key \in Keys
          /\ Journaled(object[i].maker, object[i].key, "create")
      BY DEF Makers, IntentBeforeEffect
    <3> QED
      BY <3>1 DEF Journaled
  <2>2. \A s \in Runs, j \in Keys : Working(s, j, "sent")' =>
            entry'[j].phase = "Pending" /\ entry'[j].proposed = want'[s][j]
    BY <1>3 DEF KeysOK, KeyOK, Intended, Working, Active, Recorded
  <2> QED
    BY <1>b, <2>1, <2>2 DEF IntentBeforeEffect
<1>5. ToUndo' /\ UnderWay' /\ Reversed'
  <2>1. CASE phase[r] = "running"
    BY <1>a, <1>b, <2>1 DEF ToUndo, UnderWay, Reversed, Active
  <2>2. CASE CommitStep(r, k)
    <3>0. /\ op[r][k].pc = "landed" /\ phase[r] = "unwinding" /\ UNCHANGED <<journal, wire>>
          /\ \A s \in Runs : phase[s] = "unwinding" => s = r
      BY <1>a, <2>2 DEF CommitStep, Active
    <3>1. entry[k].phase = "Pending"
      BY <1>a, <3>0 DEF KeysOK, KeyOK, Intended, Recorded
    <3>2. First(r)' = First(r)
      BY <1>b DEF First
    <3>3. undo[r].at # "next" => First(r).key # k /\ First(r).key \in Keys
      BY <3>0, FirstTyped DEF UnderWay
    <3>4. ToUndo'
      BY <1>b, <3>0 DEF ToUndo, FromJournal
    <3>5. UnderWay'
      <4> SUFFICES ASSUME undo[r].at # "next"
                   PROVE  LET p == First(r)
                              i == undo[r].ident
                          IN  /\ op'[r][p.key].pc # "landed"
                              /\ undo[r].at = "begun" => /\ entry'[p.key].phase = "Pending"
                                                         /\ entry'[p.key].proposed = p.prior
        BY <1>b, <3>0, <3>2 DEF UnderWay, Present, Late, Holds
      <4> QED
        BY <3>0, <3>3 DEF UnderWay, OnlyKey
    <3>6. Reversed'
      <4> SUFFICES ASSUME NEW n \in DOMAIN journal[r],
                          journal[r][n].key \in report[r].compensated \ report[r].outstanding,
                          ~(undo[r].at = "begun" /\ First(r).key = journal[r][n].key)
                   PROVE  Undone(r, journal[r][n])'
        BY <1>b, <3>0, <3>2 DEF Reversed
      <4>1. Undone(r, journal[r][n]) /\ journal[r][n].key \in Keys
        BY <3>0, JournalTyped DEF Reversed
      <4>2. journal[r][n].form # "create" => journal[r][n].key # k
        BY <3>1, <4>1 DEF Undone
      <4> QED
        BY <1>b, <3>0, <4>1, <4>2 DEF Undone, NoTrace, Present, Late, Holds, OnlyKey
    <3> QED
      BY <3>4, <3>5, <3>6
  <2> QED
    BY <2>1, <2>2
<1>6. Barred' /\ Posted'
  <2>1. \A i \in Ids : Around(i) => Around(i)'
    BY <1>b DEF Around, Present
  <2> QED
    BY <1>b, <2>1, BarredKept, PostedKept
<1> QED
  BY <1>1, <1>2, <1>3, <1>4, <1>5, <1>6

\* The same, for a step that sends nothing.
LEMMA QuietStepKeeps ==
  ASSUME IInv, NEW r \in Runs, NEW k \in Keys, OnlyKey(r, k),
         phase[r] = "running" \/ CommitStep(r, k),
         UNCHANGED <<object, wire>>, UNCHANGED runVars,
         \A s \in Runs : s # r => journal'[s] = journal[s],
         \A j \in Keys, form \in {"create", "update"} : Journaled(r, j, form) => Journaled(r, j, form)',
         TypeOK', KeyOK(r, k)', Logged', Sent', Makers', Named', Stale', Own', Forgotten'
  PROVE  IInv'
<1>1. TypeOK /\ IntentBeforeEffect /\ Once
  BY DEF IInv, Order, Effects
<1>2. \A q \in wire' : Journaled(q.run, q.key, q.form)'
  <2> SUFFICES ASSUME NEW q \in wire PROVE Journaled(q.run, q.key, q.form)'
    OBVIOUS
  <2>1. q \in Requests /\ Journaled(q.run, q.key, q.form)
    BY <1>1 DEF TypeOK, IntentBeforeEffect
  <2> QED
    BY <2>1 DEF Journaled, Requests
<1>3. Once'
  BY <1>1 DEF Once
<1> QED
  BY <1>2, <1>3, KeyStepKeeps

\* Where the work on a key can be.
Places == InFlight \cup {"idle", "kept", "settled", "failed"}

\* One operation is replaced.
LEMMA Moves ==
  ASSUME TypeOK, NEW r \in Runs, NEW k \in Keys, NEW o \in Operations,
         op' = [op EXCEPT ![r][k] = o]
  PROVE  /\ op' \in [Runs -> [Keys -> Operations]]
         /\ op'[r][k] = o
         /\ \A s \in Runs, j \in Keys : s # r \/ j # k => op'[s][j] = op[s][j]
  BY DEF TypeOK

\* One operation gets to another place.
LEMMA MovesTo ==
  ASSUME TypeOK, NEW r \in Runs, NEW k \in Keys, NEW w \in Places, AtKey(r, k, w)
  PROVE  /\ op' \in [Runs -> [Keys -> Operations]]
         /\ op'[r][k].pc = w
         /\ op'[r][k].form = op[r][k].form
         /\ op'[r][k].ident = op[r][k].ident
         /\ op'[r][k].was = op[r][k].was
         /\ \A s \in Runs, j \in Keys : s # r \/ j # k => op'[s][j] = op[s][j]
<1> DEFINE o == [op[r][k] EXCEPT !.pc = w]
<1>1. op[r][k] \in Operations
  BY DEF TypeOK
<1>2. /\ o \in Operations
      /\ o.pc = w /\ o.form = op[r][k].form /\ o.ident = op[r][k].ident /\ o.was = op[r][k].was
  BY <1>1 DEF Operations, Places
<1>3. op' = [op EXCEPT ![r][k] = o]
  BY DEF AtKey, TypeOK
<1> HIDE DEF o
<1> QED
  BY <1>2, <1>3, Moves

\* One entry is replaced.
LEMMA Writes ==
  ASSUME TypeOK, NEW k \in Keys, NEW e \in Entries, entry' = [entry EXCEPT ![k] = e]
  PROVE  /\ entry' \in [Keys -> Entries]
         /\ entry'[k] = e
         /\ \A j \in Keys : j # k => entry'[j] = entry[j]
  BY DEF TypeOK

\* Begin, Resolve and Forget make entries of entries.
LEMMA EntriesWritten ==
  ASSUME NEW e \in Entries
  PROVE  /\ \A d \in DocOrNone : Begun(e, d) \in Entries
         /\ \A i \in IdentOrNone : Resolved(e, i, None) \in Entries
         /\ Gone \in Entries
  BY DEF Entries, Begun, Resolved, Gone, Phases, DocOrNone, IdentOrNone, AboutOrNone

\* What an action on a key may take as given.
LEMMA AtWork ==
  ASSUME IInv, NEW r \in Runs, NEW k \in Keys, phase[r] \in {"running", "unwinding"}
  PROVE  /\ Active(r)
         /\ \A s \in Runs : s # r => ~Active(s)
         /\ KeyOK(r, k)
         /\ want[r][k] \in Docs
         /\ entry[k] \in Entries
         /\ op[r][k] \in Operations
<1>1. Active(r)
  BY DEF Active
<1> QED
  BY <1>1, Alone DEF IInv, Order, Effects, KeysOK, Wanted, TypeOK

\* A key that is not past the journal is not in it, and nothing was sent or made for it.
LEMMA NotYet ==
  ASSUME IInv, NEW r \in Runs, NEW k \in Keys, Active(r),
         op[r][k].pc \in {"idle", "open", "append"}
  PROVE  /\ \A n \in DOMAIN journal[r] : journal[r][n].key # k
         /\ \A form : ~Journaled(r, k, form)
         /\ NoTrace(r, k)
         /\ \A i \in Ids : object[i] # Absent => object[i].maker # r \/ object[i].key # k
<1>1. \A n \in DOMAIN journal[r] : journal[r][n].key # k
  BY DEF IInv, Effects, Logged
<1>2. \A form : ~Journaled(r, k, form)
  BY <1>1 DEF Journaled
<1>3. \A q \in wire : q.key # k \/ q.run # r
  BY DEF IInv, Effects, Sent
<1>4. \A i \in Ids : object[i] # Absent => object[i].maker # r \/ object[i].key # k
  BY DEF IInv, Effects, Makers
<1>5. \A i \in Ids : Present(i) => object[i] # Absent
  BY DEF Present, Absent
<1> QED
  BY <1>1, <1>2, <1>3, <1>4, <1>5 DEF NoTrace

\* Stale updates stay alone while nothing new is referred to.
LEMMA StaleKept ==
  ASSUME TypeOK, Stale, wire' \subseteq wire,
         \A i \in Ids : object[i].key # None => object'[i].key = object[i].key,
         \A k \in Keys : entry'[k].identity = None \/ entry'[k].identity = entry[k].identity,
         \A r \in Runs, k \in Keys : op'[r][k].ident = None \/ op'[r][k].ident = op[r][k].ident,
         \A r \in Runs : undo'[r].ident = None \/ undo'[r].ident = undo[r].ident
  PROVE  Stale'
<1> SUFFICES ASSUME NEW q \in wire', q.form = "update"
             PROVE  /\ q.ident # None
                    /\ object'[q.ident].key = q.key
                    /\ entry'[q.key].identity # q.ident
                    /\ \A r \in Runs : op'[r][q.key].ident = q.ident => r = q.run
                    /\ \A r \in Runs : undo'[r].ident # q.ident
  BY DEF Stale
<1>1. /\ q.ident # None
      /\ object[q.ident].key = q.key
      /\ entry[q.key].identity # q.ident
      /\ \A r \in Runs : op[r][q.key].ident = q.ident => r = q.run
      /\ \A r \in Runs : undo[r].ident # q.ident
  BY DEF Stale
<1>2. q.ident \in Ids /\ q.key \in Keys
  BY <1>1 DEF TypeOK, Requests, IdentOrNone, Ids
<1> QED
  BY <1>1, <1>2, NoneIsApart
-----------------------------------------------------------------------------
(***************************************************************************)
(* One key, forward.                                                       *)
(***************************************************************************)
\* recall, read and diff: the operation is decided on what the ledger and
\* the provider say now.
LEMMA ObserveKeeps == ASSUME IInv, NEW r \in Runs, NEW k \in Keys, Observe(r, k) PROVE IInv'
<1>0. /\ TypeOK /\ Named /\ Own /\ Forgotten /\ Logged /\ Sent /\ Makers /\ Stale
  BY DEF IInv, Order, Effects
<1> DEFINE o == Decision(r, k)
           i == entry[k].identity
<1>a. phase[r] = "running" /\ op[r][k].pc = "idle"
  BY DEF Observe, Working
<1>b. UNCHANGED <<entry, journal, object, wire, late, holder, phase, want, undo, report>>
  BY DEF Observe, runVars
<1>c. i \in IdentOrNone /\ Idle \in Operations
  BY <1>0 DEF TypeOK, Entries, Operations, Idle, IdentOrNone, Gone, Phases, DocOrNone, AboutOrNone
<1>d. /\ o \in Operations
      /\ \/ o.pc = "open" /\ o.form = "create" /\ o.ident = None
         \/ /\ o.pc = "kept" /\ o.form = None /\ o.ident = None
            /\ Present(i) /\ object[i].doc = want[r][k]
         \/ o.pc = "open" /\ o.form = "update" /\ o.ident = i /\ Present(i)
  BY <1>c DEF Decision, Operations, Idle, InFlight
<1> HIDE DEF o
<1>e. op' = [op EXCEPT ![r][k] = o]
  BY DEF Observe, o
<1>f. /\ op' \in [Runs -> [Keys -> Operations]] /\ op'[r][k] = o
      /\ \A s \in Runs, j \in Keys : s # r \/ j # k => op'[s][j] = op[s][j]
  <2>1. o \in Operations
    BY <1>d
  <2> QED
    BY <1>0, <1>e, <2>1, Moves
<1>g. /\ Active(r) /\ \A s \in Runs : s # r => ~Active(s)
      /\ NoTrace(r, k)
      /\ \A n \in DOMAIN journal[r] : journal[r][n].key # k
      /\ \A form : ~Journaled(r, k, form)
      /\ \A j \in Ids : object[j] # Absent => object[j].maker # r \/ object[j].key # k
  BY <1>a, AtWork, NotYet
<1>1. TypeOK'
  BY <1>0, <1>b, <1>f DEF TypeOK
<1>2. KeyOK(r, k)'
  <2>1. i # None => entry[k].phase = "Live" /\ object[i].key = k
    BY <1>0 DEF Named
  <2>2. Decided(r, k)'
    BY <1>b, <1>d, <1>f, <2>1, NoneIsApart DEF Decided, Recorded, Found, Present
  <2>3. Intended(r, k)' /\ Landed(r, k)'
    BY <1>d, <1>f DEF Intended, Landed, Recorded
  <2>4. Converged(r, k)'
    BY <1>b, <1>d, <1>f, <2>1 DEF Converged, Present, Late, Holds
  <2> QED
    BY <2>2, <2>3, <2>4 DEF KeyOK
<1>3. Logged'
  BY <1>0, <1>b, <1>f, <1>g, JournalTyped DEF Logged, Active
<1>4. Sent'
  BY <1>0, <1>b, <1>f, <1>g DEF Sent, Active, NoTrace, TypeOK, Requests
<1>5. Makers'
  BY <1>0, <1>b, <1>f, <1>g DEF Makers, Active
<1>6. Named' /\ Own' /\ Forgotten'
  BY <1>0, <1>b DEF Named, Own, Forgotten, Active, Journaled, NoTrace, Present
<1>7. Stale'
  <2> SUFFICES ASSUME NEW q \in wire, q.form = "update", NEW s \in Runs,
                      op'[s][q.key].ident = q.ident
               PROVE  s = q.run
    BY <1>0, <1>b DEF Stale
  <2>1. q.key \in Keys /\ q.ident # None /\ entry[q.key].identity # q.ident
    BY <1>0 DEF TypeOK, Requests, Stale
  <2>2. s # r \/ q.key # k
    BY <1>d, <1>f, <2>1
  <2> QED
    BY <1>0, <1>f, <2>1, <2>2 DEF Stale
<1> QED
  BY <1>1, <1>2, <1>3, <1>4, <1>5, <1>6, <1>7, <1>a, <1>b, <1>f, QuietStepKeeps
     DEF OnlyKey, runVars, Journaled

\* A key is given up: neither the ledger nor the journal changes.
LEMMA GivingUpKeeps ==
  ASSUME IInv, NEW r \in Runs, NEW k \in Keys, op[r][k].pc \in InFlight,
         phase[r] = "running" \/ (phase[r] = "unwinding" /\ op[r][k].pc = "landed"),
         AtKey(r, k, "failed"),
         UNCHANGED <<entry, journal, object, wire>>, UNCHANGED runVars
  PROVE  IInv'
<1>0. TypeOK /\ Named /\ Own /\ Forgotten /\ Logged /\ Sent /\ Makers /\ Stale
  BY DEF IInv, Order, Effects
<1>b. UNCHANGED <<entry, journal, object, wire, late, holder, phase, want, undo, report>>
  BY DEF runVars
<1>c. /\ op' \in [Runs -> [Keys -> Operations]]
      /\ op'[r][k].pc = "failed"
      /\ op'[r][k].form = op[r][k].form
      /\ op'[r][k].ident = op[r][k].ident
      /\ op'[r][k].was = op[r][k].was
      /\ \A s \in Runs, j \in Keys : s # r \/ j # k => op'[s][j] = op[s][j]
  BY <1>0, MovesTo DEF Places
<1>d. Active(r) /\ KeyOK(r, k)
  BY AtWork
<1>1. TypeOK'
  BY <1>0, <1>b, <1>c DEF TypeOK
<1>2. KeyOK(r, k)'
  BY <1>b, <1>c, <1>d DEF KeyOK, Decided, Intended, Landed, Converged, Recorded, InFlight
<1>3. Logged'
  BY <1>0, <1>b, <1>c, <1>d, JournalTyped DEF Logged, Active
<1>4. Sent'
  <2> SUFFICES ASSUME NEW q \in wire, Active(q.run)
               PROVE  LET o == op'[q.run][q.key] IN
                      /\ o.pc \in {"sent", "failed"}
                      /\ q.form = o.form /\ q.ident = o.ident /\ q.doc = want[q.run][q.key]
    BY <1>b DEF Sent, Active
  <2>1. q.run \in Runs /\ q.key \in Keys
    BY <1>0 DEF TypeOK, Requests
  <2> QED
    BY <1>0, <1>c, <2>1 DEF Sent
<1>5. Makers'
  BY <1>0, <1>b, <1>c DEF Makers, Active
<1>6. Named' /\ Own' /\ Forgotten'
  BY <1>0, <1>b DEF Named, Own, Forgotten, Active, Journaled, NoTrace, Present
<1>7. Stale'
  BY <1>0, <1>b, <1>c, StaleKept
<1>8. phase[r] = "running" \/ CommitStep(r, k)
  BY <1>c DEF CommitStep
<1> QED
  BY <1>1, <1>2, <1>3, <1>4, <1>5, <1>6, <1>7, <1>8, <1>b, <1>c, QuietStepKeeps
     DEF OnlyKey, runVars, Journaled

\* The intent reaches the ledger, whether or not the run goes on with it.
LEMMA BeginKeeps ==
  ASSUME IInv, NEW r \in Runs, NEW k \in Keys, Working(r, k, "open"),
         NEW o \in Operations, o.pc \in {"append", "failed"},
         o.form = op[r][k].form, o.ident = op[r][k].ident,
         o.pc = "append" => o.was = entry[k],
         op' = [op EXCEPT ![r][k] = o],
         entry' = [entry EXCEPT ![k] = Begun(@, want[r][k])],
         UNCHANGED <<journal, object, wire>>, UNCHANGED runVars
  PROVE  IInv'
<1>0. TypeOK /\ Named /\ Own /\ Forgotten /\ Logged /\ Sent /\ Makers /\ Stale
  BY DEF IInv, Order, Effects
<1>a. phase[r] = "running" /\ op[r][k].pc = "open"
  BY DEF Working
<1>b. UNCHANGED <<journal, object, wire, late, holder, phase, want, undo, report>>
  BY DEF runVars
<1>c. /\ op' \in [Runs -> [Keys -> Operations]] /\ op'[r][k] = o
      /\ \A s \in Runs, j \in Keys : s # r \/ j # k => op'[s][j] = op[s][j]
  BY <1>0, Moves
<1>d. /\ Active(r) /\ KeyOK(r, k) /\ want[r][k] \in DocOrNone /\ entry[k] \in Entries
      /\ NoTrace(r, k)
      /\ \A n \in DOMAIN journal[r] : journal[r][n].key # k
      /\ \A form : ~Journaled(r, k, form)
      /\ \A j \in Ids : object[j] # Absent => object[j].maker # r \/ object[j].key # k
      /\ \A s \in Runs : s # r => ~Active(s)
  BY <1>a, AtWork, NotYet DEF DocOrNone
<1>e. /\ entry' \in [Keys -> Entries]
      /\ entry'[k].phase = "Pending" /\ entry'[k].identity = None
      /\ entry'[k].proposed = want[r][k]
      /\ \A j \in Keys : j # k => entry'[j] = entry[j]
  <2>1. entry' = [entry EXCEPT ![k] = Begun(entry[k], want[r][k])]
    BY <1>0 DEF TypeOK
  <2> QED
    <3> DEFINE e == Begun(entry[k], want[r][k])
    <3>1. /\ e \in Entries
          /\ e.phase = "Pending" /\ e.identity = None /\ e.proposed = want[r][k]
      BY <1>d, EntriesWritten DEF Begun
    <3> HIDE DEF e
    <3> QED
      BY <1>0, <2>1, <3>1, Writes DEF e
<1>1. TypeOK'
  BY <1>0, <1>b, <1>c, <1>e DEF TypeOK
<1>2. KeyOK(r, k)'
  BY <1>a, <1>b, <1>c, <1>d, <1>e
     DEF KeyOK, Decided, Intended, Landed, Converged, Recorded, Found
<1>3. Logged'
  BY <1>0, <1>b, <1>c, <1>d, JournalTyped DEF Logged, Active
<1>4. Sent'
  BY <1>0, <1>b, <1>c, <1>d DEF Sent, Active, NoTrace, TypeOK, Requests
<1>5. Makers'
  BY <1>0, <1>b, <1>c, <1>d DEF Makers, Active
<1>6. Named'
  BY <1>0, <1>b, <1>e DEF Named
<1>7. Own' /\ Forgotten'
  BY <1>0, <1>b, <1>d, <1>e DEF Own, Forgotten, Active, Journaled, NoTrace, Present
<1>8. Stale'
  BY <1>0, <1>b, <1>c, <1>e, StaleKept
<1> QED
  BY <1>1, <1>2, <1>3, <1>4, <1>5, <1>6, <1>7, <1>8, <1>a, <1>b, <1>c, <1>e, QuietStepKeeps
     DEF OnlyKey, runVars, Journaled

\* durable.open's write to the ledger.
LEMMA OpenKeeps == ASSUME IInv, NEW r \in Runs, NEW k \in Keys, Open(r, k) PROVE IInv'
<1> DEFINE o == [op[r][k] EXCEPT !.pc = "append", !.was = entry[k]]
<1>1. TypeOK
  BY DEF IInv, Order
<1>2. op[r][k] \in Operations /\ entry[k] \in Entries
  BY <1>1 DEF TypeOK
<1>3. /\ o \in Operations /\ o.pc = "append" /\ o.was = entry[k]
      /\ o.form = op[r][k].form /\ o.ident = op[r][k].ident
  BY <1>2 DEF Operations, InFlight
<1>4. op' = [op EXCEPT ![r][k] = o]
  BY <1>1 DEF Open, TypeOK
<1> HIDE DEF o
<1> QED
  BY <1>3, <1>4, BeginKeeps DEF Open

\* The journal grows by one record.
LEMMA JournalGrows ==
  ASSUME TypeOK, NEW r \in Runs, NEW p \in JournalRecords,
         journal' = [journal EXCEPT ![r] = Append(@, p)]
  PROVE  /\ journal' \in [Runs -> Seq(JournalRecords)]
         /\ \A s \in Runs : s # r => journal'[s] = journal[s]
         /\ \A n \in DOMAIN journal[r] : n \in DOMAIN journal'[r] /\ journal'[r][n] = journal[r][n]
         /\ \A n \in DOMAIN journal'[r] :
               journal'[r][n] = p \/ (n \in DOMAIN journal[r] /\ journal'[r][n] = journal[r][n])
         /\ \E n \in DOMAIN journal'[r] : journal'[r][n] = p
<1>1. journal[r] \in Seq(JournalRecords) /\ journal'[r] = Append(journal[r], p)
  BY DEF TypeOK
<1>2. Append(journal[r], p) \in Seq(JournalRecords)
  BY <1>1
<1>3. journal' \in [Runs -> Seq(JournalRecords)] /\ \A s \in Runs : s # r => journal'[s] = journal[s]
  BY <1>1, <1>2 DEF TypeOK
<1>4. Len(journal[r]) + 1 \in DOMAIN journal'[r] /\ journal'[r][Len(journal[r]) + 1] = p
  BY <1>1
<1> QED
  BY <1>1, <1>3, <1>4

\* The intent reaches the journal, whether or not the run goes on with it.
LEMMA JournalKeeps ==
  ASSUME IInv, NEW r \in Runs, NEW k \in Keys, Working(r, k, "append"),
         NEW w \in {"send", "failed"}, AtKey(r, k, w),
         journal' = [journal EXCEPT ![r] = Append(@, JournalRecord(r, k))],
         UNCHANGED <<entry, object, wire>>, UNCHANGED runVars
  PROVE  IInv'
<1>0. TypeOK /\ Named /\ Own /\ Forgotten /\ Logged /\ Sent /\ Makers /\ Stale
  BY DEF IInv, Order, Effects
<1> DEFINE p == JournalRecord(r, k)
<1>a. phase[r] = "running" /\ op[r][k].pc = "append"
  BY DEF Working
<1>b. UNCHANGED <<entry, object, wire, late, holder, phase, want, undo, report>>
  BY DEF runVars
<1>c. /\ op' \in [Runs -> [Keys -> Operations]]
      /\ op'[r][k].pc = w
      /\ op'[r][k].form = op[r][k].form
      /\ op'[r][k].ident = op[r][k].ident
      /\ op'[r][k].was = op[r][k].was
      /\ \A s \in Runs, j \in Keys : s # r \/ j # k => op'[s][j] = op[s][j]
  <2>1. w \in Places
    BY DEF Places, InFlight
  <2> QED
    BY <1>0, <2>1, MovesTo
<1>d. /\ Active(r) /\ KeyOK(r, k) /\ op[r][k] \in Operations
      /\ NoTrace(r, k)
      /\ \A n \in DOMAIN journal[r] : journal[r][n].key # k
      /\ \A j \in Ids : object[j] # Absent => object[j].maker # r \/ object[j].key # k
      /\ \A s \in Runs : s # r => ~Active(s)
  BY <1>a, AtWork, NotYet
<1>e. /\ p \in JournalRecords /\ p.key = k /\ p.form = op[r][k].form
      /\ p.prior = op[r][k].was.plan
  BY <1>a, <1>d DEF JournalRecord, JournalRecords, KeyOK, Decided, Operations, Entries
<1>f. /\ entry[k].phase = "Pending" /\ entry[k].identity = None
      /\ entry[k].proposed = want[r][k]
  BY <1>a, <1>d DEF KeyOK, Intended, Recorded
<1> HIDE DEF p
<1>g. /\ journal' \in [Runs -> Seq(JournalRecords)]
      /\ \A s \in Runs : s # r => journal'[s] = journal[s]
      /\ \A n \in DOMAIN journal[r] : n \in DOMAIN journal'[r] /\ journal'[r][n] = journal[r][n]
      /\ \A n \in DOMAIN journal'[r] :
            journal'[r][n] = p \/ (n \in DOMAIN journal[r] /\ journal'[r][n] = journal[r][n])
      /\ \E n \in DOMAIN journal'[r] : journal'[r][n] = p
  BY <1>0, <1>e, JournalGrows DEF p
<1>1. TypeOK'
  BY <1>0, <1>b, <1>c, <1>g DEF TypeOK
<1>2. KeyOK(r, k)'
  <2>1. Journaled(r, k, op[r][k].form)'
    BY <1>c, <1>e, <1>g DEF Journaled
  <2>2. Decided(r, k)'
    BY <1>a, <1>b, <1>c, <1>d DEF KeyOK, Decided, Recorded
  <2>3. Intended(r, k)'
    BY <1>b, <1>c, <1>f, <2>1 DEF Intended
  <2> QED
    BY <1>c, <2>2, <2>3 DEF KeyOK, Landed, Converged
<1>3. Logged'
  <2> SUFFICES ASSUME NEW n \in DOMAIN journal'[r]
               PROVE  LET o == op'[r][journal'[r][n].key] IN
                      /\ o.pc \notin {"idle", "kept", "open", "append"}
                      /\ journal'[r][n].form = o.form
                      /\ journal'[r][n].prior = o.was.plan
    BY <1>b, <1>d DEF Logged, Active
  <2>1. CASE journal'[r][n] = p
    BY <1>c, <1>e, <2>1
  <2>2. CASE n \in DOMAIN journal[r] /\ journal'[r][n] = journal[r][n]
    BY <1>0, <1>c, <1>d, <2>2, JournalTyped DEF Logged
  <2> QED
    BY <1>g, <2>1, <2>2
<1>4. Sent'
  BY <1>0, <1>b, <1>c, <1>d DEF Sent, Active, NoTrace, TypeOK, Requests
<1>5. Makers'
  BY <1>0, <1>b, <1>c, <1>d DEF Makers, Active
<1>6. Named'
  BY <1>0, <1>b DEF Named
<1>7. \A j \in Keys, form \in {"create", "update"} :
         /\ Journaled(r, j, form) => Journaled(r, j, form)'
         /\ j # k /\ Journaled(r, j, form)' => Journaled(r, j, form)
  BY <1>e, <1>g DEF Journaled
<1>8. Own' /\ Forgotten'
  BY <1>0, <1>b, <1>d, <1>f, <1>7 DEF Own, Forgotten, Active, NoTrace, Present, Found
<1>9. Stale'
  BY <1>0, <1>b, <1>c, StaleKept
<1> QED
  BY <1>1, <1>2, <1>3, <1>4, <1>5, <1>6, <1>7, <1>8, <1>9, <1>a, <1>b, <1>c, <1>g, QuietStepKeeps
     DEF OnlyKey, runVars

\* durable.open's append to the journal.
LEMMA AppendKeeps == ASSUME IInv, NEW r \in Runs, NEW k \in Keys, Append1(r, k) PROVE IInv'
  BY JournalKeeps DEF Append1

\* ErrNotAttempted: what was written, if anything, is an intent.
LEMMA NotAttemptedKeeps ==
  ASSUME IInv, NEW r \in Runs, NEW k \in Keys, NotAttempted(r, k) PROVE IInv'
<1>a. TypeOK /\ op[r][k] \in Operations
  BY DEF IInv, Order, TypeOK
<1>b. /\ AtKey(r, k, "failed") /\ UNCHANGED <<object, wire>> /\ UNCHANGED runVars
      /\ op[r][k].pc \in InFlight /\ phase[r] = "running"
  BY DEF NotAttempted, Working, InFlight
<1>1. CASE UNCHANGED <<entry, journal>>
  BY <1>b, <1>1, GivingUpKeeps
<1>2. CASE /\ Working(r, k, "open") /\ UNCHANGED journal
           /\ entry' = [entry EXCEPT ![k] = Begun(@, want[r][k])]
  <2> DEFINE o == [op[r][k] EXCEPT !.pc = "failed"]
  <2>1. /\ o \in Operations /\ o.pc = "failed"
        /\ o.form = op[r][k].form /\ o.ident = op[r][k].ident
    BY <1>a DEF Operations
  <2>2. op' = [op EXCEPT ![r][k] = o]
    BY <1>a, <1>b DEF AtKey, TypeOK
  <2> HIDE DEF o
  <2> QED
    BY <1>b, <1>2, <2>1, <2>2, BeginKeeps
<1>3. CASE /\ Working(r, k, "append") /\ UNCHANGED entry
           /\ journal' = [journal EXCEPT ![r] = Append(@, JournalRecord(r, k))]
  BY <1>b, <1>3, JournalKeeps
<1> QED
  BY <1>1, <1>2, <1>3 DEF NotAttempted

\* ErrOutcomeUnknown.
LEMMA UnknownKeeps == ASSUME IInv, NEW r \in Runs, NEW k \in Keys, Unknown(r, k) PROVE IInv'
<1>1. op[r][k].pc = "landed" => Active(r)
  BY DEF IInv, Order, Quiet, Idle
<1>2. /\ phase[r] = "running" \/ (phase[r] = "unwinding" /\ op[r][k].pc = "landed")
      /\ op[r][k].pc \in InFlight /\ AtKey(r, k, "failed")
      /\ UNCHANGED <<entry, journal, object, wire>> /\ UNCHANGED runVars
  BY <1>1 DEF Unknown, Working, InFlight, Active
<1> QED
  BY <1>2, GivingUpKeeps

\* commit: the identity that landed becomes the key's.
LEMMA CommitKeeps == ASSUME IInv, NEW r \in Runs, NEW k \in Keys, Commit(r, k) PROVE IInv'
<1>0. TypeOK /\ Named /\ Own /\ Forgotten /\ Logged /\ Sent /\ Makers /\ Stale
  BY DEF IInv, Order, Effects
<1> DEFINE i == op[r][k].ident
           e == Resolved(entry[k], i, None)
<1>a. phase[r] \in {"running", "unwinding"} /\ op[r][k].pc = "landed"
  BY DEF Commit, IInv, Order, Quiet, Idle, Active
<1>b. UNCHANGED <<journal, object, wire, late, holder, phase, want, undo, report>>
  BY DEF Commit, Resolve, runVars
<1>c. PICK w \in {"settled", "failed"} :
         AtKey(r, k, w) /\ entry' = [entry EXCEPT ![k] = Resolved(@, i, None)]
  BY DEF Commit, Resolve
<1>d. /\ op' \in [Runs -> [Keys -> Operations]]
      /\ op'[r][k].pc = w
      /\ op'[r][k].form = op[r][k].form
      /\ op'[r][k].ident = i
      /\ op'[r][k].was = op[r][k].was
      /\ \A s \in Runs, j \in Keys : s # r \/ j # k => op'[s][j] = op[s][j]
  BY <1>0, <1>c, MovesTo DEF Places
<1>e. /\ Active(r) /\ KeyOK(r, k) /\ op[r][k] \in Operations /\ entry[k] \in Entries
      /\ \A s \in Runs : s # r => ~Active(s)
  BY <1>a, AtWork
<1>f. /\ i # None /\ object[i].key = k /\ Holds(i, want[r][k])
      /\ op[r][k].form = "create" => object[i].maker = r
  BY <1>a, <1>e DEF KeyOK, Landed
<1>g. /\ entry' \in [Keys -> Entries]
      /\ entry'[k].phase = "Live" /\ entry'[k].identity = i
      /\ \A j \in Keys : j # k => entry'[j] = entry[j]
  <2>1. e \in Entries /\ e.phase = "Live" /\ e.identity = i
    BY <1>e, EntriesWritten DEF Operations, Resolved
  <2>2. entry' = [entry EXCEPT ![k] = e]
    BY <1>0, <1>c DEF TypeOK
  <2> HIDE DEF e
  <2> QED
    BY <1>0, <2>1, <2>2, Writes
<1> HIDE DEF e
<1>1. TypeOK'
  BY <1>0, <1>b, <1>d, <1>g DEF TypeOK
<1>2. KeyOK(r, k)'
  <2>1. Decided(r, k)' /\ Intended(r, k)' /\ Landed(r, k)'
    BY <1>a, <1>b, <1>d, <1>e, <1>g DEF KeyOK, Decided, Intended, Landed, Recorded, Found
  <2>2. Converged(r, k)'
    BY <1>b, <1>f, <1>g DEF Converged, Present, Late, Holds
  <2> QED
    BY <2>1, <2>2 DEF KeyOK
<1>3. Logged'
  BY <1>0, <1>b, <1>d, <1>e, JournalTyped DEF Logged, Active
<1>4. Sent'
  <2>1. \A q \in wire : q.run # r \/ q.key # k
    BY <1>0, <1>a, <1>e DEF Sent
  <2> QED
    BY <1>0, <1>b, <1>d, <1>e, <2>1 DEF Sent, Active, TypeOK, Requests
<1>5. Makers'
  BY <1>0, <1>b, <1>d DEF Makers, Active
<1>6. Named'
  BY <1>0, <1>b, <1>f, <1>g DEF Named
<1>7. Own'
  <2>1. Journaled(r, k, "create") => op[r][k].form = "create"
    BY <1>0, <1>e DEF Journaled, Logged
  <2> QED
    BY <1>0, <1>b, <1>e, <1>f, <1>g, <2>1 DEF Own, Active, Journaled
<1>8. Forgotten'
  BY <1>0, <1>b, <1>e, <1>g DEF Forgotten, Active, Journaled, NoTrace, Present, Found
<1>9. Stale'
  <2> SUFFICES ASSUME NEW q \in wire, q.form = "update"
               PROVE  /\ q.ident # None
                      /\ object[q.ident].key = q.key
                      /\ entry'[q.key].identity # q.ident
                      /\ \A s \in Runs : op'[s][q.key].ident = q.ident => s = q.run
                      /\ \A s \in Runs : undo[s].ident # q.ident
    BY <1>b DEF Stale
  <2>1. q.key \in Keys /\ q.run \in Runs
    BY <1>0 DEF TypeOK, Requests
  <2>2. q.key = k => q.ident # i
    BY <1>0, <1>a, <1>e DEF Stale, Sent
  <2> QED
    BY <1>0, <1>d, <1>g, <2>1, <2>2 DEF Stale
<1>10. phase[r] = "running" \/ CommitStep(r, k)
  BY <1>a, <1>b, <1>d DEF CommitStep
<1> QED
  BY <1>1, <1>2, <1>3, <1>4, <1>5, <1>6, <1>7, <1>8, <1>9, <1>10, <1>b, <1>d, <1>g, QuietStepKeeps
     DEF OnlyKey, runVars, Journaled

\* A refused creation is withdrawn from the ledger: it left nothing behind.
LEMMA WithdrawKeeps == ASSUME IInv, NEW r \in Runs, NEW k \in Keys, Withdraw(r, k) PROVE IInv'
<1>0. TypeOK /\ Named /\ Own /\ Forgotten /\ Logged /\ Sent /\ Makers /\ Stale
  BY DEF IInv, Order, Effects
<1>a. phase[r] = "running" /\ op[r][k].pc = "refused" /\ AtKey(r, k, "failed")
  BY DEF Withdraw, Working
<1>b. UNCHANGED <<journal, object, wire, late, holder, phase, want, undo, report>>
  BY DEF Withdraw, runVars
<1>1. CASE UNCHANGED entry
  BY <1>a, <1>b, <1>1, GivingUpKeeps DEF InFlight, runVars
<1>2. CASE ~Found(op[r][k].was) /\ entry' = [entry EXCEPT ![k] = Gone]
  <2>c. /\ op' \in [Runs -> [Keys -> Operations]]
        /\ op'[r][k].pc = "failed"
        /\ op'[r][k].form = op[r][k].form
        /\ op'[r][k].ident = op[r][k].ident
        /\ op'[r][k].was = op[r][k].was
        /\ \A s \in Runs, j \in Keys : s # r \/ j # k => op'[s][j] = op[s][j]
    BY <1>0, <1>a, MovesTo DEF Places
  <2>d. /\ Active(r) /\ KeyOK(r, k) /\ op[r][k] \in Operations /\ entry[k] \in Entries
        /\ \A s \in Runs : s # r => ~Active(s)
    BY <1>a, AtWork
  <2>e. /\ entry' \in [Keys -> Entries] /\ entry'[k] = Gone
        /\ \A j \in Keys : j # k => entry'[j] = entry[j]
    BY <1>0, <1>2, <2>d, Writes, EntriesWritten
  <2>f. op[r][k].form = "create"
    BY <1>a, <1>2, <2>d DEF KeyOK, Decided, Recorded
  <2>g. NoTrace(r, k)
    <3>1. \A q \in wire : q.key # k \/ q.run # r
      BY <1>0, <1>a, <2>d DEF Sent
    <3>2. \A i \in Ids : object[i] # Absent => object[i].maker # r \/ object[i].key # k
      BY <1>0, <1>a, <2>d DEF Makers
    <3> QED
      BY <3>1, <3>2 DEF NoTrace, Present, Absent
  <2>1. TypeOK'
    BY <1>0, <1>b, <2>c, <2>e DEF TypeOK
  <2>2. KeyOK(r, k)'
    BY <2>c, <2>f DEF KeyOK, Decided, Intended, Landed, Converged, Recorded
  <2>3. Logged'
    BY <1>0, <1>b, <2>c, <2>d, JournalTyped DEF Logged, Active
  <2>4. Sent'
    BY <1>0, <1>b, <2>c, <2>d, <2>g DEF Sent, Active, NoTrace, TypeOK, Requests
  <2>5. Makers'
    BY <1>0, <1>b, <2>c DEF Makers, Active
  <2>6. Named' /\ Own'
    BY <1>0, <1>b, <2>e DEF Named, Own, Active, Journaled, Gone
  <2>7. Forgotten'
    BY <1>0, <1>b, <2>d, <2>e, <2>g DEF Forgotten, Active, Journaled, NoTrace, Present
  <2>8. Stale'
    BY <1>0, <1>b, <2>c, <2>e, StaleKept DEF Gone
  <2> QED
    BY <2>1, <2>2, <2>3, <2>4, <2>5, <2>6, <2>7, <2>8, <1>a, <1>b, <2>c, <2>e, QuietStepKeeps
       DEF OnlyKey, runVars, Journaled
<1> QED
  BY <1>1, <1>2 DEF Withdraw

\* The request goes out: it is journalled, and the only one for its key.
LEMMA SendKeeps == ASSUME IInv, NEW r \in Runs, NEW k \in Keys, Send(r, k) PROVE IInv'
<1>0. /\ TypeOK /\ Named /\ Own /\ Forgotten /\ Logged /\ Sent /\ Makers /\ Stale /\ Once /\ Quiet
      /\ IntentBeforeEffect
  BY DEF IInv, Order, Effects
<1> DEFINE x == Request(r, k)
<1>a. phase[r] = "running" /\ op[r][k].pc = "send" /\ AtKey(r, k, "sent")
  BY DEF Send, Working
<1>b. UNCHANGED <<entry, journal, object, late, holder, phase, want, undo, report>>
  BY DEF Send, runVars
<1>c. /\ op' \in [Runs -> [Keys -> Operations]]
      /\ op'[r][k].pc = "sent"
      /\ op'[r][k].form = op[r][k].form
      /\ op'[r][k].ident = op[r][k].ident
      /\ op'[r][k].was = op[r][k].was
      /\ \A s \in Runs, j \in Keys : s # r \/ j # k => op'[s][j] = op[s][j]
  BY <1>0, <1>a, MovesTo DEF Places, InFlight
<1>d. /\ Active(r) /\ KeyOK(r, k) /\ op[r][k] \in Operations /\ want[r][k] \in Docs
      /\ \A s \in Runs : s # r => ~Active(s)
  BY <1>a, AtWork
<1>e. /\ x \in Requests /\ x.run = r /\ x.key = k /\ x.form = op[r][k].form
      /\ x.doc = want[r][k] /\ x.ident = op[r][k].ident
  BY <1>a, <1>d DEF Request, Requests, KeyOK, Decided, Operations
<1> HIDE DEF x
<1>f. wire' = wire \cup {x}
  BY DEF Send, x
<1>g. \A q \in wire : q.key # k \/ q.run # r
  BY <1>0, <1>a, <1>d DEF Sent
<1>h. \A i \in Ids : object[i] # Absent => object[i].maker # r \/ object[i].key # k
  BY <1>0, <1>a, <1>d DEF Makers
<1>i. entry[k].phase = "Pending" /\ entry[k].identity = None /\ Journaled(r, k, op[r][k].form)
  BY <1>a, <1>d DEF KeyOK, Intended, Recorded
<1>1. TypeOK'
  BY <1>0, <1>b, <1>c, <1>e, <1>f DEF TypeOK
<1>2. KeyOK(r, k)'
  BY <1>a, <1>b, <1>c, <1>d DEF KeyOK, Decided, Intended, Landed, Converged, Recorded, Journaled
<1>3. Logged'
  BY <1>0, <1>b, <1>c, <1>d, JournalTyped DEF Logged, Active
<1>4. Sent'
  <2> SUFFICES ASSUME NEW q \in wire', Active(q.run)'
               PROVE  LET o == op'[q.run][q.key] IN
                      /\ o.pc \in {"sent", "failed"}
                      /\ q.form = o.form /\ q.ident = o.ident /\ q.doc = want[q.run][q.key]
    BY <1>b DEF Sent
  <2>1. CASE q = x
    BY <1>c, <1>e, <2>1
  <2>2. CASE q \in wire
    BY <1>0, <1>b, <1>c, <1>g, <2>2 DEF Sent, Active, TypeOK, Requests
  <2> QED
    BY <1>f, <2>1, <2>2
<1>5. Makers'
  BY <1>0, <1>b, <1>c, <1>h DEF Makers, Active
<1>6. Named' /\ Own'
  BY <1>0, <1>b DEF Named, Own, Active, Journaled
<1>7. Forgotten'
  BY <1>0, <1>b, <1>e, <1>f, <1>i DEF Forgotten, Active, Journaled, NoTrace, Present, Found
<1>8. Stale'
  <2> SUFFICES ASSUME NEW q \in wire', q.form = "update"
               PROVE  /\ q.ident # None
                      /\ object[q.ident].key = q.key
                      /\ entry[q.key].identity # q.ident
                      /\ \A s \in Runs : op'[s][q.key].ident = q.ident => s = q.run
                      /\ \A s \in Runs : undo[s].ident # q.ident
    BY <1>b DEF Stale
  <2>1. CASE q = x
    <3>1. x.ident # None /\ object[x.ident].key = k
      BY <1>d, <1>e, <2>1 DEF KeyOK, Decided
    <3>2. \A s \in Runs : s # r => op[s][k].ident = None
      BY <1>0, <1>d DEF Quiet, Idle
    <3>3. \A s \in Runs : undo[s].ident = None
      BY <1>0, <1>a, <1>d DEF Quiet, NoUndo, Active
    <3> QED
      BY <1>c, <1>e, <1>i, <2>1, <3>1, <3>2, <3>3
  <2>2. CASE q \in wire
    <3>1. q.key \in Keys
      BY <1>0, <2>2 DEF TypeOK, Requests
    <3>2. \A s \in Runs : op'[s][q.key].ident = op[s][q.key].ident
      BY <1>c, <3>1
    <3> QED
      BY <1>0, <2>2, <3>2 DEF Stale
  <2> QED
    BY <1>f, <2>1, <2>2
<1>9. Once'
  <2>1. \A i \in Ids : object[i].maker # r \/ object[i].key # k
    BY <1>h, NoneIsApart DEF Absent
  <2> QED
    BY <1>0, <1>b, <1>e, <1>f, <1>g, <2>1 DEF Once
<1>10. \A q \in wire' : Journaled(q.run, q.key, q.form)'
  BY <1>0, <1>b, <1>e, <1>f, <1>i DEF IntentBeforeEffect, Journaled
<1> QED
  BY <1>1, <1>2, <1>3, <1>4, <1>5, <1>6, <1>7, <1>8, <1>9, <1>10, <1>a, <1>b, <1>c, KeyStepKeeps
     DEF OnlyKey, runVars, Journaled
-----------------------------------------------------------------------------
(***************************************************************************)
(* The provider.                                                           *)
(***************************************************************************)
\* Who waits for an answer is running, and the request is the one it sent.
LEMMA Waiting ==
  ASSUME IInv, NEW q \in wire
  PROVE  /\ q \in Requests /\ q.run \in Runs /\ q.key \in Keys
         /\ Working(q.run, q.key, "sent") => /\ Active(q.run) /\ phase[q.run] = "running"
                                             /\ op[q.run][q.key].pc = "sent"
         /\ Active(q.run) => /\ q.form = op[q.run][q.key].form
                             /\ q.ident = op[q.run][q.key].ident
                             /\ q.doc = want[q.run][q.key]
                             /\ op[q.run][q.key].pc \in {"sent", "failed"}
         /\ Active(q.run) /\ ~Working(q.run, q.key, "sent") => op[q.run][q.key].pc = "failed"
<1>1. TypeOK /\ Sent /\ Quiet
  BY DEF IInv, Order, Effects
<1>2. q \in Requests /\ q.run \in Runs /\ q.key \in Keys
  BY <1>1 DEF TypeOK, Requests
<1>3. phase[q.run] = "unwinding" => op[q.run][q.key].pc # "sent"
  BY <1>1, <1>2 DEF Quiet, InFlight
<1>4. Active(q.run) => /\ q.form = op[q.run][q.key].form
                       /\ q.ident = op[q.run][q.key].ident
                       /\ q.doc = want[q.run][q.key]
                       /\ op[q.run][q.key].pc \in {"sent", "failed"}
  BY <1>1 DEF Sent
<1> QED
  BY <1>2, <1>3, <1>4 DEF Working, Active

\* A request nobody waits for is refused: there is one request less.
LEMMA DropKeeps ==
  ASSUME IInv, NEW q \in wire, wire' = wire \ {q},
         UNCHANGED <<op, entry, journal, object>>, UNCHANGED runVars
  PROVE  IInv'
<1> USE DEF IInv, Order, Effects, Reversal
<1>0. UNCHANGED <<op, entry, journal, object, late, holder, phase, want, undo, report>>
  BY DEF runVars
<1>1. TypeOK'
  BY <1>0 DEF TypeOK
<1>2. Locked' /\ Quiet' /\ Wanted'
  BY <1>0 DEF Locked, Quiet, Wanted, Active
<1>3. KeysOK'
  BY <1>0 DEF KeysOK, KeyOK, Decided, Intended, Landed, Converged, Journaled, Present, Active, Late, Holds
<1>4. Logged' /\ Sent' /\ Makers' /\ Named' /\ Own' /\ Once'
  BY <1>0 DEF Logged, Sent, Makers, Named, Own, Once, Journaled, Active
<1>5. Stale'
  BY <1>0 DEF Stale
<1>6. Forgotten'
  BY <1>0 DEF Forgotten, NoTrace, Journaled, Present, Active
<1>7. IntentBeforeEffect'
  BY <1>0 DEF IntentBeforeEffect, Journaled, Working
<1>8. ToUndo' /\ UnderWay'
  BY <1>0 DEF ToUndo, UnderWay, FromJournal, First, Present, Late, Holds
<1>9. Reversed'
  BY <1>0 DEF Reversed, Undone, NoTrace, First, Present, Late, Holds
<1>10. Barred' /\ Posted'
  <2>1. \A i \in Ids : Around(i) => Around(i)'
    BY <1>0 DEF Around, Present
  <2> QED
    BY <1>0, <2>1, BarredKept, PostedKept
<1> QED
  BY <1>1, <1>2, <1>3, <1>4, <1>5, <1>6, <1>7, <1>8, <1>9, <1>10

\* A 4xx answer: the run knows that nothing happened.
LEMMA RefuseKeeps == ASSUME IInv, NEW q \in wire, Refuse(q) PROVE IInv'
<1>0. /\ TypeOK /\ Named /\ Own /\ Forgotten /\ Logged /\ Sent /\ Makers /\ Stale /\ Once
      /\ IntentBeforeEffect
  BY DEF IInv, Order, Effects
<1> DEFINE r == q.run
           k == q.key
<1>a. /\ wire' = wire \ {q}
      /\ UNCHANGED <<entry, journal, object, late, holder, phase, want, undo, report>>
  BY DEF Refuse, runVars
<1>b. /\ r \in Runs /\ k \in Keys
      /\ Working(r, k, "sent") => Active(r) /\ phase[r] = "running" /\ op[r][k].pc = "sent"
  BY Waiting
<1> HIDE DEF r, k
<1>1. CASE ~Working(r, k, "sent")
  <2>1. op' = op
    <3>1. op' = [op EXCEPT ![r][k].pc = @]
      BY <1>1 DEF Refuse, r, k
    <3>2. op \in [Runs -> [Keys -> Operations]] /\ op[r] \in [Keys -> Operations]
      BY <1>0, <1>b DEF TypeOK
    <3>3. [op[r][k] EXCEPT !.pc = op[r][k].pc] = op[r][k]
      BY <1>b, <3>2 DEF Operations
    <3>4. op' = [op EXCEPT ![r] = [op[r] EXCEPT ![k] = op[r][k]]]
      BY <1>b, <3>1, <3>2, <3>3
    <3>5. [op[r] EXCEPT ![k] = op[r][k]] = op[r]
      BY <1>b, <3>2
    <3> QED
      BY <1>b, <3>2, <3>4, <3>5
  <2> QED
    BY <1>a, <2>1, DropKeeps DEF runVars
<1>2. CASE Working(r, k, "sent")
  <2>a. AtKey(r, k, "refused")
    BY <1>2 DEF Refuse, AtKey, r, k
  <2>b. /\ op' \in [Runs -> [Keys -> Operations]]
        /\ op'[r][k].pc = "refused"
        /\ op'[r][k].form = op[r][k].form
        /\ op'[r][k].ident = op[r][k].ident
        /\ op'[r][k].was = op[r][k].was
        /\ \A s \in Runs, j \in Keys : s # r \/ j # k => op'[s][j] = op[s][j]
    BY <1>0, <1>b, <2>a, MovesTo DEF Places, InFlight
  <2>c. /\ Active(r) /\ KeyOK(r, k) /\ \A s \in Runs : s # r => ~Active(s)
    BY <1>2, <1>b, AtWork
  <2>d. \A x \in wire' : x.run # r \/ x.key # k
    BY <1>0, <1>a DEF Once, r, k
  <2>e. \A i \in Ids : object[i] # Absent => object[i].maker # r \/ object[i].key # k
    BY <1>0, <1>2, <1>b DEF Makers
  <2>1. TypeOK'
    BY <1>0, <1>a, <2>b DEF TypeOK
  <2>2. KeyOK(r, k)'
    BY <1>2, <1>a, <1>b, <2>b, <2>c
       DEF KeyOK, Decided, Intended, Landed, Converged, Recorded, Journaled
  <2>3. Logged'
    BY <1>0, <1>a, <2>b, <2>c, JournalTyped DEF Logged, Active
  <2>4. Sent'
    <3> SUFFICES ASSUME NEW x \in wire', Active(x.run)
                 PROVE  LET o == op'[x.run][x.key] IN
                        /\ o.pc \in {"sent", "failed"}
                        /\ x.form = o.form /\ x.ident = o.ident /\ x.doc = want[x.run][x.key]
      BY <1>a DEF Sent, Active
    <3>1. x \in wire /\ x.run \in Runs /\ x.key \in Keys
      BY <1>0, <1>a DEF TypeOK, Requests
    <3> QED
      BY <1>0, <2>b, <2>d, <3>1 DEF Sent
  <2>5. Makers'
    BY <1>0, <1>a, <2>b, <2>e DEF Makers, Active
  <2>6. Named' /\ Own' /\ Once' /\ Forgotten'
    BY <1>0, <1>a DEF Named, Own, Once, Forgotten, Active, Journaled, NoTrace, Present
  <2>7. Stale'
    BY <1>0, <1>a, <2>b, StaleKept
  <2>8. \A x \in wire' : Journaled(x.run, x.key, x.form)'
    BY <1>0, <1>a DEF IntentBeforeEffect, Journaled
  <2> QED
    BY <2>1, <2>2, <2>3, <2>4, <2>5, <2>6, <2>7, <2>8, <1>2, <1>a, <1>b, <2>b, KeyStepKeeps
       DEF OnlyKey, runVars, Journaled
<1> QED
  BY <1>1, <1>2

\* The answer's way back to the run, if it still waits.
LEMMA AnswerMoves ==
  ASSUME TypeOK, NEW r \in Runs, NEW k \in Keys, NEW i \in Ids, Answered(r, k, i)
  PROVE  /\ op' \in [Runs -> [Keys -> Operations]]
         /\ \A s \in Runs, j \in Keys : s # r \/ j # k => op'[s][j] = op[s][j]
         /\ ~Working(r, k, "sent") => op'[r][k] = op[r][k]
         /\ Working(r, k, "sent") => /\ op'[r][k].pc = "landed"
                                     /\ op'[r][k].ident = i
                                     /\ op'[r][k].form = op[r][k].form
                                     /\ op'[r][k].was = op[r][k].was
<1> DEFINE o == IF Working(r, k, "sent")
                  THEN [op[r][k] EXCEPT !.pc = "landed", !.ident = i] ELSE op[r][k]
<1>2. op[r][k] \in Operations
  BY DEF TypeOK
<1>3. /\ o \in Operations
      /\ ~Working(r, k, "sent") => o = op[r][k]
      /\ Working(r, k, "sent") => /\ o.pc = "landed" /\ o.ident = i
                                  /\ o.form = op[r][k].form /\ o.was = op[r][k].was
  BY <1>2 DEF Operations, InFlight, IdentOrNone, Ids
<1>4. op' = [op EXCEPT ![r][k] = o]
  BY DEF TypeOK, Answered
<1> HIDE DEF o
<1>5. /\ op' \in [Runs -> [Keys -> Operations]]
      /\ op'[r][k] = o
      /\ \A s \in Runs, j \in Keys : s # r \/ j # k => op'[s][j] = op[s][j]
  BY <1>3, <1>4, Moves
<1> QED
  BY <1>3, <1>5

\* What an effect leaves alone, whether an update's or a creation's: every
\* object a run, the ledger or an unwinding refers to, but the one answered for.
Untouched ==
    /\ \A r \in Runs, k \in Keys :
          Active(r) /\ op[r][k].pc = "landed" => object'[op[r][k].ident] = object[op[r][k].ident]
    /\ \A k \in Keys : entry[k].identity # None =>
          object'[entry[k].identity] = object[entry[k].identity]
    /\ \A r \in Runs : phase[r] = "unwinding" /\ undo[r].at # "next" =>
          object'[undo[r].ident] = object[undo[r].ident]

\* The provider acts on a request that was made, and nothing that is
\* referred to changes under those who refer to it.
Effected(q, i) ==
    /\ wire' = wire \ {q}
    /\ Answered(q.run, q.key, i)
    /\ UNCHANGED <<entry, journal>> /\ UNCHANGED runVars
    /\ object' \in [Ids -> Objects]
    /\ \A j \in Ids : object[j].key # None =>
          object'[j].key = object[j].key /\ object'[j].maker = object[j].maker
    /\ object'[i].key = q.key /\ object'[i].status = "present" /\ object'[i].doc = q.doc
    /\ q.form = "create" => object'[i].maker = q.run
    /\ \A r \in Runs, k \in Keys : Active(r) /\ NoTrace(r, k) => NoTrace(r, k)'
    /\ \A j \in Ids : object'[j] # Absent => Journaled(object'[j].maker, object'[j].key, "create")
    /\ \A j \in Ids : Around(j) => Around(j)'

\* The provider acts: whatever it did, the invariant holds of what it left.
LEMMA EffectKeeps ==
  ASSUME IInv, NEW q \in wire, NEW i \in Ids, NEW r \in Runs, NEW k \in Keys,
         q.run = r, q.key = k, Effected(q, i), Untouched, Makers', Stale', Once', Forgotten'
  PROVE  IInv'
<1>0. /\ TypeOK /\ Locked /\ Quiet /\ Wanted /\ KeysOK /\ Logged /\ Sent /\ Makers /\ Named /\ Stale
      /\ Own /\ Once /\ Forgotten /\ IntentBeforeEffect /\ ToUndo /\ UnderWay /\ Reversed
      /\ Barred /\ Posted
  BY DEF IInv, Order, Effects, Reversal
<1>a. UNCHANGED <<entry, journal, late, holder, phase, want, undo, report>>
  BY DEF Effected, runVars
<1>b. /\ Working(r, k, "sent") => Active(r) /\ phase[r] = "running" /\ op[r][k].pc = "sent"
      /\ Active(r) => /\ q.form = op[r][k].form
                      /\ q.ident = op[r][k].ident
                      /\ q.doc = want[r][k]
                      /\ op[r][k].pc \in {"sent", "failed"}
  BY Waiting
<1>c. /\ op' \in [Runs -> [Keys -> Operations]]
      /\ \A s \in Runs, j \in Keys : s # r \/ j # k => op'[s][j] = op[s][j]
      /\ ~Working(r, k, "sent") => op'[r][k] = op[r][k]
      /\ Working(r, k, "sent") => /\ op'[r][k].pc = "landed"
                                  /\ op'[r][k].ident = i
                                  /\ op'[r][k].form = op[r][k].form
                                  /\ op'[r][k].was = op[r][k].was
  BY <1>0, AnswerMoves DEF Effected
<1>d. \A x \in wire' : x.run # r \/ x.key # k
  BY <1>0 DEF Once, Effected
<1>1. TypeOK'
  BY <1>0, <1>a, <1>c DEF TypeOK, Effected
<1>2. Locked' /\ Wanted'
  BY <1>0, <1>a DEF Locked, Wanted, Active
<1>3. Quiet'
  <2>1. Working(r, k, "sent") => phase[r] = "running"
    BY <1>b
  <2> QED
    <3>1. \A s \in Runs, j \in Keys : phase[s] # "running" => op'[s][j] = op[s][j]
      BY <1>c, <2>1
    <3> QED
      BY <1>0, <1>a, <3>1 DEF Quiet, Active
<1>4. KeysOK'
  <2> SUFFICES ASSUME NEW s \in Runs, Active(s), NEW j \in Keys PROVE KeyOK(s, j)'
    BY <1>a DEF KeysOK, Active
  <2>0. KeyOK(s, j) /\ op[s][j] \in Operations
    BY <1>0 DEF KeysOK, TypeOK
  <2>1. CASE s = r /\ j = k /\ Working(r, k, "sent")
    <3>1. Decided(s, j)'
      <4>1. op[s][j].form = "update" => Found(entry[k]) /\ Found(op[s][j].was)
        BY <1>b, <2>0, <2>1 DEF KeyOK, Decided, Recorded
      <4>2. op'[s][j].form \in {"create", "update"} /\ op'[s][j].ident = i /\ i # None
        BY <1>b, <1>c, <2>0, <2>1, NoneAssumption DEF KeyOK, Decided, Ids
      <4> QED
        BY <1>a, <1>c, <2>1, <4>1, <4>2 DEF Decided, Recorded, Effected
    <3>2. Intended(s, j)'
      <4>1. /\ entry[k].phase = "Pending" /\ entry[k].identity = None
            /\ entry[k].proposed = want[r][k] /\ Journaled(r, k, op[r][k].form)
        BY <1>b, <2>0, <2>1 DEF KeyOK, Intended, Recorded
      <4>2. Journaled(s, j, op[s][j].form)'
        BY <1>a, <1>c, <2>1, <4>1 DEF Journaled
      <4> QED
        BY <1>a, <1>c, <2>1, <4>1, <4>2 DEF Intended
    <3>3. Landed(s, j)'
      BY <1>a, <1>b, <1>c, <2>1, NoneAssumption DEF Landed, Present, Ids, Effected, Late, Holds
    <3>4. Converged(s, j)'
      BY <1>c, <2>1 DEF Converged
    <3> QED
      BY <3>1, <3>2, <3>3, <3>4 DEF KeyOK
  <2>2. CASE ~(s = r /\ j = k /\ Working(r, k, "sent"))
    <3>0. op'[s][j] = op[s][j]
      BY <1>c, <2>2
    <3>1. Decided(s, j)'
      <4>1. op[s][j].form = "update" => object'[op[s][j].ident].key = j
        BY <2>0, NoneIsApart DEF KeyOK, Decided, Operations, IdentOrNone, Ids, Effected
      <4> QED
        BY <1>a, <2>0, <3>0, <4>1 DEF KeyOK, Decided
    <3>2. Intended(s, j)'
      BY <1>a, <2>0, <3>0 DEF KeyOK, Intended, Journaled
    <3>3. Landed(s, j)'
      <4>1. op[s][j].pc = "landed" => object'[op[s][j].ident] = object[op[s][j].ident]
        BY DEF Untouched
      <4> QED
        BY <1>a, <2>0, <3>0, <4>1 DEF KeyOK, Landed, Present, Late, Holds
    <3>4. Converged(s, j)'
      <4>1. entry[j].identity # None => object'[entry[j].identity] = object[entry[j].identity]
        BY DEF Untouched
      <4> QED
        BY <1>a, <2>0, <3>0, <4>1 DEF KeyOK, Converged, Present, Late, Holds
    <3> QED
      BY <3>1, <3>2, <3>3, <3>4 DEF KeyOK
  <2> QED
    BY <2>1, <2>2
<1>5. Logged'
  <2> SUFFICES ASSUME NEW s \in Runs, Active(s), NEW n \in DOMAIN journal[s]
               PROVE  LET o == op'[s][journal[s][n].key] IN
                      /\ o.pc \notin {"idle", "kept", "open", "append"}
                      /\ journal[s][n].form = o.form
                      /\ journal[s][n].prior = o.was.plan
    BY <1>a DEF Logged, Active
  <2>1. journal[s][n].key \in Keys
    BY <1>0, JournalTyped
  <2> QED
    BY <1>0, <1>c, <2>1 DEF Logged
<1>6. Sent'
  <2> SUFFICES ASSUME NEW x \in wire', Active(x.run)
               PROVE  LET o == op'[x.run][x.key] IN
                      /\ o.pc \in {"sent", "failed"}
                      /\ x.form = o.form /\ x.ident = o.ident /\ x.doc = want[x.run][x.key]
    BY <1>a DEF Sent, Active
  <2>1. x \in wire /\ x.run \in Runs /\ x.key \in Keys
    BY <1>0 DEF TypeOK, Requests, Effected
  <2>2. op'[x.run][x.key] = op[x.run][x.key]
    BY <1>c, <1>d, <2>1
  <2> QED
    BY <1>0, <2>1, <2>2 DEF Sent
<1>7. Named' /\ Own'
  BY <1>0, <1>a DEF Named, Own, Untouched, Journaled, Active
<1>8. IntentBeforeEffect'
  BY <1>0, <1>4, <1>a DEF IntentBeforeEffect, Effected, Journaled, KeysOK, KeyOK, Intended, Working, Active, Recorded
<1>9. ToUndo' /\ Barred' /\ Posted'
  <2>1. ToUndo'
    BY <1>0, <1>a DEF ToUndo, FromJournal
  <2> QED
    BY <1>0, <1>a, <2>1, BarredKept, PostedKept DEF Effected
<1>10. UnderWay'
  <2> SUFFICES ASSUME NEW s \in Runs, phase[s] = "unwinding", undo[s].at # "next"
               PROVE  op'[s][First(s).key] = op[s][First(s).key]
    BY <1>0, <1>a DEF UnderWay, Untouched, First, Present, Late, Holds
  <2>1. First(s).key \in Keys
    BY <1>0, FirstTyped DEF UnderWay
  <2> QED
    BY <1>b, <1>c, <2>1
<1>11. Reversed'
  <2> SUFFICES ASSUME NEW s \in Runs, phase[s] = "unwinding", NEW n \in DOMAIN journal[s],
                      Undone(s, journal[s][n])
               PROVE  Undone(s, journal[s][n])'
    BY <1>0, <1>a DEF Reversed, First
  <2>1. journal[s][n].key \in Keys /\ Active(s)
    BY <1>0, JournalTyped DEF Active
  <2>2. CASE journal[s][n].form = "create"
    BY <1>a, <2>1, <2>2 DEF Undone, Effected
  <2>3. CASE journal[s][n].form # "create"
    BY <1>a, <2>1, <2>3 DEF Undone, Untouched, Present, Late, Holds
  <2> QED
    BY <2>2, <2>3
<1> QED
  BY <1>1, <1>2, <1>3, <1>4, <1>5, <1>6, <1>7, <1>8, <1>9, <1>10, <1>11 DEF IInv, Order, Effects, Reversal

\* An update lands: on an object only its sender refers to.
LEMMA LandUpdateKeeps ==
  ASSUME IInv, NEW q \in wire, NEW i \in Ids, q.form = "update", i = q.ident, Present(i),
         wire' = wire \ {q}, object' = [object EXCEPT ![i] = Holding(@, q.doc)],
         Answered(q.run, q.key, i), UNCHANGED <<entry, journal>>, UNCHANGED runVars
  PROVE  IInv'
<1>0. /\ TypeOK /\ KeysOK /\ Sent /\ Makers /\ Named /\ Stale /\ Once /\ Forgotten
      /\ IntentBeforeEffect /\ UnderWay
  BY DEF IInv, Order, Effects, Reversal
<1>1. PICK r \in Runs, k \in Keys : q.run = r /\ q.key = k
  BY Waiting
<1>a. /\ q \in Requests /\ q.doc \in DocOrNone
      /\ Working(r, k, "sent") => Active(r) /\ phase[r] = "running" /\ op[r][k].pc = "sent"
      /\ Active(r) => /\ q.form = op[r][k].form
                      /\ q.ident = op[r][k].ident
                      /\ op[r][k].pc \in {"sent", "failed"}
  BY <1>1, Waiting DEF Requests, DocOrNone
<1>b. UNCHANGED <<entry, journal, late, holder, phase, want, undo, report>>
  BY DEF runVars
<1>c. /\ op' \in [Runs -> [Keys -> Operations]]
      /\ \A s \in Runs, j \in Keys : s # r \/ j # k => op'[s][j] = op[s][j]
      /\ ~Working(r, k, "sent") => op'[r][k] = op[r][k]
      /\ Working(r, k, "sent") => /\ op'[r][k].pc = "landed"
                                  /\ op'[r][k].ident = i
                                  /\ op'[r][k].form = op[r][k].form
                                  /\ op'[r][k].was = op[r][k].was
  BY <1>0, <1>1, AnswerMoves
<1>d. object[i] \in Objects /\ object[i].key = k /\ object[i].status \in {"present", "reverted"}
  BY <1>0, <1>1 DEF TypeOK, Stale, Present
<1>e. /\ object' \in [Ids -> Objects]
      /\ object'[i].key = k /\ object'[i].status = "present" /\ object'[i].doc = q.doc
      /\ object'[i].maker = object[i].maker
      /\ \A j \in Ids : j # i => object'[j] = object[j]
  <2> DEFINE o == Holding(object[i], q.doc)
  <2>1. /\ o \in Objects /\ o.key = k /\ o.status = "present" /\ o.doc = q.doc
        /\ o.maker = object[i].maker
    BY <1>a, <1>d DEF Objects, Holding
  <2>2. object' = [object EXCEPT ![i] = o]
    BY <1>0 DEF TypeOK
  <2> HIDE DEF o
  <2> QED
    BY <1>0, <2>1, <2>2 DEF TypeOK
<1>f. \A j \in Ids : /\ object'[j].key = object[j].key /\ object'[j].maker = object[j].maker
                     /\ Present(j)' <=> Present(j)
                     /\ Around(j) => Around(j)'
                     /\ object'[j].status = "absent" => object[j].status = "absent"
                     /\ object'[j] # Absent => object[j] # Absent
  BY <1>d, <1>e DEF Absent, Present, Around
<1>2. Untouched
  <2>1. \A s \in Runs, j \in Keys : Active(s) /\ op[s][j].pc = "landed" =>
            op[s][j].ident \in Ids /\ op[s][j].ident # i
    <3> SUFFICES ASSUME NEW s \in Runs, NEW j \in Keys, Active(s), op[s][j].pc = "landed"
                 PROVE  op[s][j].ident \in Ids /\ op[s][j].ident # i
      OBVIOUS
    <3>1. KeyOK(s, j) /\ op[s][j] \in Operations
      BY <1>0 DEF KeysOK, TypeOK
    <3>2. op[s][j].ident \in Ids /\ object[op[s][j].ident].key = j
      BY <3>1 DEF KeyOK, Landed, Present, Operations, IdentOrNone, Ids, Late, Holds
    <3>3. op[s][k].ident = i => s = r
      BY <1>0, <1>1 DEF Stale
    <3> QED
      BY <1>a, <1>d, <3>2, <3>3
  <2>2. \A j \in Keys : entry[j].identity # None =>
            entry[j].identity \in Ids /\ entry[j].identity # i
    <3> SUFFICES ASSUME NEW j \in Keys, entry[j].identity # None
                 PROVE  entry[j].identity \in Ids /\ entry[j].identity # i
      OBVIOUS
    <3>1. entry[j].identity \in Ids /\ object[entry[j].identity].key = j
      BY <1>0 DEF TypeOK, Entries, IdentOrNone, Ids, Named
    <3>2. entry[k].identity # i
      BY <1>0, <1>1 DEF Stale
    <3> QED
      BY <1>d, <3>1, <3>2
  <2>3. \A s \in Runs : phase[s] = "unwinding" /\ undo[s].at # "next" =>
            undo[s].ident \in Ids /\ undo[s].ident # i
    <3>1. \A s \in Runs : undo[s].ident \in IdentOrNone
      BY <1>0 DEF TypeOK, Undos
    <3> QED
      BY <1>0, <3>1 DEF UnderWay, Stale, IdentOrNone, Ids
  <2> QED
    BY <1>e, <2>1, <2>2, <2>3 DEF Untouched
<1>3. Effected(q, i)
  <2>1. \A s \in Runs, j \in Keys : NoTrace(s, j) => NoTrace(s, j)'
    BY <1>f DEF NoTrace
  <2>2. \A j \in Ids : object'[j] # Absent => Journaled(object'[j].maker, object'[j].key, "create")
    BY <1>0, <1>f DEF IntentBeforeEffect
  <2> QED
    BY <1>1, <1>e, <1>f, <2>1, <2>2 DEF Effected
<1>4. Makers'
  <2> SUFFICES ASSUME NEW j \in Ids, object[j] # Absent, Active(object[j].maker)
               PROVE  LET o == op'[object[j].maker][object[j].key] IN
                      o.pc \in {"landed", "settled", "failed"} /\ o.form = "create"
    BY <1>0, <1>b, <1>f DEF Makers, Active
  <2>1. /\ object[j].maker \in Runs /\ object[j].key \in Keys
        /\ op[object[j].maker][object[j].key].pc \in {"landed", "settled", "failed"}
        /\ op[object[j].maker][object[j].key].form = "create"
    BY <1>0 DEF Makers
  <2> QED
    BY <1>a, <1>c, <2>1
<1>5. Stale'
  <2>1. \A s \in Runs, j \in Keys : op'[s][j].ident = op[s][j].ident
    BY <1>a, <1>c
  <2> QED
    BY <1>0, <1>b, <1>f, <2>1, StaleKept
<1>6. Once'
  BY <1>0, <1>f DEF Once
<1>7. Forgotten'
  BY <1>0, <1>b, <1>f DEF Forgotten, NoTrace, Journaled, Active
<1> QED
  BY <1>1, <1>2, <1>3, <1>4, <1>5, <1>6, <1>7, EffectKeeps

\* A creation lands: under an identity that was never used.
LEMMA LandCreateKeeps ==
  ASSUME IInv, NEW q \in wire, NEW i \in Ids, q.form = "create", object[i] = Absent,
         wire' = wire \ {q}, object' = [object EXCEPT ![i] = Made(q.key, q.doc, q.run)],
         Answered(q.run, q.key, i), UNCHANGED <<entry, journal>>, UNCHANGED runVars
  PROVE  IInv'
<1>0. /\ TypeOK /\ KeysOK /\ Sent /\ Makers /\ Named /\ Stale /\ Once /\ Forgotten /\ Quiet
      /\ IntentBeforeEffect /\ UnderWay
  BY DEF IInv, Order, Effects, Reversal
<1>1. PICK r \in Runs, k \in Keys : q.run = r /\ q.key = k
  BY Waiting
<1>a. /\ q.doc \in DocOrNone
      /\ Active(r) => q.form = op[r][k].form
      /\ Active(r) /\ ~Working(r, k, "sent") => op[r][k].pc = "failed"
  BY <1>1, Waiting DEF Requests, DocOrNone
<1>b. UNCHANGED <<entry, journal, late, holder, phase, want, undo, report>>
  BY DEF runVars
<1>c. /\ op' \in [Runs -> [Keys -> Operations]]
      /\ \A s \in Runs, j \in Keys : s # r \/ j # k => op'[s][j] = op[s][j]
      /\ ~Working(r, k, "sent") => op'[r][k] = op[r][k]
      /\ Working(r, k, "sent") => /\ op'[r][k].pc = "landed"
                                  /\ op'[r][k].ident = i
                                  /\ op'[r][k].form = op[r][k].form
                                  /\ op'[r][k].was = op[r][k].was
  BY <1>0, <1>1, AnswerMoves
<1>d. /\ object[i].key = None /\ object[i].maker = None /\ object[i].status = "absent"
  BY DEF Absent
<1>e. /\ object' \in [Ids -> Objects]
      /\ object'[i].key = k /\ object'[i].status = "present" /\ object'[i].doc = q.doc
      /\ object'[i].maker = r
      /\ \A j \in Ids : j # i => object'[j] = object[j]
  <2> DEFINE o == Made(q.key, q.doc, q.run)
  <2>1. /\ o \in Objects /\ o.key = k /\ o.status = "present" /\ o.doc = q.doc /\ o.maker = r
    BY <1>1, <1>a DEF Made, Objects
  <2> HIDE DEF o
  <2>2. object' = [object EXCEPT ![i] = o]
    BY DEF o
  <2> QED
    BY <1>0, <2>1, <2>2 DEF TypeOK
<1>g. \A j \in Ids : object[j].maker # r \/ object[j].key # k
  BY <1>0, <1>1 DEF Once
<1>2. Untouched
  <2>1. \A s \in Runs, j \in Keys : Active(s) /\ op[s][j].pc = "landed" =>
            op[s][j].ident \in Ids /\ op[s][j].ident # i
    <3> SUFFICES ASSUME NEW s \in Runs, NEW j \in Keys, Active(s), op[s][j].pc = "landed"
                 PROVE  op[s][j].ident \in Ids /\ op[s][j].ident # i
      OBVIOUS
    <3>1. KeyOK(s, j) /\ op[s][j] \in Operations
      BY <1>0 DEF KeysOK, TypeOK
    <3>2. op[s][j].ident \in Ids /\ object[op[s][j].ident].key = j
      BY <3>1 DEF KeyOK, Landed, Present, Operations, IdentOrNone, Ids, Late, Holds
    <3> QED
      BY <1>d, <3>2, NoneIsApart
  <2>2. \A j \in Keys : entry[j].identity # None =>
            entry[j].identity \in Ids /\ entry[j].identity # i
    <3> SUFFICES ASSUME NEW j \in Keys, entry[j].identity # None
                 PROVE  entry[j].identity \in Ids /\ entry[j].identity # i
      OBVIOUS
    <3>1. entry[j].identity \in Ids /\ object[entry[j].identity].key = j
      BY <1>0 DEF TypeOK, Entries, IdentOrNone, Ids, Named
    <3> QED
      BY <1>d, <3>1, NoneIsApart
  <2>3. \A s \in Runs : phase[s] = "unwinding" /\ undo[s].at # "next" =>
            undo[s].ident \in Ids /\ undo[s].ident # i
    <3> SUFFICES ASSUME NEW s \in Runs, phase[s] = "unwinding", undo[s].at # "next"
                 PROVE  undo[s].ident \in Ids /\ undo[s].ident # i
      OBVIOUS
    <3>1. undo[s].ident \in IdentOrNone /\ undo[s].todo \in Seq(JournalRecords)
      BY <1>0 DEF TypeOK, Undos
    <3>2. undo[s].todo # <<>> /\ undo[s].ident # None /\ object[undo[s].ident].key = First(s).key
      BY <1>0 DEF UnderWay
    <3>3. First(s).key \in Keys
      BY <1>0, <3>2, FirstTyped
    <3> QED
      BY <1>d, <3>1, <3>2, <3>3, NoneIsApart DEF IdentOrNone, Ids
  <2> QED
    BY <1>e, <2>1, <2>2, <2>3 DEF Untouched
<1>3. \A s \in Runs, j \in Keys : NoTrace(s, j) => NoTrace(s, j)'
  <2> SUFFICES ASSUME NEW s \in Runs, NEW j \in Keys, NoTrace(s, j) PROVE NoTrace(s, j)'
    OBVIOUS
  <2>1. s # r \/ j # k
    BY <1>1 DEF NoTrace
  <2> QED
    BY <1>e, <2>1 DEF NoTrace, Present
<1>4. Effected(q, i)
  <2>1. Journaled(r, k, "create")
    BY <1>0, <1>1 DEF IntentBeforeEffect
  <2>2. \A j \in Ids : object'[j] # Absent => Journaled(object'[j].maker, object'[j].key, "create")
    BY <1>0, <1>e, <2>1 DEF IntentBeforeEffect
  <2>3. \A j \in Ids : object[j].key # None =>
           object'[j].key = object[j].key /\ object'[j].maker = object[j].maker
    BY <1>d, <1>e
  <2>4. \A j \in Ids : Around(j) => Around(j)'
    BY <1>d, <1>e DEF Around, Present
  <2> QED
    BY <1>1, <1>3, <1>e, <2>2, <2>3, <2>4 DEF Effected
<1>5. Makers'
  <2> SUFFICES ASSUME NEW j \in Ids, object'[j] # Absent
               PROVE  /\ object'[j].maker \in Runs /\ object'[j].key \in Keys
                      /\ object'[j].status # "absent"
                      /\ Active(object'[j].maker) =>
                            LET o == op'[object'[j].maker][object'[j].key] IN
                            o.pc \in {"landed", "settled", "failed"} /\ o.form = "create"
    BY <1>b DEF Makers, Active
  <2>1. CASE j = i
    BY <1>1, <1>a, <1>c, <1>e, <2>1
  <2>2. CASE j # i
    <3>1. object'[j] = object[j] /\ (object[j].maker # r \/ object[j].key # k)
      BY <1>e, <1>g, <2>2
    <3> QED
      BY <1>0, <1>c, <3>1 DEF Makers
  <2> QED
    BY <2>1, <2>2
<1>6. Stale'
  <2> SUFFICES ASSUME NEW x \in wire', x.form = "update"
               PROVE  /\ x.ident # None
                      /\ object'[x.ident].key = x.key
                      /\ entry[x.key].identity # x.ident
                      /\ \A s \in Runs : op'[s][x.key].ident = x.ident => s = x.run
                      /\ \A s \in Runs : undo[s].ident # x.ident
    BY <1>b DEF Stale
  <2>1. x \in wire /\ x.key \in Keys /\ x.ident \in IdentOrNone
    BY <1>0 DEF TypeOK, Requests
  <2>2. /\ x.ident # None
        /\ object[x.ident].key = x.key
        /\ entry[x.key].identity # x.ident
        /\ \A s \in Runs : op[s][x.key].ident = x.ident => s = x.run
        /\ \A s \in Runs : undo[s].ident # x.ident
    BY <1>0, <2>1 DEF Stale
  <2>3. x.ident \in Ids /\ x.ident # i
    BY <1>d, <2>1, <2>2, NoneIsApart DEF IdentOrNone, Ids
  <2> QED
    BY <1>c, <1>e, <2>1, <2>2, <2>3
<1>7. Once'
  <2>1. \A x \in wire' : x.run # r \/ x.key # k
    BY <1>0, <1>1 DEF Once
  <2> QED
    BY <1>0, <1>e, <1>g, <2>1 DEF Once
<1>8. Forgotten'
  BY <1>0, <1>b, <1>3 DEF Forgotten, Journaled, Active
<1> QED
  BY <1>1, <1>2, <1>4, <1>5, <1>6, <1>7, <1>8, EffectKeeps

\* The provider acts on a request.
LEMMA LandKeeps == ASSUME IInv, NEW q \in wire, Land(q) PROVE IInv'
  BY LandUpdateKeeps, LandCreateKeeps DEF Land
-----------------------------------------------------------------------------
(***************************************************************************)
(* The beginning and the end of a run.                                     *)
(***************************************************************************)
\* hold: a run starts alone, with nothing done before.
LEMMA StartKeeps == ASSUME IInv, NEW r \in Runs, Start(r) PROVE IInv'
<1>0. /\ TypeOK /\ Locked /\ Quiet /\ Wanted /\ KeysOK /\ Logged /\ Sent /\ Makers /\ Named /\ Stale
      /\ Own /\ Once /\ Forgotten /\ IntentBeforeEffect /\ Barred /\ Posted
  BY DEF IInv, Order, Effects, Reversal
<1>a. /\ phase[r] = "new" /\ holder = None /\ holder' = r
      /\ UNCHANGED <<entry, journal, object, wire, late, op, undo, report>>
  BY DEF Start
<1>b. PICK f \in [Keys -> Docs] : want' = [want EXCEPT ![r] = f]
  BY DEF Start
<1>c. /\ phase' \in [Runs -> {"new", "running", "unwinding", "done", "dead"}]
      /\ phase'[r] = "running" /\ \A s \in Runs : s # r => phase'[s] = phase[s]
  BY <1>0 DEF Start, TypeOK
<1>d. /\ want' \in [Runs -> [Keys -> DocOrNone]]
      /\ want'[r] = f
  BY <1>0, <1>b DEF TypeOK, DocOrNone
<1>e. \A s \in Runs : ~Active(s)
  BY <1>0, <1>a, NoneIsApart DEF Locked
<1>f. \A s \in Runs : Active(s)' => s = r
  BY <1>c, <1>e DEF Active
<1>g. /\ \A k \in Keys : op[r][k] = Idle
      /\ journal[r] = <<>> /\ undo[r] = NoUndo
      /\ \A k, form : ~Journaled(r, k, form)
  BY <1>0, <1>a, <1>e DEF Quiet, Journaled
<1>h. /\ \A q \in wire : q.run # r
      /\ \A i \in Ids : object[i] # Absent => object[i].maker # r
  BY <1>0, <1>g DEF IntentBeforeEffect
<1>1. TypeOK'
  BY <1>0, <1>a, <1>c, <1>d DEF TypeOK
<1>2. Locked' /\ Wanted'
  BY <1>a, <1>d, <1>f DEF Locked, Wanted
<1>3. Quiet'
  BY <1>0, <1>a, <1>c, <1>g DEF Quiet, Active
<1>4. KeysOK'
  <2> SUFFICES ASSUME NEW k \in Keys PROVE KeyOK(r, k)'
    BY <1>f DEF KeysOK
  <2>1. op'[r][k].pc = "idle" /\ op'[r][k].form = None
    BY <1>a, <1>g DEF Idle
  <2> QED
    BY <2>1, NoneIsApart DEF KeyOK, Decided, Intended, Landed, Converged, Recorded
<1>5. Logged' /\ Sent'
  BY <1>0, <1>a, <1>f, <1>g, <1>h DEF Logged, Sent, TypeOK, Requests
<1>5a. Makers'
  BY <1>0, <1>a, <1>f, <1>h DEF Makers
<1>6. Named' /\ Once'
  BY <1>0, <1>a DEF Named, Once
<1>7. Stale'
  BY <1>0, <1>a, StaleKept
<1>8. Own' /\ Forgotten'
  BY <1>a, <1>f, <1>g DEF Own, Forgotten, Journaled
<1>9. IntentBeforeEffect'
  <2>1. \A s \in Runs, k \in Keys : ~Working(s, k, "sent")'
    BY <1>a, <1>c, <1>f, <1>g DEF Working, Active, Idle
  <2> QED
    BY <1>0, <1>a, <2>1 DEF IntentBeforeEffect, Journaled
<1>10. ToUndo' /\ UnderWay' /\ Reversed'
  BY <1>c, <1>f DEF ToUndo, UnderWay, Reversed, Active
<1>11. Barred' /\ Posted'
  BY <1>0, <1>a, <1>c, <1>f, PostedKept DEF Barred, Active
<1> QED
  BY <1>1, <1>2, <1>3, <1>4, <1>5, <1>5a, <1>6, <1>7, <1>8, <1>9, <1>10, <1>11
     DEF IInv, Order, Effects, Reversal

\* A run ends, as it should or by dying: nobody is at work any more.
LEMMA EndKeeps ==
  ASSUME IInv, NEW r \in Runs, Active(r), NEW how \in {"done", "dead"}, Ends(r, how),
         holder' \in Runs \cup {None}, report' \in [Runs -> Reports],
         \A s \in Runs : s # r => report'[s] = report[s],
         UNCHANGED <<entry, journal, object, wire, late>>
  PROVE  IInv'
<1>0. /\ TypeOK /\ Locked /\ Quiet /\ Makers /\ Named /\ Stale /\ Once /\ IntentBeforeEffect
      /\ Posted
  BY DEF IInv, Order, Effects, Reversal
<1>a. /\ phase' \in [Runs -> {"new", "running", "unwinding", "done", "dead"}]
      /\ phase'[r] = how /\ \A s \in Runs : s # r => phase'[s] = phase[s]
  BY <1>0 DEF Ends, TypeOK
<1>b. /\ want' \in [Runs -> [Keys -> DocOrNone]]
  BY <1>0 DEF Ends, TypeOK, DocOrNone
<1>c. /\ op' \in [Runs -> [Keys -> Operations]]
      /\ \A k \in Keys : op'[r][k] = Idle
      /\ \A s \in Runs : s # r => op'[s] = op[s]
  <2>1. Idle \in Operations
    BY DEF Operations, Idle, InFlight, IdentOrNone, Entries, Gone, Phases, DocOrNone, AboutOrNone
  <2> QED
    BY <1>0, <2>1 DEF Ends, TypeOK
<1>d. /\ undo' \in [Runs -> Undos]
      /\ undo'[r] = NoUndo
      /\ \A s \in Runs : s # r => undo'[s] = undo[s]
  <2>1. NoUndo \in Undos
    BY DEF Undos, NoUndo, IdentOrNone
  <2> QED
    BY <1>0, <2>1 DEF Ends, TypeOK
<1>e. \A s \in Runs : ~Active(s)'
  BY <1>0, <1>a, Alone DEF Active
<1>1. TypeOK'
  BY <1>0, <1>a, <1>b, <1>c, <1>d DEF TypeOK
<1>2. Locked' /\ Wanted' /\ KeysOK' /\ Logged' /\ Own' /\ Forgotten'
  BY <1>e DEF Locked, Wanted, KeysOK, Logged, Own, Forgotten
<1>3. Quiet'
  BY <1>0, <1>a, <1>c, <1>d DEF Quiet, Active
<1>4. Sent' /\ Makers'
  BY <1>0, <1>1, <1>e DEF Sent, Makers, TypeOK, Requests
<1>5. Named' /\ Once'
  BY <1>0 DEF Named, Once
<1>6. Stale'
  <2>1. \A s \in Runs, k \in Keys : op'[s][k].ident = None \/ op'[s][k].ident = op[s][k].ident
    BY <1>c DEF Idle
  <2>2. \A s \in Runs : undo'[s].ident = None \/ undo'[s].ident = undo[s].ident
    BY <1>d DEF NoUndo
  <2> QED
    BY <1>0, <2>1, <2>2, StaleKept
<1>7. IntentBeforeEffect'
  BY <1>0, <1>e DEF IntentBeforeEffect, Journaled, Working, Active
<1>8. ToUndo' /\ UnderWay' /\ Reversed'
  BY <1>e DEF ToUndo, UnderWay, Reversed, Active
<1>9. Barred' /\ Posted'
  BY <1>0, <1>e, PostedKept DEF Barred, Active
<1> QED
  BY <1>1, <1>2, <1>3, <1>4, <1>5, <1>6, <1>7, <1>8, <1>9 DEF IInv, Order, Effects, Reversal

\* A reversed sequence has the elements of the sequence.
LEMMA ReverseOf ==
  ASSUME NEW S, NEW s \in Seq(S)
  PROVE  /\ Reverse(s) \in Seq(S)
         /\ \A n \in DOMAIN Reverse(s) : \E m \in DOMAIN s : Reverse(s)[n] = s[m]
  BY DEF Reverse

\* The section is over.
LEMMA SettleKeeps == ASSUME IInv, NEW r \in Runs, Settle(r) PROVE IInv'
<1>0. /\ TypeOK /\ Locked /\ Quiet /\ Wanted /\ KeysOK /\ Logged /\ Sent /\ Makers /\ Named /\ Stale
      /\ Own /\ Once /\ Forgotten /\ IntentBeforeEffect /\ Barred /\ Posted
  BY DEF IInv, Order, Effects, Reversal
<1>a. /\ phase[r] = "running" /\ Active(r)
      /\ \A k \in Keys : op[r][k].pc \notin InFlight \ {"landed"}
      /\ UNCHANGED <<entry, journal, object, wire, late, report>>
  BY DEF Settle, Stopped, Active
<1>b. \A s \in Runs : s # r => ~Active(s)
  BY <1>0, <1>a, Alone
<1>1. CASE ~Failed(r)
  <2>1. Ends(r, "done") /\ Release(r)
    BY <1>1 DEF Settle
  <2>2. holder' \in Runs \cup {None} /\ report' \in [Runs -> Reports]
    BY <1>0, <1>a, <2>1 DEF Release, TypeOK
  <2> QED
    BY <1>a, <2>1, <2>2, EndKeeps
<1>2. CASE Failed(r)
  <2>a. UNCHANGED <<entry, journal, object, wire, late, report, holder, want, op>>
    BY <1>2, <1>a DEF Settle
  <2>b. /\ phase' \in [Runs -> {"new", "running", "unwinding", "done", "dead"}]
        /\ phase'[r] = "unwinding" /\ \A s \in Runs : s # r => phase'[s] = phase[s]
    BY <1>0, <1>2 DEF Settle, TypeOK
  <2>c. /\ undo' \in [Runs -> Undos]
        /\ undo'[r].todo = Reverse(journal[r]) /\ undo'[r].blocked = <<>>
        /\ undo'[r].at = "next" /\ undo'[r].ident = None
        /\ \A s \in Runs : s # r => undo'[s] = undo[s]
    <3> DEFINE todo == Reverse(journal[r])
               u == [undo[r] EXCEPT !.todo = todo]
    <3>1. todo \in Seq(JournalRecords)
      BY <1>0, ReverseOf DEF TypeOK
    <3>2. undo' = [undo EXCEPT ![r] = u]
      BY <1>0, <1>2 DEF Settle, TypeOK
    <3>3. undo[r] \in Undos /\ undo[r] = NoUndo
      BY <1>0, <1>a DEF Quiet, TypeOK
    <3> HIDE DEF todo
    <3>4. /\ u \in Undos /\ u.todo = todo
          /\ u.blocked = undo[r].blocked /\ u.at = undo[r].at /\ u.ident = undo[r].ident
      BY <3>1, <3>3 DEF Undos
    <3>5. undo[r].blocked = <<>> /\ undo[r].at = "next" /\ undo[r].ident = None
      BY <3>3 DEF NoUndo
    <3> HIDE DEF u
    <3> QED
      BY <1>0, <3>2, <3>4, <3>5 DEF TypeOK, todo
  <2>d. \A s \in Runs : Active(s)' <=> Active(s)
    BY <1>a, <2>b DEF Active
  <2>1. TypeOK'
    BY <1>0, <2>a, <2>b, <2>c DEF TypeOK
  <2>2. Locked' /\ Wanted'
    BY <1>0, <2>a, <2>d DEF Locked, Wanted
  <2>3. Quiet'
    BY <1>0, <1>a, <2>a, <2>b, <2>c DEF Quiet, Active
  <2>4. KeysOK'
    <3> SUFFICES ASSUME NEW k \in Keys PROVE KeyOK(r, k)'
      BY <1>b, <2>d DEF KeysOK
    <3>1. KeyOK(r, k)
      BY <1>0, <1>a DEF KeysOK
    <3> QED
      BY <2>a, <2>b, <3>1 DEF KeyOK, Decided, Intended, Landed, Converged, Journaled, Present, Late, Holds
  <2>5. Logged' /\ Own' /\ Forgotten'
    BY <1>0, <2>a, <2>d DEF Logged, Own, Forgotten, Journaled, NoTrace, Present
  <2>6. Sent' /\ Makers'
    BY <1>0, <2>a, <2>d DEF Sent, Makers, TypeOK, Requests
  <2>7. Named' /\ Once'
    BY <1>0, <2>a DEF Named, Once
  <2>8. Stale'
    BY <1>0, <2>a, <2>c, StaleKept
  <2>9. IntentBeforeEffect'
    BY <1>0, <1>a, <2>a, <2>b DEF IntentBeforeEffect, Journaled, Working
  <2>10. ToUndo' /\ UnderWay'
    <3>1. FromJournal(r, undo'[r].todo)
      BY <1>0, <2>c, ReverseOf DEF FromJournal, TypeOK
    <3>2. \A s \in Runs : phase'[s] = "unwinding" => s = r
      BY <1>b, <2>b DEF Active
    <3> QED
      BY <2>a, <2>c, <3>1, <3>2 DEF ToUndo, UnderWay, FromJournal
  <2>11. Reversed'
    <3>1. report'[r].compensated = {}
      BY <1>0, <1>a, <2>a DEF Quiet
    <3> QED
      BY <1>b, <2>b, <3>1 DEF Reversed, Active
  <2>12. Barred' /\ Posted'
    <3>1. \A s \in Runs : phase'[s] = "unwinding" => s = r
      BY <1>b, <2>b DEF Active
    <3> QED
      BY <1>0, <2>a, <2>c, <3>1, PostedKept DEF Barred
  <2> QED
    BY <2>1, <2>2, <2>3, <2>4, <2>5, <2>6, <2>7, <2>8, <2>9, <2>10, <2>11, <2>12
       DEF IInv, Order, Effects, Reversal
<1> QED
  BY <1>1, <1>2

\* The journal cannot be read back, and a crash.
LEMMA DeathKeeps == ASSUME IInv, NEW r \in Runs, UnwindFails(r) \/ Crash(r) PROVE IInv'
<1>1. TypeOK
  BY DEF IInv, Order
<1>2. /\ Active(r) /\ Ends(r, "dead") /\ UNCHANGED <<entry, journal, object, wire, late, report>>
      /\ holder' = None \/ holder' = holder
  BY DEF UnwindFails, Crash, Active, Release
<1>3. holder' \in Runs \cup {None} /\ report' \in [Runs -> Reports]
  BY <1>1, <1>2 DEF TypeOK
<1> QED
  BY <1>2, <1>3, EndKeeps

\* The lock of a dead run lapses, or nothing happens.
LEMMA LapseKeeps == ASSUME IInv, Lapse \/ UNCHANGED vars PROVE IInv'
<1> USE DEF IInv, Order, Effects, Reversal
<1>0. UNCHANGED <<entry, journal, object, wire, late, phase, want, op, undo, report>>
  BY DEF Lapse, vars
<1>1. TypeOK'
  BY <1>0 DEF TypeOK, Lapse, vars
<1>2. Locked' /\ Quiet' /\ Wanted'
  BY <1>0 DEF Locked, Quiet, Wanted, Active, Lapse, vars
<1>3. KeysOK'
  BY <1>0 DEF KeysOK, KeyOK, Decided, Intended, Landed, Converged, Journaled, Present, Active, Late, Holds
<1>4. Logged' /\ Sent' /\ Makers' /\ Named' /\ Own' /\ Once'
  BY <1>0 DEF Logged, Sent, Makers, Named, Own, Once, Journaled, Active
<1>5. Stale'
  BY <1>0 DEF Stale
<1>6. Forgotten'
  BY <1>0 DEF Forgotten, NoTrace, Journaled, Present, Active
<1>7. IntentBeforeEffect'
  BY <1>0 DEF IntentBeforeEffect, Journaled, Working
<1>8. ToUndo' /\ UnderWay'
  BY <1>0 DEF ToUndo, UnderWay, FromJournal, First, Present, Late, Holds
<1>9. Reversed'
  BY <1>0 DEF Reversed, Undone, NoTrace, First, Present, Late, Holds
<1>10. Barred' /\ Posted'
  <2>1. \A i \in Ids : Around(i) => Around(i)'
    BY <1>0 DEF Around, Present
  <2> QED
    BY <1>0, <2>1, BarredKept, PostedKept
<1> QED
  BY <1>1, <1>2, <1>3, <1>4, <1>5, <1>6, <1>7, <1>8, <1>9, <1>10
-----------------------------------------------------------------------------
(***************************************************************************)
(* Unwinding.                                                              *)
(***************************************************************************)
\* A compensation changes no object's key or maker, and makes none present.
Lessens == \A i \in Ids : /\ object'[i].key = object[i].key /\ object'[i].maker = object[i].maker
                          /\ object'[i] # Absent <=> object[i] # Absent
                          /\ object'[i].status = "absent" => object[i].status = "absent"
                          /\ Present(i)' => Present(i)

\* A step of unwinding has to account for the entry, the object and the
\* record it works on.
LEMMA UnwindStepKeeps ==
  ASSUME IInv, NEW r \in Runs, phase[r] = "unwinding", Lessens,
         \A k \in Keys : op[r][k].pc = "landed" =>
            entry'[k] = entry[k] /\ object'[op[r][k].ident] = object[op[r][k].ident],
         UNCHANGED <<journal, wire, holder, phase, want, op>>,
         \A s \in Runs : s # r => undo'[s] = undo[s] /\ report'[s] = report[s],
         \A k \in Keys : op[r][k].form = "update" => Found(entry'[k]),
         FromJournal(r, undo'[r].todo), FromJournal(r, undo'[r].blocked),
         TypeOK', Named', Stale', Own', Forgotten', UnderWay', Reversed', Barred', Posted'
  PROVE  IInv'
<1>0. /\ TypeOK /\ Locked /\ Quiet /\ Wanted /\ KeysOK /\ Logged /\ Sent /\ Makers /\ Once
      /\ IntentBeforeEffect /\ ToUndo
  BY DEF IInv, Order, Effects, Reversal
<1>a. /\ Active(r) /\ \A s \in Runs : s # r => ~Active(s)
      /\ \A k \in Keys : op[r][k].pc \notin InFlight \ {"landed"}
  BY <1>0, Alone DEF Active, Quiet
<1>1. Locked' /\ Wanted'
  BY <1>0 DEF Locked, Wanted, Active
<1>2. Quiet'
  BY <1>0 DEF Quiet, Active
<1>3. KeysOK'
  <2> SUFFICES ASSUME NEW k \in Keys PROVE KeyOK(r, k)'
    BY <1>a DEF KeysOK, Active
  <2>1. KeyOK(r, k) /\ op[r][k] \in Operations
    BY <1>0, <1>a DEF KeysOK, TypeOK
  <2>2. Decided(r, k)'
    <3>1. op[r][k].form = "update" => object'[op[r][k].ident].key = object[op[r][k].ident].key
      BY <2>1 DEF KeyOK, Decided, Lessens, Operations, IdentOrNone, Ids
    <3> QED
      BY <2>1, <3>1 DEF KeyOK, Decided
  <2>3. Intended(r, k)'
    BY <1>a, <2>1 DEF KeyOK, Intended, InFlight, Recorded, Journaled
  <2>4. Landed(r, k)' /\ Converged(r, k)'
    BY <2>1 DEF KeyOK, Landed, Converged, Present, Late, Holds
  <2> QED
    BY <2>2, <2>3, <2>4 DEF KeyOK
<1>4. Logged' /\ Sent'
  BY <1>0 DEF Logged, Sent, Active
<1>5. Makers'
  BY <1>0 DEF Makers, Active, Lessens
<1>6. Once'
  BY <1>0 DEF Once, Lessens
<1>7. IntentBeforeEffect'
  <2>1. \A s \in Runs, k \in Keys : ~Working(s, k, "sent")'
    BY <1>a DEF Working, Active
  <2> QED
    BY <1>0, <2>1 DEF IntentBeforeEffect, Journaled, Lessens
<1>8. ToUndo'
  BY <1>0 DEF ToUndo, FromJournal
<1> QED
  BY <1>1, <1>2, <1>3, <1>4, <1>5, <1>6, <1>7, <1>8 DEF IInv, Order, Effects, Reversal

\* What is known of the record being undone: it is the journal's only one of its key.
LEMMA FirstOfJournal ==
  ASSUME IInv, NEW r \in Runs, phase[r] = "unwinding", undo[r].todo # <<>>
  PROVE  /\ Active(r) /\ \A s \in Runs : s # r => ~Active(s)
         /\ First(r).key \in Keys /\ First(r).form \in {"create", "update"}
         /\ First(r).prior \in DocOrNone
         /\ Journaled(r, First(r).key, First(r).form)
         /\ op[r][First(r).key].form = First(r).form
         /\ \A n \in DOMAIN journal[r] : journal[r][n].key = First(r).key => journal[r][n] = First(r)
         /\ FromJournal(r, Tail(undo[r].todo))
         /\ FromJournal(r, Append(undo[r].blocked, First(r)))
         /\ Tail(undo[r].todo) \in Seq(JournalRecords)
         /\ Append(undo[r].blocked, First(r)) \in Seq(JournalRecords)
<1>0. TypeOK /\ Locked /\ Logged /\ ToUndo
  BY DEF IInv, Order, Effects, Reversal
<1>1. Active(r) /\ \A s \in Runs : s # r => ~Active(s)
  BY <1>0, Alone DEF Active
<1>2. /\ undo[r].todo \in Seq(JournalRecords) /\ undo[r].blocked \in Seq(JournalRecords)
      /\ First(r) \in JournalRecords /\ First(r).key \in Keys
      /\ First(r).form \in {"create", "update"} /\ First(r).prior \in DocOrNone
      /\ Tail(undo[r].todo) \in Seq(JournalRecords)
  BY <1>0, FirstTyped DEF TypeOK, Undos
<1>3. FromJournal(r, undo[r].todo) /\ FromJournal(r, undo[r].blocked)
  BY <1>0 DEF ToUndo
<1>4. 1 \in DOMAIN undo[r].todo /\ First(r) = undo[r].todo[1]
  BY <1>2 DEF First
<1>5. PICK m \in DOMAIN journal[r] : First(r) = journal[r][m]
  BY <1>3, <1>4 DEF FromJournal
<1>6. /\ Journaled(r, First(r).key, First(r).form)
      /\ op[r][First(r).key].form = First(r).form
  BY <1>0, <1>1, <1>5 DEF Journaled, Logged
<1>7. ASSUME NEW n \in DOMAIN journal[r], journal[r][n].key = First(r).key
      PROVE  journal[r][n] = First(r)
  <2>1. journal[r][n] \in JournalRecords /\ journal[r][m] \in JournalRecords
    BY <1>0, JournalTyped
  <2>2. journal[r][n].form = journal[r][m].form /\ journal[r][n].prior = journal[r][m].prior
    BY <1>0, <1>1, <1>5, <1>7 DEF Logged
  <2> QED
    BY <1>5, <1>7, <2>1, <2>2 DEF JournalRecords
<1>8. FromJournal(r, Tail(undo[r].todo))
  <2>1. \A n \in DOMAIN Tail(undo[r].todo) :
           n + 1 \in DOMAIN undo[r].todo /\ Tail(undo[r].todo)[n] = undo[r].todo[n + 1]
    BY <1>2
  <2> QED
    BY <1>3, <2>1 DEF FromJournal
<1>9. /\ FromJournal(r, Append(undo[r].blocked, First(r)))
      /\ Append(undo[r].blocked, First(r)) \in Seq(JournalRecords)
  <2>1. \A n \in DOMAIN Append(undo[r].blocked, First(r)) :
           \/ Append(undo[r].blocked, First(r))[n] = First(r)
           \/ /\ n \in DOMAIN undo[r].blocked
              /\ Append(undo[r].blocked, First(r))[n] = undo[r].blocked[n]
    BY <1>2
  <2> QED
    BY <1>2, <1>3, <1>5, <2>1 DEF FromJournal
<1> QED
  BY <1>1, <1>2, <1>6, <1>7, <1>8, <1>9

\* Between two compensations, everything the report calls compensated is undone.
LEMMA AllUndone ==
  ASSUME IInv, NEW r \in Runs, phase[r] = "unwinding", NEW n \in DOMAIN journal[r],
         journal[r][n].key \in report[r].compensated \ report[r].outstanding,
         undo[r].at # "begun" \/ First(r).key # journal[r][n].key
  PROVE  Undone(r, journal[r][n])
  BY DEF IInv, Reversal, Reversed

\* What is still blocked when the unwinding turns to the next record.
LEMMA BarredTurns ==
  ASSUME IInv, NEW r \in Runs, phase[r] = "unwinding", UNCHANGED <<object, phase>>,
         \A s \in Runs : s # r => undo'[s] = undo[s],
         undo[r].progressed => undo'[r].progressed,
         report[r].outstanding \subseteq report'[r].outstanding,
         \/ undo'[r].progressed
         \/ undo[r].at # "next" => First(r).key \in report'[r].outstanding,
         \A n \in DOMAIN undo'[r].blocked :
            \/ \E m \in DOMAIN undo[r].blocked : undo'[r].blocked[n] = undo[r].blocked[m]
            \/ HasDependent(undo'[r].blocked[n].key)
  PROVE  Barred'
<1>0. TypeOK /\ Locked /\ Barred
  BY DEF IInv, Order, Reversal
<1>1. \A s \in Runs : phase[s] = "unwinding" => s = r
  BY <1>0, Alone DEF Active
<1> SUFFICES ASSUME ~undo'[r].progressed, NEW n \in DOMAIN undo'[r].blocked
             PROVE  StillBlocked(r, undo[r].blocked[n].key)'
  BY <1>1 DEF Barred, Waits
<1> DEFINE x == undo'[r].blocked[n].key
<1>2. CASE HasDependent(x)
  BY <1>2 DEF HasDependent, StillBlocked, Present
<1>3. CASE \E m \in DOMAIN undo[r].blocked : undo'[r].blocked[n] = undo[r].blocked[m]
  <2>1. Waits(r, x)
    BY <1>0, <1>3 DEF Barred
  <2> QED
    BY <2>1 DEF Waits, StillBlocked, Present
<1> QED
  BY <1>2, <1>3

\* A step of unwinding that only turns to the next record.
LEMMA TurnKeeps ==
  ASSUME IInv, NEW r \in Runs, phase[r] = "unwinding",
         UNCHANGED <<entry, journal, object, wire, holder, phase, want, op>>,
         undo' \in [Runs -> Undos], report' \in [Runs -> Reports], late' \subseteq Compensations,
         \A s \in Runs : s # r => undo'[s] = undo[s] /\ report'[s] = report[s],
         undo'[r].at = "next", undo'[r].ident = None \/ undo'[r].ident = undo[r].ident,
         FromJournal(r, undo'[r].todo), FromJournal(r, undo'[r].blocked),
         Barred', Posted',
         \A n \in DOMAIN journal[r] :
            journal[r][n].key \in report'[r].compensated \ report'[r].outstanding =>
               Undone(r, journal[r][n])
  PROVE  IInv'
<1>0. TypeOK /\ Locked /\ KeysOK /\ Named /\ Stale /\ Own /\ Forgotten /\ UnderWay /\ Reversed
  BY DEF IInv, Order, Effects, Reversal
<1>a. Active(r) /\ \A s \in Runs : s # r => ~Active(s)
  BY <1>0, Alone DEF Active
<1>1. TypeOK'
  BY <1>0 DEF TypeOK
<1>2. Named' /\ Own' /\ Forgotten'
  BY <1>0 DEF Named, Own, Forgotten, Active, Journaled, NoTrace, Present
<1>3. Stale'
  BY <1>0, StaleKept
<1>4. UnderWay'
  BY <1>a DEF UnderWay, Active
<1>5. Reversed'
  <2> SUFFICES ASSUME NEW s \in Runs, phase'[s] = "unwinding", NEW n \in DOMAIN journal'[s],
                      journal'[s][n].key \in report'[s].compensated \ report'[s].outstanding
               PROVE  Undone(s, journal[s][n])'
    BY DEF Reversed
  <2>1. s = r
    BY <1>a DEF Active
  <2>2. Undone(r, journal[r][n])
    BY <2>1
  <2> QED
    BY <2>1, <2>2 DEF Undone, NoTrace, Present, Late, Holds
<1>6. \A k \in Keys : op[r][k].form = "update" => Found(entry'[k])
  BY <1>0, <1>a DEF KeysOK, KeyOK, Decided
<1>7. Lessens
  BY DEF Lessens, Present
<1> QED
  BY <1>1, <1>2, <1>3, <1>4, <1>5, <1>6, <1>7, UnwindStepKeeps

\* A record is compensated: it leaves the list, and the report says so.
LEMMA CompensatedMoves ==
  ASSUME IInv, NEW r \in Runs, phase[r] = "unwinding", undo[r].todo # <<>>, Compensated(r)
  PROVE  /\ undo' \in [Runs -> Undos] /\ report' \in [Runs -> Reports]
         /\ \A s \in Runs : s # r => undo'[s] = undo[s] /\ report'[s] = report[s]
         /\ undo'[r].at = "next" /\ undo'[r].ident = None
         /\ FromJournal(r, undo'[r].todo) /\ FromJournal(r, undo'[r].blocked)
         /\ report'[r].compensated = report[r].compensated \cup {First(r).key}
         /\ report'[r].outstanding = report[r].outstanding
         /\ undo'[r].progressed = TRUE /\ undo'[r].blocked = undo[r].blocked
<1>0. TypeOK /\ ToUndo
  BY DEF IInv, Order, Reversal
<1> DEFINE t == Tail(undo[r].todo)
           u == [undo[r] EXCEPT !.todo = t, !.progressed = TRUE, !.at = "next", !.ident = None]
           x == [report[r] EXCEPT !.compensated = @ \cup {First(r).key}]
<1>1. /\ t \in Seq(JournalRecords) /\ FromJournal(r, t) /\ First(r).key \in Keys
      /\ FromJournal(r, undo[r].blocked)
      /\ undo[r] \in Undos /\ report[r] \in Reports
  BY <1>0, FirstOfJournal DEF ToUndo, TypeOK
<1>2. undo' = [undo EXCEPT ![r] = u] /\ report' = [report EXCEPT ![r] = x]
  BY <1>0 DEF Compensated, TypeOK
<1> HIDE DEF t
<1>3. /\ u \in Undos /\ u.todo = t /\ u.at = "next" /\ u.ident = None
      /\ u.blocked = undo[r].blocked /\ u.progressed = TRUE
  BY <1>1 DEF Undos, IdentOrNone
<1>4. /\ x \in Reports /\ x.compensated = report[r].compensated \cup {First(r).key}
      /\ x.outstanding = report[r].outstanding
  BY <1>1 DEF Reports
<1> HIDE DEF u, x
<1> QED
  BY <1>0, <1>1, <1>2, <1>3, <1>4 DEF TypeOK

\* A record is left outstanding, and the report says so.
LEMMA OutstandingMoves ==
  ASSUME IInv, NEW r \in Runs, phase[r] = "unwinding", undo[r].todo # <<>>, Outstanding(r)
  PROVE  /\ undo' \in [Runs -> Undos] /\ report' \in [Runs -> Reports]
         /\ \A s \in Runs : s # r => undo'[s] = undo[s] /\ report'[s] = report[s]
         /\ undo'[r].at = "next" /\ undo'[r].ident = None
         /\ FromJournal(r, undo'[r].todo) /\ FromJournal(r, undo'[r].blocked)
         /\ report'[r].compensated = report[r].compensated
         /\ report'[r].outstanding = report[r].outstanding \cup {First(r).key}
         /\ undo'[r].progressed = undo[r].progressed /\ undo'[r].blocked = undo[r].blocked
<1>0. TypeOK /\ ToUndo
  BY DEF IInv, Order, Reversal
<1> DEFINE t == Tail(undo[r].todo)
           u == [undo[r] EXCEPT !.todo = t, !.at = "next", !.ident = None]
           x == [report[r] EXCEPT !.outstanding = @ \cup {First(r).key}]
<1>1. /\ t \in Seq(JournalRecords) /\ FromJournal(r, t) /\ First(r).key \in Keys
      /\ FromJournal(r, undo[r].blocked)
      /\ undo[r] \in Undos /\ report[r] \in Reports
  BY <1>0, FirstOfJournal DEF ToUndo, TypeOK
<1>2. undo' = [undo EXCEPT ![r] = u] /\ report' = [report EXCEPT ![r] = x]
  BY <1>0 DEF Outstanding, TypeOK
<1> HIDE DEF t
<1>3. /\ u \in Undos /\ u.todo = t /\ u.at = "next" /\ u.ident = None
      /\ u.blocked = undo[r].blocked /\ u.progressed = undo[r].progressed
  BY <1>1 DEF Undos, IdentOrNone
<1>4. /\ x \in Reports /\ x.outstanding = report[r].outstanding \cup {First(r).key}
      /\ x.compensated = report[r].compensated
  BY <1>1 DEF Reports
<1> HIDE DEF u, x
<1> QED
  BY <1>0, <1>1, <1>2, <1>3, <1>4 DEF TypeOK

\* Nothing is recorded, and so nothing was done.
LEMMA NothingToUndoKeeps == ASSUME IInv, NEW r \in Runs, NothingToUndo(r) PROVE IInv'
<1>0. TypeOK /\ KeysOK /\ Forgotten /\ Posted
  BY DEF IInv, Order, Effects, Reversal
<1>a. /\ phase[r] = "unwinding" /\ undo[r].at = "next" /\ undo[r].todo # <<>>
      /\ ~Found(entry[First(r).key]) /\ Compensated(r)
      /\ UNCHANGED <<entry, journal, object, wire, late, holder, phase, want, op>>
  BY DEF NothingToUndo, Undoing
<1>1. Undone(r, First(r))
  <2>1. /\ Active(r) /\ First(r).key \in Keys /\ First(r).form \in {"create", "update"}
        /\ Journaled(r, First(r).key, First(r).form) /\ op[r][First(r).key].form = First(r).form
    BY <1>a, FirstOfJournal
  <2>2. First(r).form = "create"
    BY <1>0, <1>a, <2>1 DEF KeysOK, KeyOK, Decided
  <2> QED
    BY <1>0, <1>a, <2>1, <2>2 DEF Forgotten, Undone
<1>2. ASSUME NEW n \in DOMAIN journal[r],
             journal[r][n].key \in report'[r].compensated \ report'[r].outstanding
      PROVE  Undone(r, journal[r][n])
  <2>1. CASE journal[r][n].key = First(r).key
    BY <1>1, <1>a, <2>1, FirstOfJournal
  <2>2. CASE journal[r][n].key # First(r).key
    <3>1. /\ report'[r].compensated = report[r].compensated \cup {First(r).key}
          /\ report'[r].outstanding = report[r].outstanding
      BY <1>a, CompensatedMoves
    <3>2. journal[r][n].key \in report[r].compensated \ report[r].outstanding
      BY <1>2, <2>2, <3>1
    <3> QED
      BY <1>a, <2>2, <3>2, AllUndone
  <2> QED
    BY <2>1, <2>2
<1>3. Barred'
  BY <1>a, CompensatedMoves, BarredTurns
<1>4. Posted' /\ late' \subseteq Compensations
  BY <1>0, <1>a, PostedKept DEF TypeOK
<1> QED
  BY <1>2, <1>3, <1>4, <1>a, CompensatedMoves, TurnKeeps

\* A refusal: the record waits for another pass, or is given up.
LEMMA UndoRefusedKeeps == ASSUME IInv, NEW r \in Runs, UndoRefused(r) PROVE IInv'
<1>0. TypeOK /\ ToUndo /\ Posted
  BY DEF IInv, Order, Reversal
<1>a. /\ phase[r] = "unwinding" /\ undo[r].at = "next" /\ undo[r].todo # <<>>
      /\ UNCHANGED <<entry, journal, object, wire, late, holder, phase, want, op>>
  BY DEF UndoRefused, Undoing
<1> DEFINE t == Tail(undo[r].todo)
           b == Append(undo[r].blocked, First(r))
<1>b. /\ t \in Seq(JournalRecords) /\ FromJournal(r, t) /\ First(r).key \in Keys
      /\ b \in Seq(JournalRecords) /\ FromJournal(r, b) /\ FromJournal(r, undo[r].blocked)
      /\ undo[r] \in Undos /\ report[r] \in Reports
  BY <1>0, <1>a, FirstOfJournal DEF ToUndo, TypeOK
<1>c. Posted' /\ late' \subseteq Compensations /\ HasDependent(First(r).key)
  BY <1>0, <1>a, PostedKept DEF TypeOK, UndoRefused
<1>1. CASE Blocked(r)
  <2> DEFINE u == [undo[r] EXCEPT !.todo = t, !.at = "next", !.ident = None, !.blocked = b]
  <2>1. undo' = [undo EXCEPT ![r] = u] /\ report' = report
    BY <1>0, <1>1 DEF Blocked, TypeOK
  <2>b. \A n \in DOMAIN b : b[n] = First(r) \/ (n \in DOMAIN undo[r].blocked /\ b[n] = undo[r].blocked[n])
    BY <1>b DEF Undos
  <2> HIDE DEF t, b
  <2>2. /\ u \in Undos /\ u.todo = t /\ u.blocked = b /\ u.at = "next" /\ u.ident = None
        /\ u.progressed = undo[r].progressed
    BY <1>b DEF Undos, IdentOrNone
  <2> HIDE DEF u
  <2>3. /\ undo' \in [Runs -> Undos] /\ report' \in [Runs -> Reports] /\ undo'[r] = u
        /\ \A s \in Runs : s # r => undo'[s] = undo[s] /\ report'[s] = report[s]
    BY <1>0, <2>1, <2>2 DEF TypeOK
  <2>4. Barred'
    BY <1>a, <1>c, <2>1, <2>b, <2>2, <2>3, BarredTurns
  <2>5. \A n \in DOMAIN journal[r] :
           journal[r][n].key \in report'[r].compensated \ report'[r].outstanding =>
               Undone(r, journal[r][n])
    BY <1>a, <2>1, AllUndone
  <2> QED
    BY <1>a, <1>b, <1>c, <2>2, <2>3, <2>4, <2>5, TurnKeeps
<1>2. CASE /\ undo' = [undo EXCEPT ![r].todo = Tail(@)]
           /\ report' = [report EXCEPT ![r].outstanding = @ \cup {First(r).key},
                                      ![r].refused = @ \cup {First(r).key}]
  <2> DEFINE u == [undo[r] EXCEPT !.todo = t]
             x == [report[r] EXCEPT !.outstanding = @ \cup {First(r).key},
                                    !.refused = @ \cup {First(r).key}]
  <2>1. undo' = [undo EXCEPT ![r] = u] /\ report' = [report EXCEPT ![r] = x]
    BY <1>0, <1>2 DEF TypeOK
  <2> HIDE DEF t, b
  <2>2. /\ u \in Undos /\ u.todo = t /\ u.blocked = undo[r].blocked
        /\ u.at = undo[r].at /\ u.ident = undo[r].ident /\ u.progressed = undo[r].progressed
    BY <1>b DEF Undos
  <2>3. /\ x \in Reports /\ x.compensated = report[r].compensated
        /\ x.outstanding = report[r].outstanding \cup {First(r).key}
    BY <1>b DEF Reports
  <2> HIDE DEF u, x
  <2>4. /\ undo' \in [Runs -> Undos] /\ report' \in [Runs -> Reports]
        /\ undo'[r] = u /\ report'[r] = x
        /\ \A s \in Runs : s # r => undo'[s] = undo[s] /\ report'[s] = report[s]
    BY <1>0, <2>1, <2>2, <2>3 DEF TypeOK
  <2>5. \A n \in DOMAIN journal[r] :
           journal[r][n].key \in report'[r].compensated \ report'[r].outstanding =>
               Undone(r, journal[r][n])
    BY <1>a, <2>3, <2>4, AllUndone
  <2>6. Barred'
    BY <1>a, <2>2, <2>3, <2>4, BarredTurns
  <2> QED
    BY <1>a, <1>b, <1>c, <2>2, <2>4, <2>5, <2>6, TurnKeeps
<1> QED
  BY <1>1, <1>2 DEF UndoRefused

\* A record left outstanding, its compensation on the way or not sent.
LEMMA LeftKeeps ==
  ASSUME IInv, NEW r \in Runs, phase[r] = "unwinding", undo[r].todo # <<>>, Outstanding(r),
         UNCHANGED <<entry, journal, object, wire, holder, phase, want, op>>,
         Posted', late' \subseteq Compensations
  PROVE  IInv'
<1>1. \A n \in DOMAIN journal[r] :
         journal[r][n].key \in report'[r].compensated \ report'[r].outstanding =>
            Undone(r, journal[r][n])
  BY OutstandingMoves, AllUndone
<1>2. Barred'
  BY OutstandingMoves, BarredTurns
<1> QED
  BY <1>1, <1>2, OutstandingMoves, TurnKeeps

\* The provider acts on a compensation: the run's own object is removed, or
\* the one it updated gets its prior document back.
LEMMA CompensationKeeps ==
  ASSUME IInv, NEW r \in Runs, Undoing(r, "next"), Sendable(First(r)),
         UndoEffect(First(r), entry[First(r).key].identity),
         UNCHANGED <<entry, journal, wire, late, holder, phase, want, op, report>>,
         undo' \in [Runs -> Undos], \A s \in Runs : s # r => undo'[s] = undo[s],
         undo'[r].at = "effected", undo'[r].todo = undo[r].todo,
         undo'[r].ident = entry[First(r).key].identity,
         undo'[r].blocked = undo[r].blocked, undo'[r].progressed = undo[r].progressed
  PROVE  IInv'
<1>0. /\ TypeOK /\ KeysOK /\ Makers /\ Named /\ Stale /\ Own /\ Once /\ Forgotten /\ UnderWay /\ Reversed
      /\ Barred /\ Posted /\ ToUndo
  BY DEF IInv, Order, Effects, Reversal
<1> DEFINE p == First(r)
           i == entry[p.key].identity
<1>a. phase[r] = "unwinding" /\ undo[r].at = "next" /\ undo[r].todo # <<>>
  BY DEF Undoing
<1>b. /\ Active(r) /\ \A s \in Runs : s # r => ~Active(s)
      /\ p.key \in Keys /\ p.form \in {"create", "update"} /\ p.prior \in DocOrNone
      /\ Journaled(r, p.key, p.form) /\ op[r][p.key].form = p.form
      /\ \A n \in DOMAIN journal[r] : journal[r][n].key = p.key => journal[r][n] = p
  BY <1>a, FirstOfJournal
<1>c. i # None /\ i \in Ids /\ Present(i) /\ object[i] \in Objects
  BY <1>0, <1>b DEF Sendable, UndoEffect, TypeOK, Entries, IdentOrNone, Ids
<1>d. entry[p.key].phase = "Live" /\ object[i].key = p.key
  BY <1>0, <1>b, <1>c DEF Named
<1>e. p.form = "create" => object[i].maker = r
  BY <1>0, <1>b, <1>c DEF Own
<1>f. /\ object' \in [Ids -> Objects]
      /\ object'[i].key = p.key /\ object'[i].maker = object[i].maker
      /\ p.form = "create" => object'[i].status = "removed"
      /\ p.form = "update" => object'[i].status = "present" /\ object'[i].doc = p.prior
      /\ \A j \in Ids : j # i => object'[j] = object[j]
  <2> DEFINE o == IF p.form = "create" THEN Removed(object[i]) ELSE Holding(object[i], p.prior)
  <2>1. /\ o \in Objects /\ o.key = p.key /\ o.maker = object[i].maker
        /\ p.form = "create" => o.status = "removed"
        /\ p.form = "update" => o.status = "present" /\ o.doc = p.prior
    BY <1>b, <1>c, <1>d DEF Removed, Holding, Objects, Present
  <2>2. object' = [object EXCEPT ![i] = o]
    BY <1>0, <1>c DEF UndoEffect, TypeOK
  <2> HIDE DEF o, p, i
  <2> QED
    BY <1>0, <1>c, <2>1, <2>2 DEF TypeOK
<1>h. \A k \in Keys : op[r][k].pc = "landed" =>
         k # p.key /\ object'[op[r][k].ident] = object[op[r][k].ident]
  <2> SUFFICES ASSUME NEW k \in Keys, op[r][k].pc = "landed"
               PROVE  k # p.key /\ object'[op[r][k].ident] = object[op[r][k].ident]
    OBVIOUS
  <2>1. KeyOK(r, k) /\ op[r][k] \in Operations
    BY <1>0, <1>b DEF KeysOK, TypeOK
  <2>2. entry[k].identity = None /\ op[r][k].ident # None /\ object[op[r][k].ident].key = k
    BY <2>1 DEF KeyOK, Intended, Landed, Recorded
  <2>3. op[r][k].ident \in Ids
    BY <2>1, <2>2 DEF Operations, IdentOrNone, Ids
  <2> QED
    BY <1>c, <1>d, <1>f, <2>2, <2>3
<1> HIDE DEF p, i
<1>g. Lessens
  BY <1>b, <1>c, <1>d, <1>f DEF Lessens, Present, Absent
<1>1. TypeOK'
  BY <1>0, <1>f DEF TypeOK
<1>2. Named'
  <2> SUFFICES ASSUME NEW k \in Keys, entry[k].identity # None
               PROVE  entry[k].phase = "Live" /\ object'[entry[k].identity].key = k
    BY DEF Named
  <2>1. entry[k].identity \in Ids
    BY <1>0 DEF TypeOK, Entries, IdentOrNone, Ids
  <2> QED
    BY <1>0, <1>g, <2>1 DEF Named, Lessens
<1>3. Own'
  <2>1. \A k \in Keys : entry[k].identity \in IdentOrNone
    BY <1>0 DEF TypeOK, Entries
  <2> QED
    BY <1>0, <1>g, <2>1 DEF Own, Lessens, Journaled, Active, IdentOrNone, Ids
<1>4. \A s \in Runs, k \in Keys : NoTrace(s, k) => NoTrace(s, k)'
  BY <1>g DEF NoTrace, Present, Lessens
<1>5. Forgotten'
  BY <1>0, <1>4 DEF Forgotten, Journaled, Active
<1>6. Stale'
  <2> SUFFICES ASSUME NEW q \in wire, q.form = "update"
               PROVE  /\ q.ident # None
                      /\ object'[q.ident].key = q.key
                      /\ entry[q.key].identity # q.ident
                      /\ \A s \in Runs : op[s][q.key].ident = q.ident => s = q.run
                      /\ \A s \in Runs : undo'[s].ident # q.ident
    BY DEF Stale
  <2>1. /\ q.ident # None
        /\ object[q.ident].key = q.key
        /\ entry[q.key].identity # q.ident
        /\ \A s \in Runs : op[s][q.key].ident = q.ident => s = q.run
        /\ \A s \in Runs : undo[s].ident # q.ident
    BY <1>0 DEF Stale
  <2>2. q.ident \in Ids
    BY <1>0, <2>1 DEF TypeOK, Requests, IdentOrNone, Ids
  <2>3. q.ident # i
    BY <1>d, <2>1 DEF i
  <2>4. \A s \in Runs : undo'[s].ident # q.ident
    BY <2>1, <2>3 DEF i, p
  <2> QED
    BY <1>g, <2>1, <2>2, <2>4 DEF Lessens
<1>7. UnderWay'
  <2> SUFFICES /\ undo'[r].todo # <<>>
               /\ undo'[r].ident # None
               /\ object'[undo'[r].ident].key = First(r)'.key
               /\ op[r][First(r)'.key].pc # "landed"
               /\ First(r)'.form = "create" =>
                     /\ undo'[r].at = "effected"
                     /\ object'[undo'[r].ident].status = "removed"
                     /\ object'[undo'[r].ident].maker = r
               /\ First(r)'.form = "update" =>
                     Present(undo[r].ident)' /\ object'[undo'[r].ident].doc = First(r)'.prior
               /\ undo'[r].at # "begun"
    BY <1>b DEF UnderWay, Active, Holds
  <2>1. First(r)' = p /\ undo'[r].ident = i /\ undo'[r].at = "effected"
    BY DEF First, p, i
  <2> QED
    BY <1>a, <1>b, <1>c, <1>e, <1>f, <1>h, <2>1 DEF Present
<1>8. Reversed'
  <2> SUFFICES ASSUME NEW n \in DOMAIN journal[r],
                      journal[r][n].key \in report[r].compensated \ report[r].outstanding
               PROVE  Undone(r, journal[r][n])'
    BY <1>b DEF Reversed, Active
  <2>1. Undone(r, journal[r][n]) /\ journal[r][n].key \in Keys
    BY <1>0, <1>a, AllUndone, JournalTyped
  <2>2. CASE journal[r][n].form = "create"
    BY <1>4, <2>1, <2>2 DEF Undone
  <2>3. CASE journal[r][n].form # "create" /\ journal[r][n].key = p.key
    <3>1. journal[r][n] = p /\ p.form = "update"
      BY <1>b, <2>3
    <3> QED
      BY <1>c, <1>f, <2>1, <3>1 DEF Undone, Present, i, Late, Holds
  <2>4. CASE journal[r][n].form # "create" /\ journal[r][n].key # p.key
    <3>1. entry[journal[r][n].key].identity # None
      BY <2>1, <2>4 DEF Undone
    <3>2. entry[journal[r][n].key].identity \in Ids /\ entry[journal[r][n].key].identity # i
      BY <1>0, <1>d, <2>1, <2>4, <3>1 DEF Named, Present, TypeOK, Entries, IdentOrNone, Ids
    <3> QED
      BY <1>f, <2>1, <2>4, <3>2 DEF Undone, Present, Late, Holds
  <2> QED
    BY <2>2, <2>3, <2>4
<1>9. \A k \in Keys : op[r][k].form = "update" => Found(entry'[k])
  BY <1>0, <1>b DEF KeysOK, KeyOK, Decided
<1>10. Barred'
  <2> SUFFICES ASSUME ~undo[r].progressed, NEW n \in DOMAIN undo[r].blocked
               PROVE  Waits(r, undo[r].blocked[n].key)'
    BY <1>b DEF Barred, Active
  <2> DEFINE x == undo[r].blocked[n].key
  <2>1. StillBlocked(r, x)
    BY <1>0, <1>a DEF Barred, Waits
  <2>2. PICK j \in Ids : /\ object[j].key \in Inside[x]
                         /\ Around(j) \/ object[j].key \in report[r].outstanding
    BY <2>1 DEF StillBlocked, Around
  <2>3. First(r)' = p
    BY DEF First, p
  <2>4. CASE j = i
    <3>1. undo'[r].at # "next" /\ First(r)'.key \in Inside[x] /\ object'[i].key = First(r)'.key
      BY <1>d, <1>f, <2>2, <2>3, <2>4
    <3> QED
      BY <1>c, <3>1 DEF Waits
  <2>5. CASE j # i
    <3>1. object'[j] = object[j]
      BY <1>f, <2>5
    <3> QED
      BY <2>2, <3>1 DEF Waits, StillBlocked, Around, Present
  <2> QED
    BY <2>4, <2>5
<1>11. Posted'
  BY <1>0, <1>g, PostedKept DEF Lessens
<1>12. FromJournal(r, undo'[r].todo) /\ FromJournal(r, undo'[r].blocked)
  BY <1>0, <1>a DEF ToUndo
<1> QED
  BY <1>1, <1>2, <1>3, <1>5, <1>6, <1>7, <1>8, <1>9, <1>10, <1>11, <1>12, <1>a, <1>g, <1>h,
     UnwindStepKeeps

\* The call succeeds, and the ledger is next.
LEMMA UndoSentKeeps == ASSUME IInv, NEW r \in Runs, UndoSent(r) PROVE IInv'
<1>0. TypeOK /\ ToUndo
  BY DEF IInv, Order, Reversal
<1>a. /\ Undoing(r, "next") /\ Sendable(First(r)) /\ phase[r] = "unwinding"
      /\ UndoEffect(First(r), entry[First(r).key].identity)
      /\ UNCHANGED <<entry, journal, wire, late, holder, phase, want, op, report>>
      /\ undo[r].todo # <<>>
  BY DEF UndoSent, Undoing
<1> DEFINE i == entry[First(r).key].identity
           u == [undo[r] EXCEPT !.at = "effected", !.ident = i]
<1>b. undo' = [undo EXCEPT ![r] = u]
  BY <1>0 DEF UndoSent, TypeOK
<1>c. i \in IdentOrNone /\ undo[r] \in Undos /\ report' \in [Runs -> Reports]
  BY <1>0, <1>a, FirstTyped DEF TypeOK, Entries
<1> HIDE DEF i
<1>d. /\ u \in Undos /\ u.at = "effected" /\ u.ident = i
      /\ u.todo = undo[r].todo /\ u.blocked = undo[r].blocked
      /\ u.progressed = undo[r].progressed
  BY <1>c DEF Undos
<1> HIDE DEF u
<1>e. /\ undo' \in [Runs -> Undos] /\ undo'[r] = u
      /\ \A s \in Runs : s # r => undo'[s] = undo[s] /\ report'[s] = report[s]
  BY <1>0, <1>a, <1>b, <1>d DEF TypeOK
<1>f. undo'[r].ident = entry[First(r).key].identity
  BY <1>d, <1>e DEF i
<1> QED
  BY <1>a, <1>d, <1>e, <1>f, CompensationKeeps

\* No compensation, or one that fails or whose answer is lost: what is on
\* its way is for the object the ledger names, a delete for the run's own.
LEMMA UndoFailsKeeps == ASSUME IInv, NEW r \in Runs, UndoFails(r) PROVE IInv'
<1>0. TypeOK /\ Named /\ Own /\ Posted
  BY DEF IInv, Order, Effects, Reversal
<1> DEFINE p == First(r)
           x == UndoRequest(r, p)
<1>a. /\ phase[r] = "unwinding" /\ undo[r].todo # <<>> /\ Outstanding(r)
      /\ UNCHANGED <<entry, journal, object, wire, holder, phase, want, op>>
  BY DEF UndoFails, Undoing
<1>1. CASE UNCHANGED late
  <2>1. Posted' /\ late' \subseteq Compensations
    BY <1>0, <1>1, <1>a, PostedKept DEF TypeOK
  <2> QED
    BY <1>a, <2>1, LeftKeeps
<1>2. CASE Sendable(p) /\ late' = late \cup {x}
  <2>1. /\ Active(r) /\ p.key \in Keys /\ p.form \in {"create", "update"} /\ p.prior \in DocOrNone
        /\ Journaled(r, p.key, p.form)
    BY <1>a, FirstOfJournal
  <2>2. entry[p.key].identity # None /\ entry[p.key].identity \in Ids
    BY <1>0, <1>2, <2>1 DEF Sendable, TypeOK, Entries, IdentOrNone, Ids
  <2>3. /\ object[entry[p.key].identity].key = p.key
        /\ p.form = "create" => object[entry[p.key].identity].maker = r
    BY <1>0, <2>1, <2>2 DEF Named, Own
  <2> HIDE DEF p
  <2>4. /\ x \in Compensations /\ x.key = p.key /\ x.run = r /\ x.ident = entry[p.key].identity
        /\ x.form = "delete" => p.form = "create"
    BY <2>1, <2>2 DEF UndoRequest, Compensations
  <2> HIDE DEF x
  <2>5. Posted' /\ late' \subseteq Compensations
    BY <1>0, <1>2, <1>a, <2>3, <2>4 DEF Posted, TypeOK
  <2> QED
    BY <1>a, <2>5, LeftKeeps
<1> QED
  BY <1>1, <1>2 DEF UndoFails

\* A compensation reaches the ledger.
LEMMA RecordKeeps ==
  ASSUME IInv, NEW r \in Runs, phase[r] = "unwinding", undo[r].todo # <<>>, undo[r].at # "next",
         NEW e \in Entries, entry' = [entry EXCEPT ![First(r).key] = e],
         UNCHANGED <<journal, object, wire, late, holder, phase, want, op>>,
         undo' \in [Runs -> Undos], report' \in [Runs -> Reports],
         \A s \in Runs : s # r => undo'[s] = undo[s] /\ report'[s] = report[s],
         undo'[r].ident = None \/ undo'[r].ident = undo[r].ident,
         FromJournal(r, undo'[r].todo), FromJournal(r, undo'[r].blocked),
         Barred',
         \/ e.identity = None
         \/ e.identity = undo[r].ident /\ e.phase = "Live" /\ First(r).form = "update",
         First(r).form = "update" => Found(e),
         ~Found(e) => NoTrace(r, First(r).key),
         UnderWay',
         \A n \in DOMAIN journal[r] :
            journal[r][n].key \in report'[r].compensated \ report'[r].outstanding =>
               \/ undo'[r].at = "begun" /\ First(r)'.key = journal[r][n].key
               \/ Undone(r, journal[r][n])'
  PROVE  IInv'
<1>0. /\ TypeOK /\ KeysOK /\ Named /\ Stale /\ Own /\ Forgotten /\ UnderWay /\ Posted
  BY DEF IInv, Order, Effects, Reversal
<1> DEFINE k == First(r).key
<1>a. /\ Active(r) /\ \A s \in Runs : s # r => ~Active(s)
      /\ k \in Keys /\ First(r).form \in {"create", "update"}
      /\ op[r][k].form = First(r).form
      /\ \A n \in DOMAIN journal[r] : journal[r][n].key = k => journal[r][n] = First(r)
  BY FirstOfJournal
<1> HIDE DEF k
<1>b. /\ entry' \in [Keys -> Entries] /\ entry'[k] = e
      /\ \A j \in Keys : j # k => entry'[j] = entry[j]
  BY <1>0, <1>a, Writes DEF k
<1>c. object[undo[r].ident].key = k /\ op[r][k].pc # "landed"
  BY <1>0 DEF UnderWay, k
<1>1. TypeOK'
  BY <1>0, <1>b DEF TypeOK
<1>2. Named'
  BY <1>0, <1>b, <1>c DEF Named
<1>3. Own'
  <2> SUFFICES ASSUME NEW j \in Keys, Journaled(r, j, "create"), entry'[j].identity # None
               PROVE  object[entry'[j].identity].maker = r
    BY <1>a DEF Own, Active, Journaled
  <2>1. j = k => First(r).form = "create"
    BY <1>a DEF Journaled
  <2>2. j # k
    BY <1>b, <2>1
  <2> QED
    BY <1>0, <1>a, <1>b, <2>2 DEF Own
<1>4. Forgotten'
  <2> SUFFICES ASSUME NEW j \in Keys, Journaled(r, j, "create"), ~Found(entry'[j])
               PROVE  NoTrace(r, j)
    BY <1>a DEF Forgotten, Active, Journaled, NoTrace, Present
  <2>1. CASE j = k
    BY <1>b, <2>1 DEF k
  <2>2. CASE j # k
    BY <1>0, <1>a, <1>b, <2>2 DEF Forgotten
  <2> QED
    BY <2>1, <2>2
<1>5. Stale'
  <2> SUFFICES ASSUME NEW q \in wire, q.form = "update"
               PROVE  /\ q.ident # None
                      /\ object[q.ident].key = q.key
                      /\ entry'[q.key].identity # q.ident
                      /\ \A s \in Runs : op[s][q.key].ident = q.ident => s = q.run
                      /\ \A s \in Runs : undo'[s].ident # q.ident
    BY DEF Stale
  <2>1. /\ q.ident # None
        /\ object[q.ident].key = q.key
        /\ entry[q.key].identity # q.ident
        /\ \A s \in Runs : op[s][q.key].ident = q.ident => s = q.run
        /\ \A s \in Runs : undo[s].ident # q.ident
    BY <1>0 DEF Stale
  <2>2. q.key \in Keys
    BY <1>0 DEF TypeOK, Requests
  <2>3. entry'[q.key].identity # q.ident
    BY <1>b, <2>1, <2>2
  <2>4. \A s \in Runs : undo'[s].ident # q.ident
    BY <2>1
  <2> QED
    BY <2>1, <2>3, <2>4
<1>6. Reversed'
  BY <1>a DEF Reversed, Active
<1>7. \A j \in Keys : op[r][j].form = "update" => Found(entry'[j])
  BY <1>0, <1>a, <1>b DEF KeysOK, KeyOK, Decided
<1>8. Posted' /\ \A j \in Keys : op[r][j].pc = "landed" => entry'[j] = entry[j]
  BY <1>0, <1>b, <1>c, PostedKept
<1>9. Lessens
  BY DEF Lessens, Present
<1> QED
  BY <1>1, <1>2, <1>3, <1>4, <1>5, <1>6, <1>7, <1>8, <1>9, UnwindStepKeeps

\* Forget after a delete; Begin, and then Resolve, after a restore.
LEMMA UndoRecordedKeeps == ASSUME IInv, NEW r \in Runs, UndoRecorded(r) PROVE IInv'
<1>0. TypeOK /\ KeysOK /\ Logged /\ Sent /\ Once /\ UnderWay /\ ToUndo /\ Barred
  BY DEF IInv, Order, Effects, Reversal
<1> DEFINE p == First(r)
<1>a. /\ phase[r] = "unwinding" /\ undo[r].todo # <<>> /\ undo[r].at # "next"
      /\ UNCHANGED <<journal, object, wire, late, holder, phase, want, op>>
  BY DEF UndoRecorded, Undoing
<1>b. /\ Active(r) /\ \A s \in Runs : s # r => ~Active(s)
      /\ p.key \in Keys /\ p.form \in {"create", "update"} /\ p.prior \in DocOrNone
      /\ op[r][p.key].form = p.form
      /\ \A n \in DOMAIN journal[r] : journal[r][n].key = p.key => journal[r][n] = p
  BY <1>a, FirstOfJournal
<1>c. /\ undo[r].ident # None
      /\ object[undo[r].ident].key = p.key
      /\ op[r][p.key].pc # "landed"
      /\ p.form = "create" => /\ undo[r].at = "effected"
                              /\ object[undo[r].ident].status = "removed"
                              /\ object[undo[r].ident].maker = r
      /\ p.form = "update" => Holds(undo[r].ident, p.prior)
      /\ undo[r].at = "begun" => entry[p.key].phase = "Pending" /\ entry[p.key].proposed = p.prior
  BY <1>0, <1>a DEF UnderWay
<1>d. entry[p.key] \in Entries /\ undo[r] \in Undos
  BY <1>0, <1>b DEF TypeOK
<1> HIDE DEF p
<1>1. CASE /\ undo[r].at = "effected" /\ p.form = "create"
           /\ entry' = [entry EXCEPT ![p.key] = Gone] /\ Compensated(r)
  <2>1. undo[r].ident \in Ids
    BY <1>c, <1>d DEF Undos, IdentOrNone, Ids
  <2>2. \A j \in Ids : Present(j) => object[j].key # p.key \/ object[j].maker # r
    BY <1>0, <1>1, <1>c, <2>1 DEF Once, Present, Absent
  <2>3. \A q \in wire : q.key # p.key \/ q.run # r
    <3> SUFFICES ASSUME NEW q \in wire, q.key = p.key, q.run = r PROVE FALSE
      OBVIOUS
    <3>1. q.form = "create"
      BY <1>0, <1>1, <1>b DEF Sent
    <3> QED
      BY <1>0, <1>1, <1>c, <2>1, <3>1 DEF Once
  <2>4. NoTrace(r, p.key)
    BY <2>2, <2>3 DEF NoTrace
  <2>5. Gone \in Entries /\ Gone.identity = None
    BY <1>d, EntriesWritten DEF Gone
  <2>6. \A n \in DOMAIN journal[r] :
           journal[r][n].key \in report'[r].compensated \ report'[r].outstanding =>
              Undone(r, journal[r][n])'
    <3> SUFFICES ASSUME NEW n \in DOMAIN journal[r],
                        journal[r][n].key \in report'[r].compensated \ report'[r].outstanding
                 PROVE  Undone(r, journal[r][n])'
      OBVIOUS
    <3>1. CASE journal[r][n].key = p.key
      <4>1. journal[r][n] = p
        BY <1>b, <3>1
      <4> QED
        BY <1>1, <1>a, <2>4, <4>1 DEF Undone, NoTrace, Present, Late, Holds
    <3>2. CASE journal[r][n].key # p.key
      <4>a. /\ report'[r].compensated = report[r].compensated \cup {p.key}
            /\ report'[r].outstanding = report[r].outstanding
        BY <1>1, <1>a, CompensatedMoves DEF p
      <4>b. journal[r][n].key \in report[r].compensated \ report[r].outstanding
        BY <3>2, <4>a
      <4>1. Undone(r, journal[r][n])
        BY <1>1, <1>a, <3>2, <4>b, AllUndone DEF p
      <4>2. journal[r][n].key \in Keys
        BY <1>0, JournalTyped
      <4>3. entry'[journal[r][n].key] = entry[journal[r][n].key]
        BY <1>0, <1>1, <3>2, <4>2 DEF TypeOK
      <4> QED
        BY <1>a, <3>2, <4>1, <4>3 DEF Undone, NoTrace, Present, Late, Holds
    <3> QED
      BY <3>1, <3>2
  <2>7. UnderWay'
    <3>1. \A s \in Runs : phase'[s] = "unwinding" => undo'[s].at = "next"
      BY <1>1, <1>a, <1>b, CompensatedMoves DEF Active
    <3> QED
      BY <3>1 DEF UnderWay
  <2>8. Barred'
    BY <1>1, <1>a, CompensatedMoves, BarredTurns
  <2> QED
    BY <1>1, <1>a, <2>4, <2>5, <2>6, <2>7, <2>8, CompensatedMoves, RecordKeeps DEF p
<1>2. CASE /\ undo[r].at = "effected" /\ p.form = "update"
           /\ entry' = [entry EXCEPT ![p.key] = Begun(@, p.prior)]
           /\ undo' = [undo EXCEPT ![r].at = "begun"] /\ UNCHANGED report
  <2> DEFINE e == Begun(entry[p.key], p.prior)
             u == [undo[r] EXCEPT !.at = "begun"]
  <2>1. e \in Entries /\ e.phase = "Pending" /\ e.identity = None /\ e.proposed = p.prior
    BY <1>b, <1>d, EntriesWritten DEF Begun
  <2>2. entry' = [entry EXCEPT ![p.key] = e] /\ undo' = [undo EXCEPT ![r] = u]
    BY <1>0, <1>2, <1>b DEF TypeOK
  <2>3. /\ u \in Undos /\ u.at = "begun" /\ u.ident = undo[r].ident
        /\ u.todo = undo[r].todo /\ u.blocked = undo[r].blocked
        /\ u.progressed = undo[r].progressed
    BY <1>d DEF Undos
  <2> HIDE DEF e, u
  <2>4. /\ undo' \in [Runs -> Undos] /\ report' \in [Runs -> Reports] /\ undo'[r] = u
        /\ \A s \in Runs : s # r => undo'[s] = undo[s] /\ report'[s] = report[s]
    BY <1>0, <1>2, <2>2, <2>3 DEF TypeOK
  <2>5. entry'[p.key] = e /\ \A j \in Keys : j # p.key => entry'[j] = entry[j]
    BY <1>0, <1>b, <2>2 DEF TypeOK
  <2>6. First(r)' = p
    BY <2>3, <2>4 DEF First, p
  <2>7. UnderWay'
    <3> SUFFICES /\ undo'[r].todo # <<>>
                 /\ undo'[r].ident # None
                 /\ object'[undo'[r].ident].key = First(r)'.key
                 /\ op[r][First(r)'.key].pc # "landed"
                 /\ First(r)'.form # "create"
                 /\ Holds(undo[r].ident, First(r).prior)'
                 /\ entry'[First(r)'.key].phase = "Pending"
                 /\ entry'[First(r)'.key].proposed = First(r)'.prior
      BY <1>a, <1>b DEF UnderWay, Active
    <3> QED
      BY <1>2, <1>a, <1>c, <2>1, <2>3, <2>4, <2>5, <2>6 DEF Present, Late, Holds
  <2>8. \A n \in DOMAIN journal[r] :
            journal[r][n].key \in report'[r].compensated \ report'[r].outstanding =>
               \/ undo'[r].at = "begun" /\ First(r)'.key = journal[r][n].key
               \/ Undone(r, journal[r][n])'
    <3> SUFFICES ASSUME NEW n \in DOMAIN journal[r], journal[r][n].key # p.key,
                        journal[r][n].key \in report[r].compensated \ report[r].outstanding
                 PROVE  Undone(r, journal[r][n])'
      BY <1>2, <2>3, <2>4, <2>6
    <3>1. Undone(r, journal[r][n]) /\ journal[r][n].key \in Keys
      BY <1>0, <1>2, <1>a, AllUndone, JournalTyped
    <3> QED
      BY <1>a, <2>5, <3>1 DEF Undone, NoTrace, Present, Late, Holds
  <2>9. FromJournal(r, undo'[r].todo) /\ FromJournal(r, undo'[r].blocked)
    BY <1>0, <1>a, <2>3, <2>4 DEF ToUndo
  <2>10. Barred'
    <3> SUFFICES ASSUME ~undo[r].progressed, NEW n \in DOMAIN undo[r].blocked
                 PROVE  Waits(r, undo[r].blocked[n].key)'
      BY <1>a, <1>b, <2>3, <2>4 DEF Barred, Active
    <3>1. Waits(r, undo[r].blocked[n].key) /\ undo'[r].blocked = undo[r].blocked
      BY <1>0, <1>a, <2>3, <2>4 DEF Barred
    <3> QED
      BY <1>2, <1>a, <2>3, <2>4, <2>6, <3>1 DEF Waits, StillBlocked, Present, p
  <2> QED
    BY <1>2, <1>a, <2>1, <2>2, <2>3, <2>4, <2>7, <2>8, <2>9, <2>10, RecordKeeps DEF p, Found
<1>3. CASE /\ undo[r].at = "begun"
           /\ entry' = [entry EXCEPT ![p.key] = Resolved(@, undo[r].ident, None)] /\ Compensated(r)
  <2> DEFINE e == Resolved(entry[p.key], undo[r].ident, None)
  <2>0. p.form = "update"
    BY <1>3, <1>b, <1>c
  <2>1. /\ e \in Entries /\ e.phase = "Live" /\ e.identity = undo[r].ident
        /\ e.plan = p.prior
    BY <1>3, <1>c, <1>d, EntriesWritten DEF Resolved, Undos
  <2>2. entry' = [entry EXCEPT ![p.key] = e]
    BY <1>0, <1>3, <1>b DEF TypeOK
  <2> HIDE DEF e
  <2>3. entry'[p.key] = e /\ \A j \in Keys : j # p.key => entry'[j] = entry[j]
    BY <1>0, <1>b, <2>2 DEF TypeOK
  <2>4. \A n \in DOMAIN journal[r] :
           journal[r][n].key \in report'[r].compensated \ report'[r].outstanding =>
              Undone(r, journal[r][n])'
    <3> SUFFICES ASSUME NEW n \in DOMAIN journal[r],
                        journal[r][n].key \in report'[r].compensated \ report'[r].outstanding
                 PROVE  Undone(r, journal[r][n])'
      OBVIOUS
    <3>1. CASE journal[r][n].key = p.key
      <4>1. journal[r][n] = p
        BY <1>b, <3>1
      <4> QED
        BY <1>a, <1>c, <2>0, <2>1, <2>3, <4>1 DEF Undone, Present, Late, Holds
    <3>2. CASE journal[r][n].key # p.key
      <4>1. Undone(r, journal[r][n]) /\ journal[r][n].key \in Keys
        <5>1. /\ report'[r].compensated = report[r].compensated \cup {p.key}
              /\ report'[r].outstanding = report[r].outstanding
          BY <1>3, <1>a, CompensatedMoves DEF p
        <5>2. journal[r][n].key \in report[r].compensated \ report[r].outstanding
          BY <3>2, <5>1
        <5> QED
          BY <1>0, <1>3, <1>a, <3>2, <5>2, AllUndone, JournalTyped DEF p
      <4> QED
        BY <1>a, <2>3, <3>2, <4>1 DEF Undone, NoTrace, Present, Late, Holds
    <3> QED
      BY <3>1, <3>2
  <2>5. UnderWay'
    <3>1. \A s \in Runs : phase'[s] = "unwinding" => undo'[s].at = "next"
      BY <1>3, <1>a, <1>b, CompensatedMoves DEF Active
    <3> QED
      BY <3>1 DEF UnderWay
  <2>6. Barred'
    BY <1>3, <1>a, CompensatedMoves, BarredTurns
  <2> QED
    BY <1>3, <1>a, <2>0, <2>1, <2>2, <2>4, <2>5, <2>6, CompensatedMoves, RecordKeeps DEF p, Found
<1> QED
  BY <1>1, <1>2, <1>3 DEF UndoRecorded, Undoing, p

\* The ledger could not be written.
LEMMA UndoNotRecordedKeeps == ASSUME IInv, NEW r \in Runs, UndoNotRecorded(r) PROVE IInv'
<1>1. TypeOK /\ Posted
  BY DEF IInv, Order, Reversal
<1>2. /\ phase[r] = "unwinding" /\ undo[r].todo # <<>> /\ Outstanding(r)
      /\ UNCHANGED <<entry, journal, object, wire, late, holder, phase, want, op>>
  BY DEF UndoNotRecorded, Undoing
<1>3. Posted' /\ late' \subseteq Compensations
  BY <1>1, <1>2, PostedKept DEF TypeOK
<1> QED
  BY <1>2, <1>3, LeftKeeps

\* A pass ends: what was blocked is tried again, or the run reports and ends.
LEMMA EndPassKeeps == ASSUME IInv, NEW r \in Runs, EndPass(r) PROVE IInv'
<1>0. TypeOK /\ Posted /\ ToUndo /\ UnderWay
  BY DEF IInv, Order, Reversal
<1>a. /\ phase[r] = "unwinding" /\ undo[r].todo = <<>>
      /\ UNCHANGED <<entry, journal, object, wire, late>>
  BY DEF EndPass
<1>b. undo[r].at = "next"
  BY <1>0, <1>a DEF UnderWay
<1>c. undo[r].blocked \in Seq(JournalRecords) /\ FromJournal(r, undo[r].blocked)
  BY <1>0, <1>a DEF TypeOK, Undos, ToUndo
<1>1. CASE Again(r)
  <2> DEFINE b == undo[r].blocked
             u == [NoUndo EXCEPT !.todo = b]
  <2>1. /\ undo' = [undo EXCEPT ![r] = u]
        /\ UNCHANGED <<phase, holder, want, op, report>>
    BY <1>1 DEF EndPass
  <2> HIDE DEF b
  <2>2. u.todo = b /\ u.blocked = <<>> /\ u.at = "next" /\ u.ident = None
    BY DEF NoUndo
  <2>3. u \in Undos
    <3>1. b \in Seq(JournalRecords) /\ <<>> \in Seq(JournalRecords)
      BY <1>c DEF b
    <3> QED
      BY <3>1 DEF NoUndo, Undos, IdentOrNone
  <2> HIDE DEF u
  <2>4. /\ undo' \in [Runs -> Undos] /\ undo'[r] = u
        /\ \A s \in Runs : s # r => undo'[s] = undo[s]
    BY <1>0, <2>1, <2>3 DEF TypeOK
  <2>5. FromJournal(r, undo'[r].todo) /\ FromJournal(r, undo'[r].blocked)
    BY <1>c, <2>2, <2>4 DEF FromJournal, b
  <2>6. /\ report' \in [Runs -> Reports] /\ \A s \in Runs : report'[s] = report[s]
    BY <1>0, <1>a, <2>1 DEF TypeOK
  <2>7. \A n \in DOMAIN journal[r] :
           journal[r][n].key \in report'[r].compensated \ report'[r].outstanding =>
              Undone(r, journal[r][n])
    BY <1>a, <1>b, <2>6, AllUndone
  <2>8. Barred'
    <3>1. \A t \in Runs : phase[t] = "unwinding" => t = r
      BY <1>a, Alone DEF IInv, Order, Active
    <3> QED
      BY <2>1, <2>2, <2>4, <3>1 DEF Barred
  <2>9. Posted' /\ late' \subseteq Compensations
    BY <1>0, <1>a, PostedKept DEF TypeOK
  <2> QED
    BY <1>a, <2>1, <2>2, <2>4, <2>5, <2>6, <2>7, <2>8, <2>9, TurnKeeps
<1>2. CASE ~Again(r)
  <2> DEFINE s == {x.key : x \in ToSet(undo[r].blocked)}
             e == [report[r] EXCEPT !.outstanding = @ \cup s, !.refused = @ \cup s]
  <2>1. s \subseteq Keys
    <3>1. ToSet(undo[r].blocked) \subseteq JournalRecords
      BY <1>c DEF ToSet
    <3> QED
      BY <3>1 DEF JournalRecords
  <2>2. /\ Ends(r, "done") /\ Release(r)
        /\ report' = [report EXCEPT ![r].outstanding = @ \cup s, ![r].refused = @ \cup s]
    BY <1>2 DEF EndPass
  <2> HIDE DEF s
  <2>3. e \in Reports
    BY <1>0, <2>1 DEF TypeOK, Reports
  <2>4. report' = [report EXCEPT ![r] = e]
    BY <1>0, <2>2 DEF TypeOK
  <2> HIDE DEF e
  <2>5. /\ report' \in [Runs -> Reports]
        /\ \A t \in Runs : t # r => report'[t] = report[t]
    BY <1>0, <2>3, <2>4 DEF TypeOK
  <2>6. Active(r) /\ holder' \in Runs \cup {None}
    BY <1>0, <1>a, <2>2 DEF Active, Release, TypeOK
  <2> QED
    BY <1>a, <2>2, <2>5, <2>6, EndKeeps
<1> QED
  BY <1>1, <1>2

\* A compensation lands late: the object it reaches is marked, and is no
\* longer taken for what anyone left there.
LEMMA LandLateKeeps == ASSUME IInv, NEW c \in late, LandLate(c) PROVE IInv'
<1>0. /\ TypeOK /\ Locked /\ Quiet /\ Wanted /\ KeysOK /\ Logged /\ Sent /\ Makers /\ Named /\ Stale
      /\ Own /\ Once /\ Forgotten /\ IntentBeforeEffect /\ ToUndo /\ UnderWay /\ Reversed
      /\ Barred /\ Posted
  BY DEF IInv, Order, Effects, Reversal
<1> DEFINE i == c.ident
<1>a. /\ late' = late \ {c} /\ Present(i)
      /\ UNCHANGED <<entry, journal, wire, holder, phase, want, op, undo, report>>
  BY DEF LandLate
<1>b. i \in Ids /\ i # None /\ object[i] \in Objects /\ c.doc \in DocOrNone
  BY <1>0, <1>a DEF TypeOK, Compensations, Present
<1>c. /\ object' \in [Ids -> Objects]
      /\ object'[i].key = object[i].key /\ object'[i].maker = object[i].maker
      /\ object'[i].status \in {"withdrawn", "reverted"}
      /\ \A j \in Ids : j # i => object'[j] = object[j]
  <2> DEFINE o == IF c.form = "delete" THEN [object[i] EXCEPT !.status = "withdrawn"]
                  ELSE [object[i] EXCEPT !.doc = c.doc, !.status = "reverted"]
  <2>1. /\ o \in Objects /\ o.key = object[i].key /\ o.maker = object[i].maker
        /\ o.status \in {"withdrawn", "reverted"}
    BY <1>b DEF Objects
  <2>2. object' = [object EXCEPT ![i] = o]
    BY <1>0, <1>b DEF LandLate, TypeOK
  <2> HIDE DEF o
  <2> QED
    BY <1>0, <1>b, <2>1, <2>2 DEF TypeOK
<1> HIDE DEF i
<1>d. Late(i)' /\ object[i].status \in {"present", "reverted"}
  BY <1>a, <1>b, <1>c DEF Late, Present
<1>e. Lessens /\ \A j \in Ids : Around(j) => Around(j)'
  BY <1>c, <1>d DEF Lessens, Around, Present, Absent
<1>f. \A j \in Ids, d \in DocOrNone : Holds(j, d) => Holds(j, d)'
  BY <1>c, <1>d DEF Holds, Late, Present
<1>g. \A s \in Runs, k \in Keys : NoTrace(s, k) => NoTrace(s, k)'
  BY <1>a, <1>e DEF NoTrace, Lessens
<1>1. TypeOK' /\ Locked' /\ Quiet' /\ Wanted'
  BY <1>0, <1>a, <1>c DEF TypeOK, Locked, Quiet, Wanted, Active
<1>2. KeysOK'
  <2> SUFFICES ASSUME NEW s \in Runs, Active(s), NEW k \in Keys PROVE KeyOK(s, k)'
    BY <1>a DEF KeysOK, Active
  <2>1. /\ KeyOK(s, k) /\ op[s][k] \in Operations /\ entry[k] \in Entries /\ want[s][k] \in DocOrNone
    BY <1>0 DEF KeysOK, TypeOK
  <2>2. Decided(s, k)'
    BY <1>a, <1>e, <2>1 DEF KeyOK, Decided, Lessens, Operations, IdentOrNone, Ids
  <2>3. Intended(s, k)'
    BY <1>a, <2>1 DEF KeyOK, Intended, Journaled
  <2>4. Landed(s, k)'
    <3> SUFFICES ASSUME op[s][k].pc = "landed"
                 PROVE  /\ op[s][k].ident # None
                        /\ object'[op[s][k].ident].key = k
                        /\ Holds(op[s][k].ident, want[s][k])'
                        /\ op[s][k].form = "create" => object'[op[s][k].ident].maker = s
      BY <1>a DEF Landed
    <3>1. op[s][k].ident \in Ids
      BY <2>1 DEF KeyOK, Landed, Operations, IdentOrNone, Ids
    <3> QED
      BY <1>a, <1>e, <1>f, <2>1, <3>1 DEF KeyOK, Landed, Lessens
  <2>5. Converged(s, k)'
    <3> SUFFICES ASSUME phase[s] = "running", op[s][k].pc \in {"kept", "settled"}
                 PROVE  /\ entry[k].phase = "Live" /\ entry[k].identity # None
                        /\ Holds(entry[k].identity, want[s][k])'
      BY <1>a DEF Converged
    <3>1. entry[k].identity \in Ids
      BY <2>1 DEF KeyOK, Converged, Entries, IdentOrNone, Ids
    <3> QED
      BY <1>a, <1>f, <2>1, <3>1 DEF KeyOK, Converged
  <2> QED
    BY <2>2, <2>3, <2>4, <2>5 DEF KeyOK
<1>3. Logged' /\ Sent' /\ Makers' /\ Once'
  BY <1>0, <1>a, <1>e DEF Logged, Sent, Makers, Once, Active, Lessens
<1>4. Named' /\ Own'
  <2>1. \A k \in Keys : entry[k].identity \in IdentOrNone
    BY <1>0 DEF TypeOK, Entries
  <2> QED
    BY <1>0, <1>a, <1>e, <2>1 DEF Named, Own, Lessens, Journaled, Active, IdentOrNone, Ids
<1>5. Stale'
  BY <1>0, <1>a, <1>e, StaleKept DEF Lessens
<1>6. Forgotten'
  BY <1>0, <1>a, <1>g DEF Forgotten, Journaled, Active
<1>7. IntentBeforeEffect'
  BY <1>0, <1>a, <1>e DEF IntentBeforeEffect, Journaled, Working, Lessens
<1>8. ToUndo'
  BY <1>0, <1>a DEF ToUndo, FromJournal
<1>9. UnderWay'
  <2> SUFFICES ASSUME NEW s \in Runs, phase[s] = "unwinding", undo[s].at # "next"
               PROVE  LET p == First(s)
                          j == undo[s].ident
                      IN  /\ object'[j].key = p.key
                          /\ p.form = "create" => /\ object'[j].status = "removed"
                                                  /\ object'[j].maker = s
                          /\ p.form = "update" => Holds(j, p.prior)'
    BY <1>0, <1>a DEF UnderWay, First
  <2>1. undo[s].ident \in Ids /\ First(s).prior \in DocOrNone
    BY <1>0, FirstTyped DEF UnderWay, TypeOK, Undos, IdentOrNone, Ids
  <2>2. object[undo[s].ident].status = "removed" => undo[s].ident # i
    BY <1>d
  <2> QED
    BY <1>0, <1>a, <1>c, <1>e, <1>f, <2>1, <2>2 DEF UnderWay, Lessens, First
<1>10. Reversed'
  <2> SUFFICES ASSUME NEW s \in Runs, phase[s] = "unwinding", NEW n \in DOMAIN journal[s],
                      Undone(s, journal[s][n])
               PROVE  Undone(s, journal[s][n])'
    BY <1>0, <1>a DEF Reversed, First
  <2>1. journal[s][n] \in JournalRecords /\ journal[s][n].key \in Keys
    BY <1>0, JournalTyped
  <2>2. CASE journal[s][n].form = "create"
    BY <1>a, <1>g, <2>1, <2>2 DEF Undone
  <2>3. CASE journal[s][n].form # "create"
    <3>1. entry[journal[s][n].key].identity \in Ids /\ journal[s][n].prior \in DocOrNone
      BY <1>0, <2>1, <2>3 DEF Undone, TypeOK, Entries, IdentOrNone, Ids, JournalRecords
    <3> QED
      BY <1>a, <1>f, <2>3, <3>1 DEF Undone
  <2> QED
    BY <2>2, <2>3
<1>11. Barred' /\ Posted'
  BY <1>0, <1>a, <1>e, BarredKept, PostedKept DEF Lessens
<1> QED
  BY <1>1, <1>2, <1>3, <1>4, <1>5, <1>6, <1>7, <1>8, <1>9, <1>10, <1>11
     DEF IInv, Order, Effects, Reversal

-----------------------------------------------------------------------------
(***************************************************************************)
(* The invariant holds of every behaviour.                                 *)
(***************************************************************************)
\* At first there are no objects, no requests and no runs at work.
LEMMA InitEstablishes == ASSUME Init PROVE IInv
<1>0. /\ Gone \in Entries /\ Idle \in Operations /\ Absent \in Objects /\ NoUndo \in Undos
      /\ [compensated |-> {}, outstanding |-> {}, refused |-> {}] \in Reports
  <2>1. Gone \in Entries
    BY DEF Gone, Entries, Phases, DocOrNone, IdentOrNone, AboutOrNone
  <2>2. <<>> \in Seq(JournalRecords)
    OBVIOUS
  <2>3. Absent \in Objects
    BY DEF Absent, Objects, DocOrNone
  <2>4. Idle \in Operations
    BY <2>1 DEF Idle, Operations, IdentOrNone
  <2>5. NoUndo \in Undos
    BY <2>2 DEF NoUndo, Undos, IdentOrNone
  <2>6. [compensated |-> {}, outstanding |-> {}, refused |-> {}] \in Reports
    BY DEF Reports
  <2> QED
    BY <2>1, <2>3, <2>4, <2>5, <2>6
<1>1. TypeOK
  <2>1. None \in DocOrNone
    BY DEF DocOrNone
  <2>2. <<>> \in Seq(JournalRecords)
    OBVIOUS
  <2> QED
    BY <1>0, <2>1, <2>2 DEF Init, TypeOK
<1>2. /\ \A r \in Runs : phase[r] = "new" /\ journal[r] = <<>> /\ undo[r] = NoUndo
      /\ \A r \in Runs : report[r].compensated = {}
      /\ \A r \in Runs, k \in Keys : op[r][k] = Idle
      /\ \A k \in Keys : entry[k] = Gone
      /\ \A i \in Ids : object[i] = Absent
      /\ wire = {} /\ late = {}
  BY DEF Init
<1>3. \A r \in Runs : ~Active(r) /\ phase[r] # "running"
  BY <1>2 DEF Active
<1>4. Locked /\ Quiet /\ Wanted
  BY <1>2, <1>3 DEF Locked, Quiet, Wanted
<1>5. KeysOK /\ Logged /\ Own /\ Forgotten
  BY <1>3 DEF KeysOK, Logged, Own, Forgotten
<1>6. Sent /\ Stale /\ Makers
  BY <1>2 DEF Sent, Stale, Makers
<1>7. Named
  BY <1>2 DEF Named, Gone
<1>8. Once
  BY <1>2 DEF Once
<1>9. IntentBeforeEffect
  BY <1>2, <1>3 DEF IntentBeforeEffect, Working
<1>10. Reversal
  BY <1>2 DEF Reversal, ToUndo, UnderWay, Reversed, Barred, Posted
<1> QED
  BY <1>1, <1>4, <1>5, <1>6, <1>7, <1>8, <1>9, <1>10 DEF IInv, Order, Effects

\* Every step, whoever takes it, keeps the invariant.
LEMMA NextKeeps == ASSUME IInv, [Next]_vars PROVE IInv'
<1>1. ASSUME NEW r \in Runs, NEW k \in Keys, KeyStep(r, k) PROVE IInv'
  <2>1. CASE Observe(r, k)
    BY <2>1, ObserveKeeps
  <2>2. CASE Open(r, k)
    BY <2>2, OpenKeeps
  <2>3. CASE Append1(r, k)
    BY <2>3, AppendKeeps
  <2>4. CASE NotAttempted(r, k)
    BY <2>4, NotAttemptedKeeps
  <2>5. CASE Send(r, k)
    BY <2>5, SendKeeps
  <2>6. CASE Unknown(r, k)
    BY <2>6, UnknownKeeps
  <2>7. CASE Commit(r, k)
    BY <2>7, CommitKeeps
  <2>8. CASE Withdraw(r, k)
    BY <2>8, WithdrawKeeps
  <2> QED
    BY <1>1, <2>1, <2>2, <2>3, <2>4, <2>5, <2>6, <2>7, <2>8 DEF KeyStep
<1>2. ASSUME NEW r \in Runs, UndoStep(r) PROVE IInv'
  <2>1. CASE NothingToUndo(r)
    BY <2>1, NothingToUndoKeeps
  <2>2. CASE UndoSent(r)
    BY <2>2, UndoSentKeeps
  <2>3. CASE UndoRefused(r)
    BY <2>3, UndoRefusedKeeps
  <2>4. CASE UndoFails(r)
    BY <2>4, UndoFailsKeeps
  <2>5. CASE UndoRecorded(r)
    BY <2>5, UndoRecordedKeeps
  <2>6. CASE UndoNotRecorded(r)
    BY <2>6, UndoNotRecordedKeeps
  <2>7. CASE EndPass(r)
    BY <2>7, EndPassKeeps
  <2> QED
    BY <1>2, <2>1, <2>2, <2>3, <2>4, <2>5, <2>6, <2>7 DEF UndoStep
<1>3. ASSUME NEW r \in Runs, Start(r) \/ RunStep(r) \/ Crash(r) PROVE IInv'
  BY <1>1, <1>2, <1>3, StartKeeps, SettleKeeps, DeathKeeps DEF RunStep
<1>4. ASSUME NEW q \in wire, Land(q) \/ Refuse(q) PROVE IInv'
  BY <1>4, LandKeeps, RefuseKeeps
<1>5. CASE Lapse \/ UNCHANGED vars
  BY <1>5, LapseKeeps
<1>6. ASSUME NEW c \in late, LandLate(c) PROVE IInv'
  BY <1>6, LandLateKeeps
<1> QED
  BY <1>3, <1>4, <1>5, <1>6 DEF Next

\* The parts of the invariant together hold whenever the runs are driven by
\* the actions of Converge.
THEOREM Invariant == Spec => []IInv
<1>1. Init => IInv
  BY InitEstablishes
<1>2. IInv /\ [Next]_vars => IInv'
  BY NextKeeps
<1> QED
  BY <1>1, <1>2, PTL DEF Spec

\* Type correctness: ledger, journals, provider and runs.
THEOREM TypeCorrect == Spec => []TypeOK
<1>1. IInv => TypeOK
  BY DEF IInv, Order
<1> QED
  BY <1>1, Invariant, PTL

\* durable.open before the request: whatever was sent or made, even by a run
\* that died or by a request nobody waits for, is in its run's journal.
THEOREM IntentFirst == Spec => []IntentBeforeEffect
<1>1. IInv => IntentBeforeEffect
  BY DEF IInv, Effects
<1> QED
  BY <1>1, Invariant, PTL

-----------------------------------------------------------------------------
(***************************************************************************)
(* What a step may never do.                                               *)
(***************************************************************************)
\* Only an unwind's own compensation, or one that lands late, takes an
\* object away.
LEMMA Removes ==
  ASSUME IInv, Next, NEW i \in Ids, Present(i), ~Present(i)'
  PROVE  \/ \E r \in Runs : UndoSent(r)
         \/ \E c \in late : LandLate(c)
<1>0. TypeOK
  BY DEF IInv, Order
<1>a. object[i].status \in {"present", "reverted"} /\ object'[i].status \notin {"present", "reverted"}
  BY DEF Present
<1>b. object' # object
  BY <1>a
<1>1. ASSUME NEW r \in Runs, Start(r) \/ RunStep(r) \/ Crash(r)
      PROVE  UndoSent(r)
  <2>1. ~Start(r) /\ ~Crash(r) /\ ~Settle(r) /\ ~UnwindFails(r)
    BY <1>b DEF Start, Crash, Settle, UnwindFails
  <2>2. ASSUME NEW k \in Keys PROVE ~KeyStep(r, k)
    BY <1>b DEF KeyStep, Observe, Open, Append1, NotAttempted, Send, Unknown, Commit, Resolve,
                Withdraw
  <2>3. UndoStep(r)
    BY <1>1, <2>1, <2>2 DEF RunStep
  <2> QED
    BY <1>b, <2>3 DEF UndoStep, NothingToUndo, UndoRefused, UndoFails, UndoRecorded,
                      UndoNotRecorded, EndPass
<1>2. ASSUME NEW q \in wire, Land(q) PROVE FALSE
  <2>1. PICK j \in Ids :
          \/ object[j] = Absent /\ object' = [object EXCEPT ![j] = Made(q.key, q.doc, q.run)]
          \/ object' = [object EXCEPT ![j] = Holding(@, q.doc)]
    BY <1>2 DEF Land
  <2>2. object[j] \in Objects
    BY <1>0 DEF TypeOK
  <2>3. object'[i].status \in {"present", "reverted"}
    <3>1. CASE object[j] = Absent /\ object' = [object EXCEPT ![j] = Made(q.key, q.doc, q.run)]
      BY <1>0, <1>a, <3>1 DEF TypeOK, Made
    <3>2. CASE object' = [object EXCEPT ![j] = Holding(@, q.doc)]
      BY <1>0, <1>a, <2>2, <3>2 DEF TypeOK, Objects, Holding
    <3> QED
      BY <2>1, <3>1, <3>2
  <2> QED
    BY <1>a, <2>3
<1>3. ~Lapse /\ \A q \in wire : ~Refuse(q)
  BY <1>b DEF Lapse, Refuse
<1> QED
  BY <1>1, <1>2, <1>3 DEF Next

\* Compensation deletes only what the run itself made: an object an earlier
\* run made survives whatever later runs update, fail and undo, and whichever
\* of their compensations arrive late.
THEOREM OwnRemoved == Spec => OnlyOwnRemoved
<1>1. ASSUME IInv, [Next]_vars
      PROVE  [\A i \in Ids : Present(i) /\ ~Present(i)' =>
                 \/ phase[object[i].maker] = "unwinding"
                 \/ \E c \in late : c.form = "delete" /\ c.ident = i
                                    /\ c.run = object[i].maker]_vars
  <2> SUFFICES ASSUME Next, NEW i \in Ids, Present(i), ~Present(i)'
               PROVE  \/ phase[object[i].maker] = "unwinding"
                      \/ \E c \in late : c.form = "delete" /\ c.ident = i
                                         /\ c.run = object[i].maker
    BY <1>1
  <2>0. TypeOK /\ Own /\ Posted
    BY <1>1 DEF IInv, Order, Effects, Reversal
  <2>1. ASSUME NEW r \in Runs, UndoSent(r) PROVE phase[object[i].maker] = "unwinding"
    <3> DEFINE p == First(r)
               j == entry[p.key].identity
    <3>1. /\ phase[r] = "unwinding" /\ undo[r].todo # <<>>
          /\ j # None
          /\ object' = [object EXCEPT ![j] = IF p.form = "create" THEN Removed(@)
                                             ELSE Holding(@, p.prior)]
      BY <2>1 DEF UndoSent, Undoing, Sendable, UndoEffect
    <3>2. Active(r) /\ p.key \in Keys /\ Journaled(r, p.key, p.form)
      BY <1>1, <3>1, FirstOfJournal
    <3>3. j \in Ids /\ object[j] \in Objects
      BY <2>0, <3>1, <3>2 DEF TypeOK, Entries, IdentOrNone, Ids
    <3> HIDE DEF p, j
    <3>4. i = j /\ p.form = "create"
      BY <2>0, <3>1, <3>3 DEF TypeOK, Present, Objects, Holding
    <3>5. object[j].maker = r
      BY <2>0, <3>1, <3>2, <3>4 DEF Own, j, p
    <3> QED
      BY <3>1, <3>4, <3>5
  <2>2. ASSUME NEW c \in late, LandLate(c)
        PROVE  c.form = "delete" /\ c.ident = i /\ c.run = object[i].maker
    <3>1. c.ident \in Ids /\ object[c.ident] \in Objects
      BY <2>0 DEF TypeOK, Compensations
    <3>2. c.form = "delete" /\ c.ident = i
      BY <2>0, <2>2, <3>1 DEF LandLate, TypeOK, Present, Objects
    <3> QED
      BY <2>0, <3>2 DEF Posted
  <2> QED
    BY <1>1, <2>1, <2>2, Removes
<1> QED
  BY <1>1, Invariant, PTL DEF Spec, OnlyOwnRemoved

\* A run is done by settling with nothing failed, or by its last pass.
LEMMA Finishes ==
  ASSUME IInv, Next, NEW r \in Runs, phase[r] \in {"running", "unwinding"}, phase'[r] = "done"
  PROVE  \/ phase[r] = "running" /\ Settle(r) /\ ~Failed(r)
         \/ phase[r] = "unwinding" /\ EndPass(r) /\ ~Again(r)
<1>0. TypeOK
  BY DEF IInv, Order
<1>a. phase' # phase
  OBVIOUS
<1>1. PICK s \in Runs : Start(s) \/ RunStep(s) \/ Crash(s)
  BY <1>a DEF Next, Land, LandLate, Refuse, Lapse, runVars
<1>2. Start(s) \/ Crash(s) \/ Settle(s) \/ UnwindFails(s) \/ EndPass(s)
  <2>1. ASSUME NEW k \in Keys PROVE ~KeyStep(s, k)
    BY <1>a DEF KeyStep, Observe, Open, Append1, NotAttempted, Send, Unknown, Commit, Resolve,
                Withdraw, runVars
  <2> QED
    BY <1>1, <1>a, <2>1 DEF RunStep, UndoStep, NothingToUndo, UndoSent, UndoRefused, UndoFails,
                            UndoRecorded, UndoNotRecorded
<1>3. \A t \in Runs : t # s => phase'[t] = phase[t]
  BY <1>0, <1>2 DEF TypeOK, Start, Crash, Settle, UnwindFails, EndPass, Ends
<1>4. s = r
  BY <1>3
<1>5. ~Start(r) /\ ~Crash(r) /\ ~UnwindFails(r)
  BY <1>0 DEF TypeOK, Start, Crash, UnwindFails, Ends
<1>6. CASE Settle(r)
  BY <1>0, <1>6 DEF TypeOK, Settle
<1>7. CASE EndPass(r)
  BY <1>a, <1>7 DEF EndPass
<1> QED
  BY <1>2, <1>4, <1>5, <1>6, <1>7

\* A run that reports success has converged: every key is live in the ledger
\* under an identity that names an object holding what was asked, unless an
\* earlier run's late compensation has reached it.
THEOREM Applied == Spec => AppliedIsLive
<1>1. ASSUME IInv, [Next]_vars
      PROVE  [\A r \in Runs : phase[r] = "running" /\ phase'[r] = "done" =>
                \A k \in Keys :
                   /\ entry[k].phase = "Live"
                   /\ \/ Late(entry[k].identity)
                      \/ Present(entry[k].identity) /\ object[entry[k].identity].doc = want[r][k]]_vars
  <2> SUFFICES ASSUME Next, NEW r \in Runs, phase[r] = "running", phase'[r] = "done",
                      NEW k \in Keys
               PROVE  entry[k].phase = "Live" /\ Holds(entry[k].identity, want[r][k])
    BY <1>1 DEF Holds
  <2>0. TypeOK /\ KeysOK
    BY <1>1 DEF IInv, Order, Effects
  <2>1. Settle(r) /\ ~Failed(r)
    BY <1>1, Finishes
  <2>2. op[r][k].pc \in {"kept", "settled"}
    <3>1. op[r][k] \in Operations
      BY <2>0 DEF TypeOK
    <3> QED
      BY <2>1, <3>1 DEF Settle, Stopped, Failed, Operations, InFlight
  <2>3. Converged(r, k)
    BY <2>0 DEF KeysOK, KeyOK, Active
  <2> QED
    BY <2>2, <2>3 DEF Converged
<1> QED
  BY <1>1, Invariant, PTL DEF Spec, AppliedIsLive

\* What a failed run reports as compensated, and not outstanding too, is
\* undone, at the provider and in the ledger.
THEOREM Compensation == Spec => CompensatedIsUndone
<1>1. ASSUME IInv, [Next]_vars
      PROVE  [\A r \in Runs : phase[r] = "unwinding" /\ phase'[r] = "done" =>
                \A n \in DOMAIN journal[r] :
                   journal[r][n].key \in report'[r].compensated \ report'[r].outstanding =>
                      Undone(r, journal[r][n])]_vars
  <2> SUFFICES ASSUME Next, NEW r \in Runs, phase[r] = "unwinding", phase'[r] = "done",
                      NEW n \in DOMAIN journal[r],
                      journal[r][n].key \in report'[r].compensated \ report'[r].outstanding
               PROVE  Undone(r, journal[r][n])
    BY <1>1
  <2>0. TypeOK /\ UnderWay
    BY <1>1 DEF IInv, Order, Reversal
  <2>1. EndPass(r) /\ ~Again(r)
    BY <1>1, Finishes
  <2>2. undo[r].at = "next"
    BY <2>0, <2>1 DEF UnderWay, EndPass
  <2>3. journal[r][n].key \in report[r].compensated \ report[r].outstanding
    <3> DEFINE s == {x.key : x \in ToSet(undo[r].blocked)}
    <3>1. report' = [report EXCEPT ![r].outstanding = @ \cup s, ![r].refused = @ \cup s]
      BY <2>1 DEF EndPass
    <3> HIDE DEF s
    <3>2. /\ report'[r].compensated = report[r].compensated
          /\ report'[r].outstanding = report[r].outstanding \cup s
      BY <2>0, <3>1 DEF TypeOK, Reports
    <3> QED
      BY <3>2
  <2> QED
    BY <1>1, <2>2, <2>3, AllUndone
<1>2. [\A r \in Runs : phase[r] = "unwinding" /\ phase'[r] = "done" =>
         \A n \in DOMAIN journal[r] :
            journal[r][n].key \in report'[r].compensated \ report'[r].outstanding =>
               Undone(r, journal[r][n])]_vars
      => [\A r \in Runs : phase[r] = "unwinding" /\ phase'[r] = "done" =>
          \A n \in DOMAIN journal[r] :
             LET p == journal[r][n]
                 i == entry[p.key].identity
             IN  p.key \in report'[r].compensated \ report'[r].outstanding =>
                    IF p.form = "create"
                      THEN /\ \A j \in Ids : Present(j) =>
                                 object[j].key # p.key \/ object[j].maker # r
                           /\ \A q \in wire : q.key # p.key \/ q.run # r
                      ELSE /\ entry[p.key].phase = "Live" /\ entry[p.key].plan = p.prior
                           /\ Late(i) \/ (Present(i) /\ object[i].doc = p.prior)]_vars
  BY DEF Undone, NoTrace, Holds
<1> QED
  BY <1>1, <1>2, Invariant, PTL DEF Spec, CompensatedIsUndone

\* What is refused as blocked is retried until a pass reverses nothing: when
\* the unwind ends, what blocked a record still blocked is there still.
THEOREM Retried == Spec => RetriedUntilNoProgress
<1>1. ASSUME IInv, [Next]_vars
      PROVE  [\A r \in Runs : phase[r] = "unwinding" /\ phase'[r] = "done" =>
                \A n \in DOMAIN undo[r].blocked :
                   StillBlocked(r, undo[r].blocked[n].key)]_vars
  <2> SUFFICES ASSUME Next, NEW r \in Runs, phase[r] = "unwinding", phase'[r] = "done",
                      NEW n \in DOMAIN undo[r].blocked
               PROVE  StillBlocked(r, undo[r].blocked[n].key)
    BY <1>1
  <2>0. TypeOK /\ Barred /\ UnderWay
    BY <1>1 DEF IInv, Order, Reversal
  <2>1. EndPass(r) /\ ~Again(r)
    BY <1>1, Finishes
  <2>2. ~undo[r].progressed
    <3>1. undo[r].blocked # <<>>
      OBVIOUS
    <3> QED
      BY <2>1, <3>1 DEF Again
  <2>3. undo[r].at = "next"
    BY <2>0, <2>1 DEF UnderWay, EndPass
  <2>4. Waits(r, undo[r].blocked[n].key)
    BY <2>0, <2>2 DEF Barred
  <2> QED
    BY <2>3, <2>4 DEF Waits
<1> QED
  BY <1>1, Invariant, PTL DEF Spec, RetriedUntilNoProgress
=============================================================================
