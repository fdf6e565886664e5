------------------------------ MODULE Converge ------------------------------
(***************************************************************************)
(* pkg/omnisdk (desired.go, managed.go) with internal/unwind, journal and  *)
(* effect/docrun: converging runs over one collection.  A run takes the    *)
(* collection's lock, and for each key recalls the recorded identity,      *)
(* reads the object, decides (create, update or keep), records the intent  *)
(* in the ledger and in the run's journal, sends the request and commits   *)
(* what landed.  A run that fails unwinds its journal, latest first.       *)
(*                                                                         *)
(* Keys that do not depend on each other are worked on side by side, the   *)
(* provider may refuse, fail, answer late or act after the caller gave up, *)
(* a ledger or journal write may fail, and a run may die at any step; a    *)
(* later run then finds what it left.                                      *)
(*                                                                         *)
(* The ledger is the contract of module Ledger with each Get and the write *)
(* presented with its version taken as one step: a write that came between *)
(* makes the code fail with a conflict, which is the failing variant of    *)
(* the step.  The lock is module Lease reduced to who holds it, for runs   *)
(* that end within their lease of five minutes, which nothing renews.      *)
(*                                                                         *)
(* plan/compose.go also aligns the stages of all keys in levels.  Which    *)
(* stages of two keys meet depends on how many each resource needs, so the *)
(* model lets independent keys proceed at any relative speed.              *)
(*                                                                         *)
(* A failed run starts to unwind once no member of its section waits for   *)
(* an answer; what has been answered may still have its commit to make,    *)
(* and makes it beside the unwind.  One not made when the run ends is      *)
(* taken never to be made.                                                 *)
(*                                                                         *)
(* A run whose context ends in the middle of a response is left out: the   *)
(* code takes it for the response's end and commits.                       *)
(***************************************************************************)
EXTENDS LedgerEntries, Sequences, SequencesExt

CONSTANTS
    Runs,           \* run ids: each is used by one run
    DependsOn,      \* DependsOn[k]: the keys whose identity key k reads
    Inside,         \* Inside[k]: keys whose object blocks the delete of k's
    Invertible,     \* keys whose create has a declared inverse
    Refusals        \* how the effector reports that the provider refused a
                    \* compensation: "blocked" is ErrCompensationBlocked, which
                    \* the contract asks for, "failed" any other error, which
                    \* is all that effect/docrun returns

ASSUME GraphAssumption == /\ DependsOn \in [Keys -> SUBSET Keys]
                          /\ Inside \in [Keys -> SUBSET Keys]
                          /\ Invertible \subseteq Keys
                          /\ Refusals \subseteq {"blocked", "failed"}

ASSUME NoneIsApart == None \notin Runs /\ None \notin Keys /\ None \notin {"create", "update"}

Ids == Idents

VARIABLES
    entry,          \* entry[k]: the ledger's record of k
    journal,        \* journal[r]: the run's forward log
    object,         \* object[i]: the object the provider knows as i
    wire,           \* requests a run has sent and the provider not yet acted on
    late,           \* compensations given up on, which it may act on yet
    holder,         \* the run that has the collection's lock, or None
    phase,          \* phase[r]: how far run r is
    want,           \* want[r][k]: the desired document, None before the run starts
    op,             \* op[r][k]: the run's work on key k
    undo,           \* undo[r]: where the run is in unwinding its journal
    report          \* report[r]: what the run says of the keys it unwound

vars == <<entry, journal, object, wire, late, holder, phase, want, op, undo, report>>
runVars == <<late, holder, phase, want, undo, report>>

(***************************************************************************)
(* The provider.  External: what the code assumes of it.                   *)
(***************************************************************************)
Absent == [status |-> "absent", key |-> None, doc |-> None, maker |-> None]
Made(k, d, r) == [status |-> "present", key |-> k, doc |-> d, maker |-> r]
Removed(o) == [o EXCEPT !.status = "removed"]

\* A compensation whose sender did not wait for it has removed the object
\* since ("withdrawn"), or put back what it held before ("reverted").
Late(i) == i # None /\ object[i].status \in {"withdrawn", "reverted"}

Present(i) == i # None /\ object[i].status \in {"present", "reverted"}

Holding(o, d) == [o EXCEPT !.doc = d, !.status = "present"]

\* A delete is refused while an object inside this one exists.
HasDependent(k) == \E i \in Ids : Present(i) /\ object[i].key \in Inside[k]

(***************************************************************************)
(* Shorthands.                                                             *)
(***************************************************************************)
\* A key's work: where it is, what is to be done to which object, and what
\* the ledger held when the intent was recorded.
Idle == [pc |-> "idle", form |-> None, ident |-> None, was |-> Gone]

AtKey(r, k, where) == op' = [op EXCEPT ![r][k].pc = where]

Working(r, k, where) == phase[r] = "running" /\ op[r][k].pc = where

Failed(r) == \E k \in Keys : op[r][k].pc = "failed"

InFlight == {"open", "append", "send", "sent", "landed", "refused"}

\* Unwind's loop: what is left of this pass, what the next one retries,
\* whether this one reversed anything, and how far the compensation of the
\* first one left has got.
NoUndo == [todo |-> <<>>, blocked |-> <<>>, progressed |-> FALSE,
           at |-> "next", ident |-> None]

Request(r, k) == [run |-> r, key |-> k, form |-> op[r][k].form,
                  doc |-> want[r][k], ident |-> op[r][k].ident]
----------------------------------------------------------------------------
Init == /\ entry = [k \in Keys |-> Gone]
        /\ journal = [r \in Runs |-> <<>>]
        /\ object = [i \in Ids |-> Absent]
        /\ wire = {}
        /\ late = {}
        /\ holder = None
        /\ phase = [r \in Runs |-> "new"]
        /\ want = [r \in Runs |-> [k \in Keys |-> None]]
        /\ op = [r \in Runs |-> [k \in Keys |-> Idle]]
        /\ undo = [r \in Runs |-> NoUndo]
        /\ report = [r \in Runs |-> [compensated |-> {}, outstanding |-> {}, refused |-> {}]]

\* hold: the lock is taken, and the run's journal reserved.
Start(r) ==
    /\ phase[r] = "new"
    /\ holder = None
    /\ holder' = r
    /\ phase' = [phase EXCEPT ![r] = "running"]
    /\ \E f \in [Keys -> Docs] : want' = [want EXCEPT ![r] = f]
    /\ UNCHANGED <<entry, journal, object, wire, late, op, undo, report>>

(***************************************************************************)
(* One key, forward.                                                       *)
(***************************************************************************)
\* Mutant of Decision: the form of the operation is not filled in.
Decision_NoForm(r, k) ==
    LET i == entry[k].identity IN
    IF ~Present(i) THEN [Idle EXCEPT !.pc = "open"]
    ELSE IF object[i].doc = want[r][k] THEN [Idle EXCEPT !.pc = "kept"]
    ELSE [Idle EXCEPT !.pc = "open", !.ident = i]

\* recall, the read it addresses, and the diff: with no recorded identity,
\* or none the provider knows, the key is absent.
Decision(r, k) ==
    LET i == entry[k].identity IN
    IF ~Present(i) THEN [Idle EXCEPT !.pc = "open", !.form = "create"]
    ELSE IF object[i].doc = want[r][k] THEN [Idle EXCEPT !.pc = "kept"]
    ELSE [Idle EXCEPT !.pc = "open", !.form = "update", !.ident = i]

\* A failure starts nothing more, and a key waits for the row of what it
\* reads from, which the answer gives: the commit may come after.
Observe(r, k) ==
    /\ Working(r, k, "idle")
    /\ ~Failed(r)
    /\ \A d \in DependsOn[k] : op[r][d].pc \in {"kept", "landed", "settled"}
    /\ op' = [op EXCEPT ![r][k] = Decision(r, k)]
    /\ UNCHANGED <<entry, journal, object, wire>>
    /\ UNCHANGED runVars

\* Mutant of Open: goes on to send without journalling.
Open_NoJournal(r, k) ==
    /\ Working(r, k, "open")
    /\ entry' = [entry EXCEPT ![k] = Begun(@, want[r][k])]
    /\ op' = [op EXCEPT ![r][k].pc = "send", ![r][k].was = entry[k]]
    /\ UNCHANGED <<journal, object, wire>>
    /\ UNCHANGED runVars

\* durable.open, the ledger: intent is recorded before anything is sent.
Open(r, k) ==
    /\ Working(r, k, "open")
    /\ entry' = [entry EXCEPT ![k] = Begun(@, want[r][k])]
    /\ op' = [op EXCEPT ![r][k].pc = "append", ![r][k].was = entry[k]]
    /\ UNCHANGED <<journal, object, wire>>
    /\ UNCHANGED runVars

\* Mutant of JournalRecord: an update is journalled as a create.
JournalRecord_Create(r, k) == [key |-> k, form |-> "create", prior |-> op[r][k].was.plan]

\* durable.open, the journal.
JournalRecord(r, k) == [key |-> k, form |-> op[r][k].form, prior |-> op[r][k].was.plan]

Append1(r, k) ==
    /\ Working(r, k, "append")
    /\ journal' = [journal EXCEPT ![r] = Append(@, JournalRecord(r, k))]
    /\ AtKey(r, k, "send")
    /\ UNCHANGED <<entry, object, wire>>
    /\ UNCHANGED runVars

\* The object cannot be read, or the intent not recorded (ErrNotAttempted):
\* no request is made.  The failed write may have reached the disk.
NotAttempted(r, k) ==
    /\ \/ /\ Working(r, k, "open")
          /\ \/ UNCHANGED entry
             \/ entry' = [entry EXCEPT ![k] = Begun(@, want[r][k])]
          /\ UNCHANGED journal
       \/ /\ Working(r, k, "append")
          /\ \/ UNCHANGED journal
             \/ journal' = [journal EXCEPT ![r] = Append(@, JournalRecord(r, k))]
          /\ UNCHANGED entry
    /\ AtKey(r, k, "failed")
    /\ UNCHANGED <<object, wire>>
    /\ UNCHANGED runVars

Send(r, k) ==
    /\ Working(r, k, "send")
    /\ wire' = wire \cup {Request(r, k)}
    /\ AtKey(r, k, "sent")
    /\ UNCHANGED <<entry, journal, object>>
    /\ UNCHANGED runVars

\* The answer reaches the run if it still waits.
Answered(r, k, i) ==
    op' = [op EXCEPT ![r][k] = IF Working(r, k, "sent")
                                 THEN [@ EXCEPT !.pc = "landed", !.ident = i] ELSE @]

\* The provider acts on a request, whether or not anyone still waits.
Land(q) ==
    /\ q \in wire
    /\ wire' = wire \ {q}
    /\ \E i \in Ids :
          /\ \/ /\ q.form = "create"
                /\ object[i] = Absent
                /\ object' = [object EXCEPT ![i] = Made(q.key, q.doc, q.run)]
             \/ /\ q.form = "update"
                /\ i = q.ident
                /\ Present(i)
                /\ object' = [object EXCEPT ![i] = Holding(@, q.doc)]
          /\ Answered(q.run, q.key, i)
    /\ UNCHANGED <<entry, journal>>
    /\ UNCHANGED runVars

\* The provider answers with a 4xx: the effect did not happen.
Refuse(q) ==
    /\ q \in wire
    /\ wire' = wire \ {q}
    /\ op' = [op EXCEPT ![q.run][q.key].pc =
                 IF Working(q.run, q.key, "sent") THEN "refused" ELSE @]
    /\ UNCHANGED <<entry, journal, object>>
    /\ UNCHANGED runVars

\* Mutant of Unknown: no answer is taken for a refusal.
Unknown_Withdrawn(r, k) ==
    /\ Working(r, k, "sent") \/ op[r][k].pc = "landed"
    /\ entry' = [entry EXCEPT ![k] = Gone]
    /\ AtKey(r, k, "failed")
    /\ UNCHANGED <<journal, object, wire>>
    /\ UNCHANGED runVars

\* No answer, or a 5xx: ErrOutcomeUnknown, and the entry stays pending, as
\* it does when the commit fails.
Unknown(r, k) ==
    /\ Working(r, k, "sent") \/ op[r][k].pc = "landed"
    /\ AtKey(r, k, "failed")
    /\ UNCHANGED <<entry, journal, object, wire>>
    /\ UNCHANGED runVars

\* durableRecords.commit: a Get and a Resolve with identity i, which needs
\* the entry to be pending still.
Resolve(r, k, i, where) ==
    /\ entry[k].phase = "Pending"
    /\ entry' = [entry EXCEPT ![k] = Resolved(@, i, None)]
    /\ AtKey(r, k, where)
    /\ UNCHANGED <<journal, object, wire>>
    /\ UNCHANGED runVars

\* Mutant of Commit: the entry keeps the identity it had before.
Commit_OldIdentity(r, k) ==
    /\ op[r][k].pc = "landed"
    /\ \E where \in {"settled", "failed"} : Resolve(r, k, op[r][k].was.identity, where)

\* After the answer, while the run works or unwinds.  A failing commit may
\* have reached the disk.
Commit(r, k) == /\ op[r][k].pc = "landed"
                /\ \E where \in {"settled", "failed"} : Resolve(r, k, op[r][k].ident, where)

\* A refused create's intent is withdrawn; an update keeps its entry.  The
\* Forget may fail, and its failure is ignored.
Withdraw(r, k) ==
    /\ Working(r, k, "refused")
    /\ \/ UNCHANGED entry
       \/ ~Found(op[r][k].was) /\ entry' = [entry EXCEPT ![k] = Gone]
    /\ AtKey(r, k, "failed")
    /\ UNCHANGED <<journal, object, wire>>
    /\ UNCHANGED runVars

(***************************************************************************)
(* The end of a run, and unwinding.                                        *)
(***************************************************************************)
Release(r) == holder' = IF holder = r THEN None ELSE holder

\* The run ends one way or the other: what it had in memory is gone.
Ends(r, how) == /\ phase' = [phase EXCEPT ![r] = how]
                /\ want' = [want EXCEPT ![r] = [k \in Keys |-> None]]
                /\ op' = [op EXCEPT ![r] = [k \in Keys |-> Idle]]
                /\ undo' = [undo EXCEPT ![r] = NoUndo]

\* Mutant of Stopped: waits for keys a failed run will never start.
Stopped_All(r) == \A k \in Keys : op[r][k].pc \notin InFlight \cup {"idle"}

\* Every key has stopped; after a failure, those not begun and those with
\* their commit to make count as stopped.
Stopped(r) == \A k \in Keys : /\ op[r][k].pc \notin InFlight \ {"landed"}
                              /\ op[r][k].pc \in {"idle", "landed"} => Failed(r)

\* The section is over.  A run that succeeded reports its keys applied; one
\* that failed unwinds its journal, latest record first.
Settle(r) ==
    /\ phase[r] = "running"
    /\ Stopped(r)
    /\ IF Failed(r)
         THEN /\ phase' = [phase EXCEPT ![r] = "unwinding"]
              /\ undo' = [undo EXCEPT ![r].todo = Reverse(journal[r])]
              /\ UNCHANGED <<holder, want, op>>
         ELSE /\ Ends(r, "done")
              /\ Release(r)
    /\ UNCHANGED <<entry, journal, object, wire, late, report>>

\* The journal cannot be read back: the run ends with nothing unwound.
UnwindFails(r) ==
    /\ phase[r] = "running"
    /\ Stopped(r)
    /\ Failed(r)
    /\ Ends(r, "dead")
    /\ Release(r)
    /\ UNCHANGED <<entry, journal, object, wire, late, report>>

Undoing(r, where) == /\ phase[r] = "unwinding"
                     /\ undo[r].at = where
                     /\ undo[r].todo # <<>>

First(r) == Head(undo[r].todo)

\* compensate returned: nil, ErrCompensationBlocked or another error.
Compensated(r) ==
    /\ undo' = [undo EXCEPT ![r] = [@ EXCEPT !.todo = Tail(undo[r].todo), !.progressed = TRUE,
                                             !.at = "next", !.ident = None]]
    /\ report' = [report EXCEPT ![r].compensated = @ \cup {First(r).key}]

Blocked(r) ==
    /\ undo' = [undo EXCEPT ![r] = [@ EXCEPT !.todo = Tail(undo[r].todo),
                                             !.at = "next", !.ident = None,
                                             !.blocked = Append(undo[r].blocked, First(r))]]
    /\ UNCHANGED report

Outstanding(r) ==
    /\ undo' = [undo EXCEPT ![r] = [@ EXCEPT !.todo = Tail(undo[r].todo),
                                             !.at = "next", !.ident = None]]
    /\ report' = [report EXCEPT ![r].outstanding = @ \cup {First(r).key}]

\* Not recorded, so nothing landed that is known of.
NothingToUndo(r) ==
    LET p == First(r) IN
    /\ Undoing(r, "next")
    /\ ~Found(entry[p.key])
    /\ p.form = "create" => p.key \in Invertible
    /\ Compensated(r)
    /\ UNCHANGED <<entry, journal, object, wire, late, holder, phase, want, op>>

\* A compensation can be sent: an update with a prior intent to restore, or
\* a create with an inverse, whose entry is not pending.  docrun.Read of a
\* pending one has no identity to read by, so it is never usable.
Sendable(p) == /\ Found(entry[p.key])
               /\ entry[p.key].identity # None
               /\ \/ p.form = "update" /\ p.prior # None
                  \/ p.form = "create" /\ p.key \in Invertible /\ entry[p.key].phase = "Live"

\* What the provider makes of it.
UndoEffect(p, i) ==
    /\ Present(i)
    /\ p.form = "create" => ~HasDependent(p.key)
    /\ object' = [object EXCEPT ![i] = IF p.form = "create" THEN Removed(@)
                                       ELSE Holding(@, p.prior)]

\* The call succeeds, and the ledger is next.
UndoSent(r) ==
    LET p == First(r) IN
    /\ Undoing(r, "next")
    /\ Sendable(p)
    /\ UndoEffect(p, entry[p.key].identity)
    /\ undo' = [undo EXCEPT ![r].at = "effected", ![r].ident = entry[p.key].identity]
    /\ UNCHANGED <<entry, journal, wire, late, holder, phase, want, op, report>>

\* The call is refused because something is inside the object.
UndoRefused(r) ==
    LET p == First(r) IN
    /\ Undoing(r, "next")
    /\ Sendable(p)
    /\ p.form = "create" /\ HasDependent(p.key)
    /\ \/ "blocked" \in Refusals /\ Blocked(r)
       \/ /\ "failed" \in Refusals
          /\ undo' = [undo EXCEPT ![r].todo = Tail(@)]
          /\ report' = [report EXCEPT ![r].outstanding = @ \cup {p.key},
                                     ![r].refused = @ \cup {p.key}]
    /\ UNCHANGED <<entry, journal, object, wire, late, holder, phase, want, op>>

UndoRequest(r, p) == [run |-> r, key |-> p.key, doc |-> p.prior, ident |-> entry[p.key].identity,
                       form |-> IF p.form = "create" THEN "delete" ELSE "restore"]

\* There is no compensation to send, or sending it fails: it is never acted
\* on, or it is without an answer, now or later.
UndoFails(r) ==
    LET p == First(r) IN
    /\ Undoing(r, "next")
    /\ \/ Found(entry[p.key]) /\ UNCHANGED late
       \/ p.form = "create" /\ p.key \notin Invertible /\ UNCHANGED late
       \/ Sendable(p) /\ late' = late \cup {UndoRequest(r, p)}
    /\ Outstanding(r)
    /\ UNCHANGED <<entry, journal, object, wire, holder, phase, want, op>>

\* The provider acts on a compensation that its run reported outstanding.
LandLate(c) ==
    /\ c \in late
    /\ late' = late \ {c}
    /\ Present(c.ident)
    /\ \/ /\ c.form = "delete"
          /\ ~HasDependent(c.key)
          /\ object' = [object EXCEPT ![c.ident].status = "withdrawn"]
       \/ /\ c.form = "restore"
          /\ object' = [object EXCEPT ![c.ident] = [@ EXCEPT !.doc = c.doc, !.status = "reverted"]]
    /\ UNCHANGED <<entry, journal, wire, holder, phase, want, op, undo, report>>

\* The ledger after a delete: Forget.  After a restore: Begin with the prior
\* intent, then Resolve with the identity read before.
UndoRecorded(r) ==
    LET p == First(r) IN
    /\ \/ /\ Undoing(r, "effected")
          /\ p.form = "create"
          /\ entry' = [entry EXCEPT ![p.key] = Gone]
          /\ Compensated(r)
       \/ /\ Undoing(r, "effected")
          /\ p.form = "update"
          /\ entry' = [entry EXCEPT ![p.key] = Begun(@, p.prior)]
          /\ undo' = [undo EXCEPT ![r].at = "begun"]
          /\ UNCHANGED report
       \/ /\ Undoing(r, "begun")
          /\ entry' = [entry EXCEPT ![p.key] = Resolved(@, undo[r].ident, None)]
          /\ Compensated(r)
    /\ UNCHANGED <<journal, object, wire, late, holder, phase, want, op>>

UndoNotRecorded(r) ==
    /\ Undoing(r, "effected") \/ Undoing(r, "begun")
    /\ Outstanding(r)
    /\ UNCHANGED <<entry, journal, object, wire, late, holder, phase, want, op>>

\* Mutant of Again: one pass and no more.
Again_Never(r) == FALSE

\* Something is blocked, and this pass reversed something else.
Again(r) == undo[r].blocked # <<>> /\ undo[r].progressed

\* The end of a pass: again with what was blocked if anything was reversed,
\* otherwise that is outstanding and the run reports and ends.
EndPass(r) ==
    LET b == undo[r].blocked IN
    /\ phase[r] = "unwinding"
    /\ undo[r].todo = <<>>
    /\ IF Again(r)
         THEN /\ undo' = [undo EXCEPT ![r] = [NoUndo EXCEPT !.todo = b]]
              /\ UNCHANGED <<phase, holder, want, op, report>>
         ELSE /\ report' = [report EXCEPT
                               ![r].outstanding = @ \cup {x.key : x \in ToSet(b)},
                               ![r].refused = @ \cup {x.key : x \in ToSet(b)}]
              /\ Ends(r, "done")
              /\ Release(r)
    /\ UNCHANGED <<entry, journal, object, wire, late>>

\* The process dies.  What it sent is still on its way, and its lock stays
\* until it lapses.
Crash(r) ==
    /\ phase[r] \in {"running", "unwinding"}
    /\ Ends(r, "dead")
    /\ UNCHANGED <<entry, journal, object, wire, late, holder, report>>

Lapse ==
    /\ holder # None
    /\ phase[holder] = "dead"
    /\ holder' = None
    /\ UNCHANGED <<entry, journal, object, wire, late, phase, want, op, undo, report>>

----------------------------------------------------------------------------
KeyStep(r, k) == \/ Observe(r, k) \/ Open(r, k) \/ Append1(r, k) \/ NotAttempted(r, k)
                 \/ Send(r, k) \/ Unknown(r, k) \/ Commit(r, k) \/ Withdraw(r, k)

UndoStep(r) == \/ NothingToUndo(r) \/ UndoSent(r) \/ UndoRefused(r) \/ UndoFails(r)
               \/ UndoRecorded(r) \/ UndoNotRecorded(r) \/ EndPass(r)

RunStep(r) == (\E k \in Keys : KeyStep(r, k)) \/ Settle(r) \/ UnwindFails(r) \/ UndoStep(r)

Next == \/ \E r \in Runs : Start(r) \/ RunStep(r) \/ Crash(r)
        \/ \E q \in wire : Land(q) \/ Refuse(q)
        \/ \E c \in late : LandLate(c)
        \/ Lapse

Spec == Init /\ [][Next]_vars

\* The scheduler runs every goroutine that can run, and time passes.
FairSpec == Spec /\ (\A r \in Runs : WF_vars(RunStep(r))) /\ WF_vars(Lapse)

----------------------------------------------------------------------------
(***************************************************************************)
(* Properties.                                                             *)
(***************************************************************************)
JournalRecords == [key : Keys, form : {"create", "update"}, prior : DocOrNone]

Objects == [status : {"absent", "present", "removed", "withdrawn", "reverted"},
            key : Keys \cup {None}, doc : DocOrNone, maker : Runs \cup {None}]

Requests == [run : Runs, key : Keys, form : {"create", "update"}, doc : Docs,
             ident : IdentOrNone]

Compensations == [run : Runs, key : Keys, form : {"delete", "restore"}, doc : DocOrNone,
                  ident : Ids]

Operations == [pc : InFlight \cup {"idle", "kept", "settled", "failed"},
               form : {"create", "update", None}, ident : IdentOrNone, was : Entries]

Undos == [todo : Seq(JournalRecords), blocked : Seq(JournalRecords), progressed : BOOLEAN,
          at : {"next", "effected", "begun"}, ident : IdentOrNone]

Reports == [compensated : SUBSET Keys, outstanding : SUBSET Keys, refused : SUBSET Keys]

\* Type correctness of the durable state, the provider and the runs.
TypeOK ==
    /\ entry \in [Keys -> Entries]
    /\ journal \in [Runs -> Seq(JournalRecords)]
    /\ object \in [Ids -> Objects]
    /\ wire \subseteq Requests
    /\ late \subseteq Compensations
    /\ holder \in Runs \cup {None}
    /\ phase \in [Runs -> {"new", "running", "unwinding", "done", "dead"}]
    /\ want \in [Runs -> [Keys -> DocOrNone]]
    /\ op \in [Runs -> [Keys -> Operations]]
    /\ undo \in [Runs -> Undos]
    /\ report \in [Runs -> Reports]

Journaled(r, k, form) ==
    \E n \in DOMAIN journal[r] : journal[r][n].key = k /\ journal[r][n].form = form

\* Intent before effect: whatever was sent to make or change an object, even
\* by a run that died or by a request that arrived after everyone gave up,
\* is in its run's journal, and while the run waits its ledger entry says
\* what was asked.
IntentBeforeEffect ==
    /\ \A q \in wire : Journaled(q.run, q.key, q.form)
    /\ \A i \in Ids : object[i] # Absent =>
          Journaled(object[i].maker, object[i].key, "create")
    /\ \A r \in Runs, k \in Keys : Working(r, k, "sent") =>
          entry[k].phase = "Pending" /\ entry[k].proposed = want[r][k]

\* Unwinding deletes only what the run itself made: an object an earlier run
\* made survives whatever later runs update, fail and undo.  What removes an
\* object is its maker's unwind, or a delete its maker sent and gave up on.
OnlyOwnRemoved ==
    [][\A i \in Ids : Present(i) /\ ~Present(i)' =>
          \/ phase[object[i].maker] = "unwinding"
          \/ \E c \in late : c.form = "delete" /\ c.ident = i /\ c.run = object[i].maker]_vars

\* What a failed run reports as compensated, and not outstanding too, is
\* undone: no object it made for the key exists or can still appear, and an
\* object it updated has its prior intent back, at the provider and in the
\* ledger.  The exception is an object that a compensation of an earlier run,
\* reported outstanding, has reached since (Late).
CompensatedIsUndone ==
    [][\A r \in Runs : phase[r] = "unwinding" /\ phase'[r] = "done" =>
          \A n \in DOMAIN journal[r] :
             LET p == journal[r][n]
                 i == entry[p.key].identity
             IN  p.key \in report'[r].compensated \ report'[r].outstanding =>
                    IF p.form = "create"
                      THEN /\ \A j \in Ids : Present(j) =>
                                 object[j].key # p.key \/ object[j].maker # r
                           /\ \A q \in wire : q.key # p.key \/ q.run # r
                      ELSE /\ entry[p.key].phase = "Live" /\ entry[p.key].plan = p.prior
                           /\ Late(i) \/ (Present(i) /\ object[i].doc = p.prior)]_vars

\* A run that reports success has converged: every key is live in the
\* ledger under an identity that names an object holding what was asked,
\* unless a compensation that an earlier run sent and reported outstanding
\* reached it in the meantime (Late): nothing calls that request back.
AppliedIsLive ==
    [][\A r \in Runs : phase[r] = "running" /\ phase'[r] = "done" =>
          \A k \in Keys :
             /\ entry[k].phase = "Live"
             /\ \/ Late(entry[k].identity)
                \/ Present(entry[k].identity) /\ object[entry[k].identity].doc = want[r][k]]_vars

\* Every run gives the collection back: it ends, unwinding included, or it
\* dies and its lock lapses.
CollectionFreed == \A r \in Runs : holder = r ~> holder # r

\* What refused the delete of k's object is there still, or it went in a way
\* that the unwind of r does not count as progress: deleted by this run with
\* the deletion not recorded, or by the late request of another.
StillBlocked(r, k) ==
    \E i \in Ids : /\ object[i].key \in Inside[k]
                   /\ \/ Present(i)
                      \/ object[i].status = "withdrawn"
                      \/ object[i].key \in report[r].outstanding

\* unwind.go:120: what is refused as blocked is retried, since a compensation
\* in the same pass may have removed the child that blocked it, until a pass
\* makes no progress.  So when the unwind ends with records still blocked,
\* the child of each is there still.
RetriedUntilNoProgress ==
    [][\A r \in Runs : phase[r] = "unwinding" /\ phase'[r] = "done" =>
          \A n \in DOMAIN undo[r].blocked : StillBlocked(r, undo[r].blocked[n].key)]_vars

\* query_forms.md:25: unwinding goes on "retrying what a provider refuses
\* while a dependent exists, until a pass makes no progress", so what is
\* reported as refused has its dependent still.
RefusedIsRetried ==
    [][\A r \in Runs : phase[r] = "unwinding" /\ phase'[r] = "done" =>
          \A k \in report'[r].refused : StillBlocked(r, k)]_vars

\* facade.Ledger: "a pending entry says what to go and ask about, never what
\* to blindly re-execute", so no key comes to have two objects.
OneObjectPerKey ==
    \A i, j \in Ids : Present(i) /\ Present(j) /\ object[i].key = object[j].key => i = j
----------------------------------------------------------------------------
(***************************************************************************)
(* Small instances: up to three keys, which are numbers.                   *)
(***************************************************************************)
\* 2 reads the identity of 1; 3 is worked on beside both.
Chain == [k \in Keys |-> IF k = 2 THEN {1} \cap Keys ELSE {}]

\* 3 reads the identity of 1; 2 is worked on beside both.
Aside == [k \in Keys |-> IF k = 3 THEN {1} ELSE {}]

\* The object of 2 is inside that of 1, whether or not it reads from it.
Nested == [k \in Keys |-> IF k = 1 THEN {2} \cap Keys ELSE {}]

Symmetry == Permutations(Idents)
============================================================================
