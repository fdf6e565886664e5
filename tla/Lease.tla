------------------------------- MODULE Lease -------------------------------
(***************************************************************************)
(* internal/lease: the lock that keeps runs over one collection apart.  A  *)
(* lease is a ledger entry that is begun and never resolved; whoever finds *)
(* it expired breaks it.  The ledger underneath is the contract of module  *)
(* Ledger, over the single key of the scope: every Get and every write is  *)
(* one atomic step, and everything may happen between a Get and the write  *)
(* decided on it.                                                          *)
(*                                                                         *)
(* Time is one clock all processes read (they share a machine or a         *)
(* synchronised one).  Acquire's two calls of now() are one: a later clock *)
(* finds expired whatever an earlier one did.                              *)
(***************************************************************************)
EXTENDS Naturals, TLC

CONSTANTS
    Procs,          \* runs that want the collection
    Claims,         \* what newClaim can mint
    TTL,            \* how long an acquisition or a renewal lasts
    MaxTime,        \* bound: the clock stops here
    MaxWrites,      \* bound: writes the lease key may have
    Scope,          \* the lease key
    None            \* no record, no document

ASSUME TTLAssumption == TTL \in Nat
ASSUME BoundAssumption == MaxTime \in Nat /\ MaxWrites \in Nat

\* record: a claim and when it lapses.  Two runs may share a holder name and
\* every key set is "all", so neither tells two leases apart.
Records == [claim : Claims, expiry : Nat]

ASSUME NoneAssumption == None \notin Records

VARIABLES
    entry, epoch, held,     \* the ledger's entry, its version, versions got
    now,                    \* the clock
    minted,                 \* claims that newClaim has returned
    pc,                     \* pc[p]: where p is in Acquire, Renew or Release
    lease,                  \* lease[p]: the record of the handle p holds, or None
    draft                   \* draft[p]: the record p is about to write, or None

vars == <<entry, epoch, held, now, minted, pc, lease, draft>>

L == INSTANCE Ledger WITH Keys <- {Scope}, Docs <- Records, Idents <- {}, Abouts <- {}

Init == /\ L!Init
        /\ now = 0
        /\ minted = {}
        /\ pc = [p \in Procs |-> "idle"]
        /\ lease = [p \in Procs |-> None]
        /\ draft = [p \in Procs |-> None]

Goto(p, where) == pc' = [pc EXCEPT ![p] = where]

\* The record a ledger entry holds is in force.
InForce(e) == L!Found(e) /\ now < e.proposed.expiry

\* Mutant of Taken: a lease may be broken in its last tick.
Taken_Early == L!Found(entry[Scope]) /\ now + 1 < entry[Scope].proposed.expiry

\* Acquire's condition for ErrLeaseHeld.
Taken == InForce(entry[Scope])

\* Mutant of Mine: any entry will do, whoever's claim it carries.
Mine_Any(p) == L!Found(entry[Scope])

\* version's condition: the entry carries this handle's claim.
Mine(p) == L!Found(entry[Scope]) /\ entry[Scope].proposed.claim = lease[p].claim

----------------------------------------------------------------------------
\* Acquire's read: a lease in force is ErrLeaseHeld, otherwise a fresh claim
\* is drafted against the version read.
Acquire(p) ==
    /\ pc[p] = "idle"
    /\ lease[p] = None
    /\ L!Get(p, Scope)
    /\ IF Taken
         THEN UNCHANGED <<pc, draft, minted>>
         ELSE \E c \in Claims \ minted :
                 /\ draft' = [draft EXCEPT ![p] = [claim |-> c, expiry |-> now + TTL]]
                 /\ minted' = minted \cup {c}
                 /\ Goto(p, "claim")
    /\ UNCHANGED <<now, lease>>

\* version, called by Renew and Release: read again, and go on only while
\* the entry carries this handle's claim.  A renewal drafts its record here.
Version(p, where) ==
    /\ pc[p] = "idle"
    /\ lease[p] # None
    /\ L!Get(p, Scope)
    /\ IF Mine(p)
         THEN /\ Goto(p, where)
              /\ draft' = [draft EXCEPT ![p] = [lease[p] EXCEPT !.expiry = now + TTL]]
              /\ UNCHANGED lease
         ELSE \* Renew's caller keeps the handle; Release's is done with it.
              /\ lease' = [lease EXCEPT ![p] = IF where = "release" THEN None ELSE @]
              /\ UNCHANGED <<pc, draft>>
    /\ UNCHANGED <<now, minted>>

\* The write is refused, or fails before it takes effect.
Refused(p) ==
    /\ pc[p] \in {"claim", "renew", "release"}
    /\ Goto(p, "idle")
    /\ lease' = [lease EXCEPT ![p] = IF pc[p] = "release" THEN None ELSE @]
    /\ draft' = [draft EXCEPT ![p] = None]
    /\ UNCHANGED <<entry, epoch, held, now, minted>>

\* Begin, by Acquire or Renew.  "told" is FALSE when the entry was written
\* and Begin still returned an error: the caller has no (new) handle.
Begin(p, told) ==
    /\ pc[p] \in {"claim", "renew"}
    /\ epoch[Scope] < MaxWrites
    /\ L!Write(p, L!BeginCall(Scope, draft[p]))
    /\ lease' = [lease EXCEPT ![p] = IF told THEN draft[p] ELSE @]
    /\ draft' = [draft EXCEPT ![p] = None]
    /\ Goto(p, "idle")
    /\ UNCHANGED <<now, minted>>

\* Mutant of Forget: a release resolves the entry instead.
Forget_Resolves(p) ==
    /\ pc[p] = "release"
    /\ epoch[Scope] < MaxWrites
    /\ L!Write(p, L!ResolveCall(Scope, None, None))
    /\ lease' = [lease EXCEPT ![p] = None]
    /\ draft' = [draft EXCEPT ![p] = None]
    /\ Goto(p, "idle")
    /\ UNCHANGED <<now, minted>>

\* Forget, by Release.
Forget(p) ==
    /\ pc[p] = "release"
    /\ epoch[Scope] < MaxWrites
    /\ L!Write(p, L!ForgetCall(Scope))
    /\ lease' = [lease EXCEPT ![p] = None]
    /\ draft' = [draft EXCEPT ![p] = None]
    /\ Goto(p, "idle")
    /\ UNCHANGED <<now, minted>>

\* The process dies, its lease stays in the ledger.
Crash(p) ==
    /\ L!Crash(p)
    /\ Goto(p, "idle")
    /\ lease' = [lease EXCEPT ![p] = None]
    /\ draft' = [draft EXCEPT ![p] = None]
    /\ UNCHANGED <<now, minted>>

Tick == /\ now < MaxTime
        /\ now' = now + 1
        /\ UNCHANGED <<entry, epoch, held, minted, pc, lease, draft>>

Step(p) == \/ Acquire(p)
           \/ Version(p, "renew")
           \/ Version(p, "release")
           \/ Refused(p)
           \/ \E told \in BOOLEAN : Begin(p, told)
           \/ Forget(p)
           \/ Crash(p)

Next == Tick \/ \E p \in Procs : Step(p)

Spec == Init /\ [][Next]_vars
----------------------------------------------------------------------------
(***************************************************************************)
(* Properties.                                                             *)
(***************************************************************************)
\* Type correctness of the lease entry, the handles and the drafts.
TypeOK ==
    /\ entry[Scope].proposed \in Records \cup {None}
    /\ entry[Scope].phase \in {"Pending", "Gone"}
    /\ epoch[Scope] \in 0 .. MaxWrites
    /\ now \in 0 .. MaxTime
    /\ minted \subseteq Claims
    /\ pc \in [Procs -> {"idle", "claim", "renew", "release"}]
    /\ lease \in [Procs -> Records \cup {None}]
    /\ draft \in [Procs -> Records \cup {None}]

\* p has a handle, and by the clock it has not lapsed.
Holds(p) == lease[p] # None /\ now < lease[p].expiry

\* Mutual exclusion, as far as the code claims it: two runs never hold
\* handles that are both unexpired, although each decides to break, renew or
\* release on a read that may be stale by the time it writes.
OneHolder == \A p, q \in Procs : Holds(p) /\ Holds(q) => p = q

\* The run that changes the lease entry owns it, or breaks one that lapsed.
OwnTouch ==
    entry' # entry =>
       \E p \in Procs :
          /\ pc'[p] # pc[p]
          /\ \/ /\ pc[p] \in {"renew", "release"}
                /\ L!Found(entry[Scope])
                /\ entry[Scope].proposed.claim = lease[p].claim
             \/ pc[p] = "claim" /\ ~InForce(entry[Scope])

\* The lease entry changes only at the hands of the run whose claim it
\* carries, unless it had lapsed and is being broken: a live lease is never
\* overwritten, and a broken one is not renewed or released by its previous
\* holder (the comment on held.version).
OwnerOrLapsed == [][OwnTouch]_vars

\* Runs that differ only in these names are checked once.
Symmetry == Permutations(Procs) \cup Permutations(Claims)
=============================================================================
