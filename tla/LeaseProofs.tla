----------------------------- MODULE LeaseProofs -----------------------------
(***************************************************************************)
(* The lease, for any set of runs and claims, any time to live and any     *)
(* bounds: two runs never hold unexpired handles at once, and a lease in   *)
(* force is touched by its owner only.                                     *)
(***************************************************************************)
EXTENDS Lease, TLAPS

Lock == entry[Scope]

Types ==
    /\ entry \in [{Scope} -> L!Entries]
    /\ Lock.phase \in {"Pending", "Gone"}
    /\ Lock.phase = "Pending" => Lock.proposed \in Records
    /\ epoch \in [{Scope} -> 0 .. MaxWrites]
    /\ L!Found(Lock) => epoch[Scope] > 0
    /\ held \in [Procs -> [{Scope} -> Nat]]
    /\ now \in 0 .. MaxTime
    /\ minted \subseteq Claims
    /\ pc \in [Procs -> {"idle", "claim", "renew", "release"}]
    /\ lease \in [Procs -> Records \cup {None}]
    /\ draft \in [Procs -> Records \cup {None}]

\* Where a run is decides what it has: a fresh claim and no handle while it
\* acquires, and a later expiry for its handle while it renews.
Drafts == \A p \in Procs :
    /\ pc[p] = "claim" => draft[p] \in Records /\ lease[p] = None
    /\ pc[p] \in {"renew", "release"} =>
          /\ lease[p] \in Records
          /\ draft[p] \in Records
          /\ draft[p].claim = lease[p].claim
          /\ lease[p].expiry <= draft[p].expiry

\* No expiry is further away than a whole time to live.
Ahead == \A p \in Procs :
    /\ lease[p] # None => lease[p].expiry <= now + TTL
    /\ draft[p] # None => draft[p].expiry <= now + TTL

\* A claim belongs to one run.
Minted == \A p \in Procs :
    /\ lease[p] # None => lease[p].claim \in minted
    /\ pc[p] = "claim" => draft[p].claim \in minted

Unique == \A p, q \in Procs : p # q =>
    /\ lease[p] # None /\ lease[q] # None => lease[p].claim # lease[q].claim
    /\ pc[p] = "claim" /\ lease[q] # None => draft[p].claim # lease[q].claim
    /\ pc[p] = "claim" /\ pc[q] = "claim" => draft[p].claim # draft[q].claim

\* Nobody holds a version the lease has not had.
Past == \A p \in Procs : held[p][Scope] <= epoch[Scope]

\* What a run read still stands as long as its version does: this is why the
\* compare-and-swap makes the decisions taken on stale reads safe.
Decided == \A p \in Procs : L!Admits(held[p][Scope], Lock, epoch[Scope]) =>
    /\ pc[p] = "claim" => ~InForce(Lock)
    /\ pc[p] \in {"renew", "release"} => L!Found(Lock) /\ Lock.proposed.claim = lease[p].claim

\* An operation on a handle presents a version, never LedgerVersionNone.
Versioned == \A p \in Procs : pc[p] \in {"renew", "release"} => held[p][Scope] # 0

\* An unexpired handle is in the ledger, for at least as long.
Backed == \A p \in Procs : Holds(p) =>
    /\ L!Found(Lock)
    /\ Lock.proposed.claim = lease[p].claim
    /\ lease[p].expiry <= Lock.proposed.expiry

IInv == /\ Types /\ Drafts /\ Ahead /\ Minted /\ Unique /\ Past
        /\ Decided /\ Versioned /\ Backed
----------------------------------------------------------------------------
(***************************************************************************)
(* The ledger underneath, at the lease's key.                              *)
(***************************************************************************)
\* A Get hands its caller the version of the lease, 0 when there is none.
LEMMA GetEffect ==
    ASSUME Types, NEW p \in Procs, L!Get(p, Scope)
    PROVE  /\ entry' = entry /\ epoch' = epoch
           /\ held' \in [Procs -> [{Scope} -> Nat]]
           /\ held'[p][Scope] = IF L!Found(Lock) THEN epoch[Scope] ELSE 0
           /\ \A q \in Procs : q # p => held'[q] = held[q]
  BY BoundAssumption DEF Types, L!Get, Lock

\* Begin on the lease is admitted by version and leaves record d pending.
LEMMA BeginEffect ==
    ASSUME Types, NEW p \in Procs, NEW d \in Records, epoch[Scope] < MaxWrites,
           L!Write(p, L!BeginCall(Scope, d))
    PROVE  /\ L!Admits(held[p][Scope], Lock, epoch[Scope])
           /\ entry' \in [{Scope} -> L!Entries]
           /\ Lock'.phase = "Pending" /\ Lock'.proposed = d
           /\ epoch' \in [{Scope} -> 0 .. MaxWrites]
           /\ epoch'[Scope] = epoch[Scope] + 1
           /\ held' = held
  <1> DEFINE c == L!BeginCall(Scope, d)
  <1>1. c.key = Scope /\ c.kind = "Begin" /\ c.doc = d
    BY DEF L!BeginCall
  <1>2. /\ L!Admits(held[p][Scope], Lock, epoch[Scope])
        /\ entry' = [entry EXCEPT ![Scope] = L!Outcome(c, @)]
        /\ epoch' = [epoch EXCEPT ![Scope] = @ + 1]
        /\ held' = held
    BY <1>1 DEF L!Write, Lock
  <1>3. Lock' = L!Begun(Lock, d)
    BY <1>1, <1>2 DEF L!Outcome, Lock, Types
  <1>4. L!Begun(Lock, d) \in L!Entries
    BY DEF L!Begun, Types, L!Entries, Lock, L!DocOrNone, L!IdentOrNone, L!AboutOrNone, L!Phases
  <1>5. entry' \in [{Scope} -> L!Entries]
    BY <1>2, <1>3, <1>4 DEF Types, Lock
  <1>6. epoch' \in [{Scope} -> 0 .. MaxWrites] /\ epoch'[Scope] = epoch[Scope] + 1
    BY <1>2, BoundAssumption DEF Types
  <1> QED
    BY <1>2, <1>3, <1>5, <1>6 DEF L!Begun

\* Forget on the lease is admitted by version and leaves none.
LEMMA ForgetEffect ==
    ASSUME Types, NEW p \in Procs, epoch[Scope] < MaxWrites, L!Write(p, L!ForgetCall(Scope))
    PROVE  /\ L!Admits(held[p][Scope], Lock, epoch[Scope])
           /\ L!Found(Lock)
           /\ entry' \in [{Scope} -> L!Entries]
           /\ Lock'.phase = "Gone"
           /\ epoch' \in [{Scope} -> 0 .. MaxWrites]
           /\ epoch'[Scope] = epoch[Scope] + 1
           /\ held' = held
  <1> DEFINE c == L!ForgetCall(Scope)
  <1>1. c.key = Scope /\ c.kind = "Forget"
    BY DEF L!ForgetCall
  <1>2. /\ L!Admits(held[p][Scope], Lock, epoch[Scope])
        /\ L!Found(Lock)
        /\ entry' = [entry EXCEPT ![Scope] = L!Outcome(c, @)]
        /\ epoch' = [epoch EXCEPT ![Scope] = @ + 1]
        /\ held' = held
    BY <1>1 DEF L!Write, L!Applicable, Lock
  <1>3. Lock' = L!Gone
    BY <1>1, <1>2 DEF L!Outcome, Lock, Types
  <1>4. L!Gone \in L!Entries
    BY DEF L!Gone, L!Entries, L!DocOrNone, L!IdentOrNone, L!AboutOrNone, L!Phases
  <1>5. entry' \in [{Scope} -> L!Entries]
    BY <1>2, <1>3, <1>4 DEF Types, Lock
  <1>6. epoch' \in [{Scope} -> 0 .. MaxWrites] /\ epoch'[Scope] = epoch[Scope] + 1
    BY <1>2, BoundAssumption DEF Types
  <1> QED
    BY <1>2, <1>3, <1>5, <1>6 DEF L!Gone
----------------------------------------------------------------------------
(***************************************************************************)
(* The invariant.                                                          *)
(***************************************************************************)
\* The invariant holds before anybody has asked for the lease.
LEMMA InitIInv == Init => IInv
  <1> SUFFICES ASSUME Init PROVE IInv
    OBVIOUS
  <1>1. /\ Lock = L!Gone
        /\ epoch[Scope] = 0
        /\ \A p \in Procs : held[p][Scope] = 0 /\ pc[p] = "idle" /\ lease[p] = None /\ draft[p] = None
    BY DEF Init, L!Init, Lock
  <1>2. L!Gone \in L!Entries /\ L!Gone.phase = "Gone" /\ ~L!Found(L!Gone)
    BY DEF L!Gone, L!Entries, L!DocOrNone, L!IdentOrNone, L!AboutOrNone, L!Phases, L!Found
  <1>3. entry \in [{Scope} -> L!Entries]
    BY <1>2 DEF Init, L!Init
  <1>4. Types
    BY <1>1, <1>2, <1>3, BoundAssumption DEF Init, L!Init, Types
  <1>5. Drafts /\ Ahead /\ Minted /\ Unique /\ Past /\ Decided /\ Versioned /\ Backed
    BY <1>1, <1>2, NoneAssumption
       DEF Drafts, Ahead, Minted, Unique, Past, Decided, Versioned, Backed, Holds
  <1> QED
    BY <1>4, <1>5 DEF IInv

\* Reading the lease changes nothing that a decision of another run rests on.
LEMMA ReadSteady ==
    ASSUME IInv, NEW p \in Procs, L!Get(p, Scope)
    PROVE  /\ Past'
           /\ \A q \in Procs : q # p => held'[q][Scope] = held[q][Scope]
           /\ L!Admits(held'[p][Scope], Lock, epoch[Scope])
           /\ Lock' = Lock /\ entry' = entry /\ epoch' = epoch
           /\ held' \in [Procs -> [{Scope} -> Nat]]
  <1>1. Types /\ Past
    BY DEF IInv
  <1>2. epoch[Scope] \in Nat
    BY <1>1, BoundAssumption DEF Types
  <1>3. /\ entry' = entry /\ epoch' = epoch
        /\ held' \in [Procs -> [{Scope} -> Nat]]
        /\ held'[p][Scope] = IF L!Found(Lock) THEN epoch[Scope] ELSE 0
        /\ \A q \in Procs : q # p => held'[q] = held[q]
    BY <1>1, GetEffect
  <1>4. Lock' = Lock
    BY <1>3 DEF Lock
  <1>5. Past'
    BY <1>1, <1>2, <1>3 DEF Past
  <1>6. L!Found(Lock) => epoch[Scope] > 0
    BY <1>1 DEF Types
  <1>7. L!Admits(held'[p][Scope], Lock, epoch[Scope])
    BY <1>2, <1>3, <1>6 DEF L!Admits
  <1> QED
    BY <1>3, <1>4, <1>5, <1>7

\* Acquire's read keeps the invariant: a fresh claim is nobody else's, and
\* the version read stands for a lease that is not in force.
LEMMA AcquireIInv ==
    ASSUME IInv, NEW p \in Procs, Acquire(p)
    PROVE  IInv'
  <1>1. /\ Types /\ Drafts /\ Ahead /\ Minted /\ Unique /\ Past /\ Decided
        /\ Versioned /\ Backed
    BY DEF IInv
  <1>2. /\ pc[p] = "idle" /\ lease[p] = None
        /\ L!Get(p, Scope) /\ UNCHANGED <<now, lease>>
    BY DEF Acquire
  <1>3. /\ Past'
        /\ \A q \in Procs : q # p => held'[q][Scope] = held[q][Scope]
        /\ Lock' = Lock /\ entry' = entry /\ epoch' = epoch
        /\ held' \in [Procs -> [{Scope} -> Nat]]
    BY <1>2, ReadSteady
  <1>4. InForce(Lock)' <=> InForce(Lock)
    BY <1>2, <1>3 DEF InForce
  <1>5. Backed'
    BY <1>1, <1>2, <1>3 DEF Backed, Holds
  <1>6. CASE Taken
    <2>1. UNCHANGED <<pc, draft, minted>>
      BY <1>6 DEF Acquire
    <2>2. Types'
      BY <1>1, <1>2, <1>3, <2>1 DEF Types
    <2>3. Drafts' /\ Ahead' /\ Minted' /\ Unique'
      BY <1>1, <1>2, <2>1 DEF Drafts, Ahead, Minted, Unique
    <2>4. Decided' /\ Versioned'
      BY <1>1, <1>2, <1>3, <1>4, <2>1 DEF Decided, Versioned
    <2> QED
      BY <1>3, <1>5, <2>2, <2>3, <2>4 DEF IInv
  <1>7. CASE ~Taken
    <2>1. PICK c \in Claims \ minted :
             /\ draft' = [draft EXCEPT ![p] = [claim |-> c, expiry |-> now + TTL]]
             /\ minted' = minted \cup {c}
             /\ pc' = [pc EXCEPT ![p] = "claim"]
      BY <1>7 DEF Acquire, Goto
    <2>2. [claim |-> c, expiry |-> now + TTL] \in Records
      BY <1>1, TTLAssumption, BoundAssumption DEF Types, Records
    <2>3. /\ draft'[p] = [claim |-> c, expiry |-> now + TTL] /\ pc'[p] = "claim"
          /\ \A q \in Procs : q # p => draft'[q] = draft[q] /\ pc'[q] = pc[q]
      BY <1>1, <2>1 DEF Types
    <2>4. Types'
      BY <1>1, <1>2, <1>3, <2>1, <2>2 DEF Types
    <2>5. Drafts'
      BY <1>1, <1>2, <2>2, <2>3 DEF Drafts
    <2>6. Ahead'
      BY <1>1, <1>2, <2>3, TTLAssumption, BoundAssumption DEF Ahead, Types
    <2>7. Minted' /\ Unique'
      BY <1>1, <1>2, <2>1, <2>3 DEF Minted, Unique
    <2>8. ~InForce(Lock)
      BY <1>7 DEF Taken, Lock
    <2>9. Decided' /\ Versioned'
      BY <1>1, <1>2, <1>3, <1>4, <2>3, <2>8 DEF Decided, Versioned
    <2> QED
      BY <1>3, <1>5, <2>4, <2>5, <2>6, <2>7, <2>9 DEF IInv
  <1> QED
    BY <1>6, <1>7

\* The read of Renew and Release keeps the invariant: going on means that
\* the version read carries this handle's claim.
LEMMA VersionIInv ==
    ASSUME IInv, NEW p \in Procs, NEW where \in {"renew", "release"}, Version(p, where)
    PROVE  IInv'
  <1>1. /\ Types /\ Drafts /\ Ahead /\ Minted /\ Unique /\ Past /\ Decided
        /\ Versioned /\ Backed
    BY DEF IInv
  <1>2. /\ pc[p] = "idle" /\ lease[p] # None
        /\ L!Get(p, Scope) /\ UNCHANGED <<now, minted>>
    BY DEF Version
  <1>3. /\ Past'
        /\ \A q \in Procs : q # p => held'[q][Scope] = held[q][Scope]
        /\ Lock' = Lock /\ entry' = entry /\ epoch' = epoch
        /\ held' \in [Procs -> [{Scope} -> Nat]]
    BY <1>2, ReadSteady
  <1>4. InForce(Lock)' <=> InForce(Lock)
    BY <1>2, <1>3 DEF InForce
  <1>5. CASE Mine(p)
    <2> DEFINE d == [lease[p] EXCEPT !.expiry = now + TTL]
    <2>1. /\ pc' = [pc EXCEPT ![p] = where]
          /\ draft' = [draft EXCEPT ![p] = d]
          /\ lease' = lease
      BY <1>5 DEF Version, Goto
    <2>2. lease[p] \in Records
      BY <1>1, <1>2 DEF Types
    <2>3. d \in Records /\ d.claim = lease[p].claim /\ d.expiry = now + TTL
      BY <1>1, <2>2, TTLAssumption, BoundAssumption DEF Types, Records
    <2>4. /\ draft'[p] = d /\ pc'[p] = where
          /\ \A q \in Procs : q # p => draft'[q] = draft[q] /\ pc'[q] = pc[q]
      BY <1>1, <2>1 DEF Types
    <2>5. L!Found(Lock) /\ Lock.proposed.claim = lease[p].claim
      BY <1>5 DEF Mine, Lock
    <2>6. held'[p][Scope] = epoch[Scope] /\ epoch[Scope] > 0
      BY <1>1, <1>2, <2>5, GetEffect DEF Types
    <2> HIDE DEF d
    <2>7. Types'
      BY <1>1, <1>2, <1>3, <2>1, <2>3 DEF Types
    <2>8. Drafts' /\ Ahead'
      <3>1. lease[p].expiry <= d.expiry
        BY <1>1, <1>2, <2>3 DEF Ahead
      <3>2. Drafts'
        BY <1>1, <2>1, <2>2, <2>3, <2>4, <3>1 DEF Drafts
      <3>3. now + TTL <= now + TTL
        BY <1>1, TTLAssumption, BoundAssumption DEF Types
      <3>4. Ahead'
        BY <1>1, <1>2, <2>1, <2>3, <2>4, <3>3 DEF Ahead
      <3> QED
        BY <3>2, <3>4
    <2>9. Minted' /\ Unique'
      BY <1>1, <1>2, <2>1, <2>4 DEF Minted, Unique
    <2>10. Decided' /\ Versioned'
      BY <1>1, <1>3, <1>4, <2>1, <2>4, <2>5, <2>6 DEF Decided, Versioned
    <2>11. Backed'
      BY <1>1, <1>2, <1>3, <2>1 DEF Backed, Holds
    <2> QED
      BY <1>3, <2>7, <2>8, <2>9, <2>10, <2>11 DEF IInv
  <1>6. CASE ~Mine(p)
    <2>1. /\ lease' = [lease EXCEPT ![p] = IF where = "release" THEN None ELSE @]
          /\ UNCHANGED <<pc, draft>>
      BY <1>6 DEF Version
    <2>2. /\ lease'[p] = lease[p] \/ lease'[p] = None
          /\ \A q \in Procs : q # p => lease'[q] = lease[q]
      BY <1>1, <2>1 DEF Types
    <2>3. Types'
      BY <1>1, <1>2, <1>3, <2>1 DEF Types
    <2>4. Drafts' /\ Ahead' /\ Minted' /\ Unique'
      BY <1>1, <1>2, <2>1, <2>2 DEF Drafts, Ahead, Minted, Unique
    <2>5. Decided' /\ Versioned'
      BY <1>1, <1>2, <1>3, <1>4, <2>1, <2>2 DEF Decided, Versioned
    <2>6. Backed'
      BY <1>1, <1>2, <1>3, <2>2 DEF Backed, Holds
    <2> QED
      BY <1>3, <2>3, <2>4, <2>5, <2>6 DEF IInv
  <1> QED
    BY <1>5, <1>6

\* A run that gives up, or dies, leaves the lease as it is.
LEMMA GiveUpIInv ==
    ASSUME IInv, NEW p \in Procs, Refused(p) \/ Crash(p)
    PROVE  IInv'
  <1>1. /\ Types /\ Drafts /\ Ahead /\ Minted /\ Unique /\ Past /\ Decided
        /\ Versioned /\ Backed
    BY DEF IInv
  <1>2. /\ entry' = entry /\ epoch' = epoch /\ now' = now /\ minted' = minted
        /\ pc' = [pc EXCEPT ![p] = "idle"]
        /\ draft' = [draft EXCEPT ![p] = None]
    BY DEF Refused, Crash, L!Crash, Goto
  <1>3. /\ lease' \in [Procs -> Records \cup {None}]
        /\ lease'[p] = lease[p] \/ lease'[p] = None
        /\ \A q \in Procs : q # p => lease'[q] = lease[q]
    BY <1>1 DEF Refused, Crash, Types
  <1>4. /\ held' \in [Procs -> [{Scope} -> Nat]]
        /\ held'[p][Scope] = held[p][Scope] \/ held'[p][Scope] = 0
        /\ \A q \in Procs : q # p => held'[q] = held[q]
    BY <1>1 DEF Refused, Crash, L!Crash, Types
  <1>5. /\ pc'[p] = "idle" /\ draft'[p] = None
        /\ \A q \in Procs : q # p => draft'[q] = draft[q] /\ pc'[q] = pc[q]
    BY <1>1, <1>2 DEF Types
  <1>6. Lock' = Lock /\ (InForce(Lock)' <=> InForce(Lock))
    BY <1>2 DEF Lock, InForce
  <1>7. Types'
    BY <1>1, <1>2, <1>3, <1>4, <1>6 DEF Types
  <1>8. Drafts' /\ Ahead' /\ Minted' /\ Unique'
    BY <1>1, <1>2, <1>3, <1>5 DEF Drafts, Ahead, Minted, Unique
  <1>9. Past'
    BY <1>1, <1>2, <1>4, BoundAssumption DEF Past, Types
  <1>10. Decided' /\ Versioned'
    BY <1>1, <1>2, <1>3, <1>4, <1>5, <1>6 DEF Decided, Versioned
  <1>11. Backed'
    BY <1>1, <1>2, <1>3, <1>6 DEF Backed, Holds
  <1> QED
    BY <1>7, <1>8, <1>9, <1>10, <1>11 DEF IInv

\* A write by p at the version it holds voids the version of everyone else.
LEMMA WriteVoids ==
    ASSUME IInv, NEW q \in Procs, held' = held, epoch'[Scope] = epoch[Scope] + 1
    PROVE  /\ held'[q][Scope] <= epoch'[Scope]
           /\ L!Admits(held'[q][Scope], Lock', epoch'[Scope]) => held'[q][Scope] = 0 /\ ~L!Found(Lock')
  <1>1. Types /\ Past
    BY DEF IInv
  <1>2. held[q][Scope] \in Nat /\ epoch[Scope] \in Nat /\ held[q][Scope] <= epoch[Scope]
    BY <1>1, BoundAssumption DEF Types, Past
  <1> QED
    BY <1>2 DEF L!Admits

\* Begin keeps the invariant.  A claim is written over a lease that is not in
\* force, so it takes nothing from anyone; a renewal replaces its own.
LEMMA BeginIInv ==
    ASSUME IInv, NEW p \in Procs, NEW told \in BOOLEAN, Begin(p, told)
    PROVE  IInv'
  <1>1. /\ Types /\ Drafts /\ Ahead /\ Minted /\ Unique /\ Past /\ Decided
        /\ Versioned /\ Backed
    BY DEF IInv
  <1>2. /\ pc[p] \in {"claim", "renew"}
        /\ epoch[Scope] < MaxWrites
        /\ L!Write(p, L!BeginCall(Scope, draft[p]))
        /\ lease' = [lease EXCEPT ![p] = IF told THEN draft[p] ELSE @]
        /\ draft' = [draft EXCEPT ![p] = None]
        /\ pc' = [pc EXCEPT ![p] = "idle"]
        /\ UNCHANGED <<now, minted>>
    BY DEF Begin, Goto
  <1>3. draft[p] \in Records /\ draft[p] # None
    BY <1>1, <1>2, NoneAssumption DEF Drafts
  <1>4. /\ L!Admits(held[p][Scope], Lock, epoch[Scope])
        /\ entry' \in [{Scope} -> L!Entries]
        /\ Lock'.phase = "Pending" /\ Lock'.proposed = draft[p]
        /\ epoch' \in [{Scope} -> 0 .. MaxWrites]
        /\ epoch'[Scope] = epoch[Scope] + 1
        /\ held' = held
    BY <1>1, <1>2, <1>3, BeginEffect
  <1>5. /\ pc'[p] = "idle" /\ draft'[p] = None
        /\ lease'[p] = draft[p] \/ lease'[p] = lease[p]
        /\ \A q \in Procs : q # p => /\ draft'[q] = draft[q]
                                     /\ pc'[q] = pc[q]
                                     /\ lease'[q] = lease[q]
    BY <1>1, <1>2 DEF Types
  <1>6. L!Found(Lock')
    BY <1>4 DEF L!Found
  <1>7. epoch'[Scope] > 0
    BY <1>1, <1>4, BoundAssumption DEF Types
  <1>8. Types'
    BY <1>1, <1>2, <1>3, <1>4, <1>7 DEF Types
  <1>9. Drafts' /\ Ahead'
    BY <1>1, <1>2, <1>3, <1>5 DEF Drafts, Ahead
  <1>10. Minted' /\ Unique'
    BY <1>1, <1>2, <1>3, <1>5, NoneAssumption DEF Minted, Unique, Drafts
  <1>11. \A q \in Procs : /\ held'[q][Scope] <= epoch'[Scope]
                          /\ ~L!Admits(held'[q][Scope], Lock', epoch'[Scope])
    BY <1>4, <1>6, WriteVoids
  <1>12. Past' /\ Decided'
    BY <1>11 DEF Past, Decided
  <1>13. Versioned'
    BY <1>1, <1>4, <1>5 DEF Versioned
  <1>14. ASSUME NEW q \in Procs, q # p
         PROVE  ~Holds(q)
    <2>1. CASE pc[p] = "claim"
      <3>1. ~InForce(Lock)
        BY <1>1, <1>4, <2>1 DEF Decided
      <3>2. SUFFICES ASSUME Holds(q) PROVE FALSE
        OBVIOUS
      <3>3. L!Found(Lock) /\ now < lease[q].expiry /\ lease[q].expiry <= Lock.proposed.expiry
        BY <1>1, <3>2 DEF Backed, Holds
      <3>4. Lock.proposed \in Records /\ lease[q] \in Records
        BY <1>1, <3>2, <3>3 DEF Types, L!Found, Holds
      <3>5. now < Lock.proposed.expiry
        BY <1>1, <3>3, <3>4, BoundAssumption DEF Types, Records
      <3> QED
        BY <3>1, <3>3, <3>5 DEF InForce
    <2>2. CASE pc[p] = "renew"
      BY <1>1, <1>4, <2>2, NoneAssumption, <1>14 DEF Decided, Backed, Holds, Unique, Drafts
    <2> QED
      BY <1>2, <2>1, <2>2
  <1>15. \A q \in Procs : q # p => ~Holds(q)'
    BY <1>2, <1>5, <1>14 DEF Holds
  <1>16. lease'[p] # None => /\ Lock'.proposed.claim = lease'[p].claim
                             /\ lease'[p].expiry <= Lock'.proposed.expiry
    <2>1. draft[p].expiry <= draft[p].expiry
      BY <1>3 DEF Records
    <2> QED
      BY <1>1, <1>2, <1>4, <1>5, <2>1 DEF Drafts
  <1>17. Backed'
    BY <1>6, <1>15, <1>16 DEF Backed, Holds
  <1> QED
    BY <1>8, <1>9, <1>10, <1>12, <1>13, <1>17 DEF IInv

\* Forget keeps the invariant: only the owner's own lease is withdrawn.
LEMMA ForgetIInv ==
    ASSUME IInv, NEW p \in Procs, Forget(p)
    PROVE  IInv'
  <1>1. /\ Types /\ Drafts /\ Ahead /\ Minted /\ Unique /\ Past /\ Decided
        /\ Versioned /\ Backed
    BY DEF IInv
  <1>2. /\ pc[p] = "release"
        /\ epoch[Scope] < MaxWrites
        /\ L!Write(p, L!ForgetCall(Scope))
        /\ lease' = [lease EXCEPT ![p] = None]
        /\ draft' = [draft EXCEPT ![p] = None]
        /\ pc' = [pc EXCEPT ![p] = "idle"]
        /\ UNCHANGED <<now, minted>>
    BY DEF Forget, Goto
  <1>3. /\ L!Admits(held[p][Scope], Lock, epoch[Scope])
        /\ entry' \in [{Scope} -> L!Entries]
        /\ Lock'.phase = "Gone"
        /\ epoch' \in [{Scope} -> 0 .. MaxWrites]
        /\ epoch'[Scope] = epoch[Scope] + 1
        /\ held' = held
    BY <1>1, <1>2, ForgetEffect
  <1>4. /\ pc'[p] = "idle" /\ draft'[p] = None /\ lease'[p] = None
        /\ \A q \in Procs : q # p => /\ draft'[q] = draft[q]
                                     /\ pc'[q] = pc[q]
                                     /\ lease'[q] = lease[q]
    BY <1>1, <1>2 DEF Types
  <1>5. ~L!Found(Lock') /\ ~InForce(Lock)'
    BY <1>3 DEF L!Found, InForce
  <1>6. Types'
    BY <1>1, <1>2, <1>3, <1>5 DEF Types
  <1>7. Drafts' /\ Ahead' /\ Minted' /\ Unique'
    BY <1>1, <1>2, <1>4 DEF Drafts, Ahead, Minted, Unique
  <1>8. \A q \in Procs :
           /\ held'[q][Scope] <= epoch'[Scope]
           /\ L!Admits(held'[q][Scope], Lock', epoch'[Scope]) => held'[q][Scope] = 0
    BY <1>3, WriteVoids
  <1>9. Versioned'
    BY <1>1, <1>3, <1>4 DEF Versioned
  <1>10. Past' /\ Decided'
    BY <1>5, <1>8, <1>9 DEF Past, Decided, Versioned
  <1>11. Backed'
    <2>1. Lock.proposed.claim = lease[p].claim /\ lease[p] # None
      BY <1>1, <1>2, <1>3, NoneAssumption DEF Decided, Drafts
    <2>2. ASSUME NEW q \in Procs, q # p
          PROVE  ~Holds(q)
      BY <1>1, <2>1, <2>2 DEF Backed, Holds, Unique
    <2>3. \A q \in Procs : ~Holds(q)'
      BY <1>2, <1>4, <2>2 DEF Holds
    <2> QED
      BY <2>3 DEF Backed
  <1> QED
    BY <1>6, <1>7, <1>9, <1>10, <1>11 DEF IInv

\* Time only takes leases out of force.
LEMMA TickIInv ==
    ASSUME IInv, Tick
    PROVE  IInv'
  <1>1. /\ Types /\ Drafts /\ Ahead /\ Minted /\ Unique /\ Past /\ Decided
        /\ Versioned /\ Backed
    BY DEF IInv
  <1>2. /\ now < MaxTime /\ now' = now + 1
        /\ UNCHANGED <<entry, epoch, held, minted, pc, lease, draft>>
    BY DEF Tick
  <1>3. Lock' = Lock /\ now \in Nat /\ now' \in 0 .. MaxTime
    BY <1>1, <1>2, BoundAssumption DEF Lock, Types
  <1>4. Types'
    BY <1>1, <1>2, <1>3 DEF Types
  <1>5. Drafts' /\ Minted' /\ Unique' /\ Past' /\ Versioned'
    BY <1>1, <1>2 DEF Drafts, Minted, Unique, Past, Versioned
  <1>6. \A r \in Records : r.expiry \in Nat
    BY DEF Records
  <1>7. Ahead'
    BY <1>1, <1>2, <1>3, <1>6, TTLAssumption DEF Ahead, Types
  <1>8. \A p \in Procs : Holds(p)' => Holds(p)
    BY <1>1, <1>2, <1>3, <1>6 DEF Holds, Types
  <1>9. Backed'
    BY <1>1, <1>2, <1>3, <1>8 DEF Backed
  <1>10. L!Found(Lock) => Lock.proposed \in Records
    BY <1>1 DEF Types, L!Found
  <1>11. InForce(Lock)' => InForce(Lock)
    BY <1>2, <1>3, <1>6, <1>10 DEF InForce
  <1>12. Decided'
    BY <1>1, <1>2, <1>3, <1>11 DEF Decided
  <1> QED
    BY <1>4, <1>5, <1>7, <1>9, <1>12 DEF IInv
----------------------------------------------------------------------------
(***************************************************************************)
(* The theorems.                                                           *)
(***************************************************************************)
\* IInv is an invariant of the lease.
THEOREM Invariance == Spec => []IInv
  <1>1. IInv /\ [Next]_vars => IInv'
    <2> SUFFICES ASSUME IInv, [Next]_vars
                 PROVE  IInv'
      OBVIOUS
    <2>1. ASSUME NEW p \in Procs, Step(p)
          PROVE  IInv'
      BY <2>1, AcquireIInv, VersionIInv, GiveUpIInv, BeginIInv, ForgetIInv DEF Step
    <2>2. CASE UNCHANGED vars
      BY <2>2 DEF vars, IInv, Types, Drafts, Ahead, Minted, Unique, Past, Decided,
                  Versioned, Backed, Holds, InForce, Lock
    <2> QED
      BY <2>1, <2>2, TickIInv DEF Next
  <1> QED
    BY InitIInv, <1>1, PTL DEF Spec

\* The lease's state is well typed.
THEOREM TypeCorrect == Spec => []TypeOK
  <1>1. IInv => TypeOK
    <2> SUFFICES ASSUME IInv PROVE TypeOK
      OBVIOUS
    <2>1. Lock \in L!Entries
      BY DEF IInv, Types, Lock
    <2>2. Lock.proposed \in Records \cup {None}
      BY <2>1 DEF L!Entries, L!DocOrNone
    <2> QED
      BY <2>2 DEF IInv, Types, TypeOK, Lock
  <1> QED
    BY Invariance, <1>1, PTL

\* Mutual exclusion: two runs never hold unexpired handles of one lease,
\* however stale the reads on which they acquire, renew and release.
THEOREM MutualExclusion == Spec => []OneHolder
  <1>1. IInv => OneHolder
    BY DEF IInv, Backed, Unique, OneHolder, Holds
  <1> QED
    BY Invariance, <1>1, PTL

\* Only its owner touches a lease in force: whoever writes the entry either
\* has its claim, or breaks a lease that has lapsed.
THEOREM Ownership == Spec => OwnerOrLapsed
  <1>1. IInv /\ [Next]_vars => [OwnTouch]_vars
    <2> SUFFICES ASSUME IInv, Next
                 PROVE  OwnTouch
      BY DEF vars, OwnTouch
    <2>1. Types /\ Drafts /\ Decided
      BY DEF IInv
    <2>2. CASE Tick
      BY <2>2 DEF Tick, OwnTouch
    <2>3. ASSUME NEW p \in Procs, Step(p)
          PROVE  OwnTouch
      <3>1. CASE Acquire(p) \/ (\E where \in {"renew", "release"} : Version(p, where))
        BY <3>1 DEF Acquire, Version, L!Get, OwnTouch
      <3>2. CASE Refused(p) \/ Crash(p)
        BY <3>2 DEF Refused, Crash, L!Crash, OwnTouch
      <3>3. ASSUME NEW told \in BOOLEAN, Begin(p, told)
            PROVE  OwnTouch
        <4>1. /\ pc[p] \in {"claim", "renew"}
              /\ pc'[p] = "idle"
              /\ draft[p] \in Records
          BY <2>1, <3>3 DEF Begin, Goto, Types, Drafts
        <4>2. L!Admits(held[p][Scope], Lock, epoch[Scope])
          BY <2>1, <3>3, <4>1, BeginEffect DEF Begin
        <4>3. \/ pc[p] = "claim" /\ ~InForce(Lock)
              \/ pc[p] = "renew" /\ L!Found(Lock) /\ Lock.proposed.claim = lease[p].claim
          BY <2>1, <4>1, <4>2 DEF Decided
        <4> QED
          BY <4>1, <4>3 DEF OwnTouch, Lock
      <3>4. CASE Forget(p)
        <4>1. pc[p] = "release" /\ pc'[p] = "idle"
          BY <2>1, <3>4 DEF Forget, Goto, Types
        <4>2. L!Admits(held[p][Scope], Lock, epoch[Scope])
          BY <2>1, <3>4, ForgetEffect DEF Forget
        <4>3. L!Found(Lock) /\ Lock.proposed.claim = lease[p].claim
          BY <2>1, <4>1, <4>2 DEF Decided
        <4> QED
          BY <4>1, <4>3 DEF OwnTouch, Lock
      <3> QED
        BY <2>3, <3>1, <3>2, <3>3, <3>4 DEF Step
    <2> QED
      BY <2>2, <2>3 DEF Next
  <1> QED
    BY Invariance, <1>1, PTL DEF Spec, OwnerOrLapsed
============================================================================
