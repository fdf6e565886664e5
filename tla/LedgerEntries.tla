--------------------------- MODULE LedgerEntries ---------------------------
(***************************************************************************)
(* The vocabulary of facade.Ledger: what one key's record holds and what   *)
(* each of the three writes makes of it.  Documents, identities and the    *)
(* About blob are opaque bytes to every ledger, so they are elements of    *)
(* constant sets; None stands for a nil or empty slice.                    *)
(***************************************************************************)
CONSTANTS
    Keys,       \* the ledger keys
    Docs,       \* intent documents: what Begin is given as "proposed"
    Idents,     \* identities a provider minted: what Resolve is given
    Abouts,     \* About records
    None        \* nil

ASSUME NoneAssumption == None \notin Docs \cup Idents \cup Abouts

DocOrNone   == Docs \cup {None}
IdentOrNone == Idents \cup {None}
AboutOrNone == Abouts \cup {None}

\* facade.LedgerPhase, with "Gone" for a key that has no entry: never
\* written, or whose last version is a tombstone.
Phases == {"Pending", "Live", "Gone"}

Entries == [phase    : Phases,
            plan     : DocOrNone,
            proposed : DocOrNone,
            identity : IdentOrNone,
            about    : AboutOrNone]

\* The zero state; a tombstone decodes to the same fields.
Gone == [phase |-> "Gone", plan |-> None, proposed |-> None,
         identity |-> None, about |-> None]

Found(e) == e.phase # "Gone"

(***************************************************************************)
(* The three writes a caller can ask for.                                  *)
(***************************************************************************)
BeginCall(k, d) ==
    [kind |-> "Begin", key |-> k, doc |-> d, ident |-> None, about |-> None]
ResolveCall(k, i, a) ==
    [kind |-> "Resolve", key |-> k, doc |-> None, ident |-> i, about |-> a]
ForgetCall(k) ==
    [kind |-> "Forget", key |-> k, doc |-> None, ident |-> None, about |-> None]

Calls == {BeginCall(k, d) : k \in Keys, d \in Docs}
    \cup {ResolveCall(k, i, a) : k \in Keys, i \in IdentOrNone, a \in AboutOrNone}
    \cup {ForgetCall(k) : k \in Keys}

\* Begin keeps Plan and About, and stores no identity.
Begun(e, d) == [phase |-> "Pending", plan |-> e.plan, proposed |-> d,
                identity |-> None, about |-> e.about]

\* Resolve promotes Proposed to Plan; a nil about keeps what the entry had.
Resolved(e, i, a) == [phase |-> "Live", plan |-> e.proposed, proposed |-> None,
                      identity |-> i, about |-> IF a = None THEN e.about ELSE a]

\* What call c makes of entry e.
Outcome(c, e) == CASE c.kind = "Begin"   -> Begun(e, c.doc)
                   [] c.kind = "Resolve" -> Resolved(e, c.ident, c.about)
                   [] c.kind = "Forget"  -> Gone

\* The phase rule of call c, once the version has been accepted: Resolve and
\* Forget need an entry, and Resolve needs a pending one.
Applicable(c, e) == CASE c.kind = "Begin"   -> TRUE
                      [] c.kind = "Resolve" -> e.phase = "Pending"
                      [] c.kind = "Forget"  -> Found(e)

\* Begin repeated with the proposal that is already pending is a no-op.
Repeats(c, e) == /\ c.kind = "Begin"
                 /\ e.phase = "Pending"
                 /\ e.proposed = c.doc

\* The compare-and-swap rule: version 0 (LedgerVersionNone) asserts absence,
\* any other version must be the current one of an entry that exists.
Admits(v, e, ver) == IF v = 0 THEN ~Found(e) ELSE Found(e) /\ v = ver
============================================================================
