----------------------------- MODULE DocCatalog -----------------------------
(***************************************************************************)
(* Reading service documents: a registry resolves a provider to its newest *)
(* version (OpenRegistry, latestVersion), a catalog settles which document *)
(* each service has (Open), and documents are parsed once and kept in the  *)
(* process's bounded LRU cache (pkg/cache), shared by every catalog opened *)
(* with it, while files are rewritten and versions installed under it.     *)
(*                                                                         *)
(* A document is where and when it was read; its text is left out.  "At"   *)
(* is a place: a registry root and a provider version under it.            *)
(***************************************************************************)
EXTENDS Naturals, Sequences, FiniteSets, FiniteSetsExt, SequencesExt

CONSTANTS Readers,      \* goroutines resolving an address
          Roots,        \* registry directories: the base, and patched views of it
          Versions,     \* provider versions, as their names sort
          Entries,      \* the provider's list: sets of [key, name, file, preferred]
          Files,        \* document files a bundle may hold
          Present,      \* the ones it does hold
          Cost,         \* what a parsed file costs
          Kinds,        \* what documents are read for: a "service", or an "operation" of another
          Budget,       \* the cache's total cost
          MaxEntries,   \* and its number of entries, 0 for no limit
          TTL,          \* how long an entry stays, 0 for ever
          MaxWrites,    \* bound on rewrites and installs
          MaxAsks,      \* bound on the addresses resolved
          MaxTime,      \* bound on the clock
          Ticks         \* whether every rewrite changes the file's size or time

VARIABLES disk,         \* [root, version, file] -> what the file holds and its stamp
          installed,    \* root -> the versions under it
          caches,       \* every cache configured so far, the current one last
          now,          \* the clock entries expire by
          asks,         \* addresses resolved so far
          writes,       \* rewrites and installs so far
          rd            \* what each reader is doing

vars == <<disk, installed, caches, now, asks, writes, rd>>

Idle == [pc |-> "idle"]
NoDoc == [at |-> <<>>, file |-> "", text |-> 0, attached |-> FALSE, by |-> "nobody"]

-----------------------------------------------------------------------------
(* The LRU cache, most recently used first.                                *)

Held(c) == FoldSeq(LAMBDA e, n : e.cost + n, 0, c)
Without(c, k) == SelectSeq(c, LAMBDA e : e.key # k)
Expired(e) == TTL > 0 /\ now - e.stored > TTL

\* What Get finds under k, and the cache it leaves.
Get(c, k) ==
    LET found == SelectSeq(c, LAMBDA e : e.key = k)
    IN IF found = <<>> THEN [hit |-> FALSE, cache |-> c]
       ELSE IF Expired(found[1]) THEN [hit |-> FALSE, cache |-> Without(c, k)]
       ELSE [hit |-> TRUE, doc |-> found[1].doc, cache |-> found \o Without(c, k)]

\* Entries go from the back until what is left fits.
Evicted(c) ==
    LET fits(n) == Held(SubSeq(c, 1, n)) <= Budget /\ (MaxEntries > 0 => n <= MaxEntries)
    IN SubSeq(c, 1, CHOOSE n \in 0..Len(c) : fits(n) /\ \A k \in (n + 1)..Len(c) : ~fits(k))

Put(c, k, d) ==
    IF Cost[d.file] > Budget THEN Without(c, k)
    ELSE Evicted(<<[key |-> k, doc |-> d, cost |-> Cost[d.file], stored |-> now]>> \o Without(c, k))

-----------------------------------------------------------------------------
(* Registries and catalogs.                                                *)

latestVersion(root) == Max(installed[root])

\* An entry's name: its own, unless it is missing or is another entry's key.
nameOf(e, es) == IF e.name = "" \/ (e.name # e.key /\ \E o \in es : o.key = e.name) THEN e.key ELSE e.name

\* The document a service settles on, over the entries naming it in one order: the preferred one
\* with a document, else the first with one; none when no entry has one.
settled(o) ==
    LET Has(e) == e.file \in Present
        have == SelectSeq(o, Has)
        liked == SelectSeq(have, LAMBDA e : e.preferred)
    IN IF have = <<>> THEN "" ELSE IF liked # <<>> THEN liked[1].file ELSE have[1].file

\* Every document Open may settle service s on: the entries of one name come in whatever order the
\* map and an unstable sort by name leave them.
Open(s) == LET es == {e \in Entries : nameOf(e, Entries) = s /\ e.file # ""}
           IN {settled(o) : o \in SetToSeqs(es)}

Services == {nameOf(e, Entries) : e \in Entries}

\* A document's key: the cache's root, the file, and the file's size and time; a document read for
\* an operation of another document is kept apart.
keyOf(at, file, kind) == <<at, file, kind, disk[at][file].stamp>>

-----------------------------------------------------------------------------
(* A reader's steps.                                                       *)

Set(r, v) == rd' = [rd EXCEPT ![r] = v]
Step(r, pc) == Set(r, [rd[r] EXCEPT !.pc = pc])

\* An address is resolved: the registry under a root is opened, with the cache of the moment.
\* A verified read is given no cache.
Ask(r, root, s, kind, verify) ==
    /\ rd[r].pc \in {"idle", "done", "refused"} /\ asks < MaxAsks /\ asks' = asks + 1
    /\ \E file \in Open(s) :
        LET at == <<root, latestVersion(root)>>
        IN Set(r, [pc |-> IF file = "" THEN "refused" ELSE IF verify THEN "read" ELSE "look",
                   at |-> at, service |-> s, file |-> file, kind |-> kind, verify |-> verify,
                   cache |-> Len(caches), key |-> <<>>, got |-> NoDoc,
                   since |-> IF file = "" THEN 0 ELSE disk[at][file].text])
    /\ UNCHANGED <<disk, installed, caches, now, writes>>

\* The file's size and time are read for the key.
Stat(r) ==
    /\ rd[r].pc = "look"
    /\ Set(r, [rd[r] EXCEPT !.pc = "get", !.key = keyOf(rd[r].at, rd[r].file, rd[r].kind)])
    /\ UNCHANGED <<disk, installed, caches, now, asks, writes>>

\* The cache is asked.
Lookup(r) ==
    /\ rd[r].pc = "get"
    /\ LET got == Get(caches[rd[r].cache], rd[r].key)
       IN /\ caches' = [caches EXCEPT ![rd[r].cache] = got.cache]
          /\ Set(r, IF got.hit THEN [rd[r] EXCEPT !.pc = "have", !.got = got.doc]
                    ELSE [rd[r] EXCEPT !.pc = "read"])
    /\ UNCHANGED <<disk, installed, now, asks, writes>>

\* The file is read and parsed.
Read(r) ==
    /\ rd[r].pc = "read"
    /\ LET w == rd[r]
       IN Set(r, [w EXCEPT !.pc = IF w.key = <<>> THEN "have" ELSE "put",
                           !.got = [at |-> w.at, file |-> w.file, text |-> disk[w.at][w.file].text,
                                    attached |-> FALSE, by |-> r]])
    /\ UNCHANGED <<disk, installed, caches, now, asks, writes>>

\* The parsed document is kept.
Keep(r) ==
    /\ rd[r].pc = "put"
    /\ caches' = [caches EXCEPT ![rd[r].cache] = Put(@, rd[r].key, rd[r].got)]
    /\ Step(r, "have")
    /\ UNCHANGED <<disk, installed, now, asks, writes>>

\* A document read for an operation has its caller's resources attached: to a copy.
Attach(r) ==
    /\ rd[r].pc = "have"
    /\ Set(r, [rd[r] EXCEPT !.pc = "done", !.got.attached = (rd[r].kind = "operation")])
    /\ UNCHANGED <<disk, installed, caches, now, asks, writes>>

-----------------------------------------------------------------------------
(* What happens around the readers.                                        *)

\* A document is rewritten.  Its stamp moves on with every rewrite, unless two fall within what
\* the file system's clock tells apart.
Rewrite(at, f) ==
    /\ writes < MaxWrites /\ at[2] \in installed[at[1]] /\ f \in Present
    /\ disk' = [disk EXCEPT ![at][f] = [text |-> @.text + 1, stamp |-> IF Ticks THEN @.stamp + 1 ELSE @.stamp]]
    /\ writes' = writes + 1
    /\ UNCHANGED <<installed, caches, now, asks, rd>>

\* A newer version of the provider is installed under a root.
Install(root) ==
    /\ writes < MaxWrites
    /\ \E v \in Versions : v > latestVersion(root) /\ installed' = [installed EXCEPT ![root] = @ \cup {v}]
    /\ writes' = writes + 1
    /\ UNCHANGED <<disk, caches, now, asks, rd>>

\* The process's cache is replaced; catalogs opened before keep the one they were given.
ConfigureDocumentCache ==
    /\ Len(caches) = 1 /\ caches' = Append(caches, <<>>)
    /\ UNCHANGED <<disk, installed, now, asks, writes, rd>>

Tick == now < MaxTime /\ now' = now + 1 /\ UNCHANGED <<disk, installed, caches, asks, writes, rd>>

Init ==
    /\ disk = [at \in Roots \X Versions |-> [f \in Files |-> [text |-> 1, stamp |-> 1]]]
    /\ installed = [root \in Roots |-> {Min(Versions)}]
    /\ caches = <<<<>>>> /\ now = 0 /\ asks = 0 /\ writes = 0
    /\ rd = [r \in Readers |-> Idle]

Next ==
    \/ \E r \in Readers :
        \/ \E root \in Roots, s \in Services, kind \in Kinds, verify \in BOOLEAN :
                Ask(r, root, s, kind, verify)
        \/ Stat(r) \/ Lookup(r) \/ Read(r) \/ Keep(r) \/ Attach(r)
    \/ \E at \in Roots \X Versions, f \in Present : Rewrite(at, f)
    \/ \E root \in Roots : Install(root)
    \/ ConfigureDocumentCache \/ Tick

Spec == Init /\ [][Next]_vars

-----------------------------------------------------------------------------
(* Properties.                                                             *)

Done(r) == rd[r].pc = "done"

\* A reader never gets a document older than its file was when it asked, and never one of another
\* root or version: a view's patched documents serve nobody else (WithDocCache, underKey).
NeverStale ==
    \A r \in Readers : Done(r) =>
        /\ rd[r].got.text >= rd[r].since
        /\ rd[r].got.at = rd[r].at /\ rd[r].got.file = rd[r].file

\* A cached document stays as it was parsed, whatever its readers attach to theirs: one entry
\* serves every concurrent reader (DocCache, ResolveDocument).
CachedAsParsed == \A c \in DOMAIN caches : \A i \in DOMAIN caches[c] : ~caches[c][i].doc.attached

\* A verified read is of the file, never of what somebody parsed without verifying it
\* (resolveSettings).
VerifiedIsRead == \A r \in Readers : (Done(r) /\ rd[r].verify) => rd[r].got.by = r

\* Each cache holds at most its budget and its number of entries, and no key twice (cache.Put).
WithinBudget ==
    \A c \in DOMAIN caches :
        /\ Held(caches[c]) <= Budget
        /\ MaxEntries > 0 => Len(caches[c]) <= MaxEntries
        /\ Cardinality({caches[c][i].key : i \in DOMAIN caches[c]}) = Len(caches[c])

\* Only a document of the bundle is ever read, and a service with one is never refused (Open).
AddressableMeansPresent ==
    \A r \in Readers : rd[r].pc # "idle" =>
        /\ rd[r].pc # "refused" => rd[r].file \in Present
        /\ rd[r].pc = "refused" => ~\E e \in Entries : nameOf(e, Entries) = rd[r].service /\ e.file \in Present

=============================================================================
