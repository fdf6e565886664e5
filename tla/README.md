# A TLA+ development of omnisdk

omnisdk answers relational queries over provider APIs and brings collections of
resources to a desired state. This directory models its parts from their
source, checks the models with TLC on small instances, and proves with TLAPS,
for every instance, what matters most of them: of the file ledger, the lease,
the converging runs with their unwind and the row buffer each on its own, and of
the parts of a plan's run (sink, scheduler, joins and sections, output, cycles,
paging, retries, destroy, graph runs) also together, as one module.

`PROJECT.json` lists every component with what of it is modelled, maps each
definition to the lines it stands for (a helper whose lines lie within those of
the definition that uses it is not listed again), and lists the hazards of the
code, each at its line with the properties that would catch it.

## Inventory

| part | state | operations | interacts with | what is hard | what makes it correct |
|---|---|---|---|---|---|
| ledger (`internal/ledger`) | one file per version of a key | Get, Begin, Resolve, Forget, List | written by lease, convergence, unwind, destroy | racing processes, crash or power loss between link and sync | versions form a chain; what was acknowledged stays; compare-and-swap is atomic |
| lease (`internal/lease`) | one ledger entry per collection, handles in memory | Acquire, Renew, Release | over the ledger | decisions on stale reads, expiry, breaking a dead run's lease | one unexpired holder; only the owner touches a lease in force |
| journal (`internal/journal`) | one file of lines per run | Create, Append, Records | written before each effect, read by unwind | torn or unreadable lines | every effect is in it first |
| convergence (`pkg/omnisdk` desired.go, managed.go) | per run: keys in flight | hold, recall, diff, durable effect, commit, withdraw | ledger, journal, provider, unwind | lost and late answers, failing writes, crashes, keys side by side | intent precedes effect; reported as applied means live |
| unwind (`internal/unwind`, `internal/effect/docrun`) | records left, blocked, outstanding | Unwind, compensate, restore | journal, ledger, provider | order against containment, half-done compensations | deletes only the run's own; compensated means undone; retried until no progress |
| graph runs and their compensation (managed.go) | nodes, effects applied | Begin, send, commit, compensate | ledger, provider | nodes side by side, failure while others land | nothing made is lost to view; latest first |
| destroy (destroy.go) | the passes over a collection's keys | Open, delete, Forget | ledger, provider | refusals, lost answers, interruption between delete and Forget | no object without an entry; readers before what they read from; true reports |
| row buffer (`internal/system_g/buffer`) | chunks, cursors, one condition variable | Append, Complete, Reader, Next, Close | every stage of a plan | back-pressure, lost wakeups, reclaiming under slow readers | records intact, bounded memory, everybody finishes |
| scheduler and limiters (`schedule`, `admit`) | counts, goroutines, a context | Run | plan | results in any order, first error, cancellation | after dependencies, once; no silent drops |
| joins, sections, merge, output (`bind`, `plan`, `abort`) | goroutines, slots, buffers, a shared budget | run, drain, Close | buffer, limiter, caller | slots held across blocked appends, limits shared by outputs, leaving early | a clean end is a whole answer; exactly the limit; everything ends |
| cycles and terminations (`scc`, `termination`, plan/cycle.go) | records seen, frontier, round | rounds, gates | plan | fixpoints, nested bounds | the closure; accepted means bounded |
| HTTP exchange, retries, admission (`httpx`, `retry`) | page, token, governor, slots | request, continue, back off | provider, buffer | tokens that do not advance, retries at once, closed readers | no page twice; the server's end; slots kept |
| sink (`sink`) | a channel, an owner goroutine, a sticky error | Write, Close | producers | Write racing Close | order per producer; a clean Close has flushed |
| row and document caches (`rowcache`, `pkg/cache`, catalog.go) | entries, LRU order, byte accounts | lookup, write, commit, evict | reads of an API, files | eviction under readers and writers, rewritten files | only whole answers; accounts balance; never stale |
| documents (`docparse`, docx, `effect/docrun`) | parsed documents, an object at a provider | resolve a method, place values, follow an operation | catalog, provider | where a declaration is taken from; long-running operations | sent as declared; what an effect resolved to exists |
| credentials, built-in methods (`auth`, omnisdk.go) | entries of the caller and the machine | overlay, resolve | every request | precedence of six sources | own provider's, whole or refused |
| compilation and addressing (graph.go, desired.go) | a graph, a ledger's About record | compile, choose create, read, delete | documents, plan | inputs fed twice or not at all | rows as meant; one object, found again |
| three-way merge (`merge`, `apply`) | last intent, desired, actual | merge, route an update | convergence | fields of other actors | dropped goes, others untouched |
| query language (query.go, relational.go) | a query's tables and conditions | resolve, run | graph, plan | where a condition may be placed; NULL, left joins | the rows SQL says |
| SQL functions (`pkg/sqlfn`) | values; the regex compiler's arcs, colours and cache | numeric, JSON, dates, calls, regular expressions | queries | carries, size classes, calendars, rewriting of automata | equal to a reference definition |
| secret store, sessions, streams, command line, vendor SDKs | maps, files | | hosts | | not modelled, see the end |

## Modules

    LedgerEntries     what an entry is, what each write makes of it
      Ledger            the contract: an atomic compare-and-swap register per key
      FileLedger        internal/ledger/file.go, refines Ledger     FileLedgerProofs
      Converge          convergence, journal and unwind             ConvergeProofs
    Lease             internal/lease, over an INSTANCE of Ledger    LeaseProofs
    Buffer            internal/system_g/buffer                      BufferProofs
    Runtime           Sink, Schedule, Output, Cycle, Paging, Retry  RuntimeProofs
                      Pipeline, Destroy, GraphRun (with their own theorems)
    MCDocuments       Query (resolution of a query, against SQL), DocMethods,
                      DocRequest, DocCatalog, DocEffect, Credentials, MethodCatalog,
                      GraphCompile, Addressing, Ownership, RowCache
    MCFunctions       Numeric, JsonText, Jsonb, PgJson, SqliteDate, PgDate,
                      FunctionCall, RegexLex, RegexColor, RegexDFA,
                      RegexExec (compiler and matcher, over RegexNFA)

Runtime and the two MC modules check several components in one run. A variable `part`
says which of them a behaviour is of, and never changes; the component's own
variables are `s1`, `s2` and so on in the order it declares them, or in
`Runtime` mostly those of its own names, through `INSTANCE ... WITH`. So the states of a run are the disjoint union of the
components' states, and each component is explored in full. A property of such
a module is one idea asked of every part it makes sense for: "exactly once" is
`CleanCloseKeepsEarly` and `DiskInOrder` for the sink and `EmittedOnce` for a
cycle. `MCFunctions` evaluates what the parts compute once per state:
from every state a step `Leave` is possible, and a property of states is
written `[][Leave => ...]_vars`.

Operators named `X_Something` before a definition `X`, with a comment that
begins "Mutant of", are faults seeded to show that a property can fail; no
specification uses them.

**LedgerEntries, Ledger.** An entry has the phase, plan, proposal, identity and
About blob of `file.go`'s `state`; "Gone" is a key never written or buried by a
tombstone. `Begun`, `Resolved` and `Gone` are what the three writes store; in
particular the file ledger's Begin stores no identity. `Ledger` is what callers
rely on: a write takes effect atomically when the version its caller got from
its last Get is still current. A version is the number of writes a key has had.

**FileLedger.** `disk[k][n]` is the file named version *n* of *k*. One
operation is several steps: Begin's own read (`BeginCurrent`), the guard's read
and decision (`Guard`), the exclusive link (`Link`), the directory sync
(`SyncDir`). Any system call may fail (`Fail`), a process may die (`Crash`), and
`PowerLoss` removes any suffix of the names linked since the last sync. `acked`
is what callers were told, kept only to state a property. Reading a directory
and the file it points at is one step, since versions are created in increasing
order and never removed. A directory's own name is taken to be durable
(`MkdirAll` does not sync parents). `List` is left out.

**Lease.** `Acquire` is Acquire's Get and decision, `Begin` its write; `Version`
is the re-read in Renew and Release, followed by `Begin` or `Forget`. Every run
may do these at any time, so anything can happen between a read and the write
decided on it. A claim is fresh (16 random bytes). There is one clock.
`Begin(p, FALSE)` is the write that took effect and was reported as failed.

**Converge.** A run's work on one key goes through `Observe` (recall, read,
diff), `Open` (ledger Begin), `Append1` (journal), `Send`, and one of `Commit`,
`Withdraw` (a 4xx) and `Unknown` (no answer or a 5xx). The provider is external:
requests on the `wire` are acted on (`Land`) or refused (`Refuse`) at any later
time, even when their run is gone, and a delete is refused while a contained
object exists. `Settle` ends the run, or starts the unwind once no key waits for
an answer; a key that has its answer may commit beside the unwind. The unwind's loop is one step per compensation (`NothingToUndo`, `UndoSent`,
`UndoRefused`, `UndoFails`), one per ledger write after it (`UndoRecorded`,
`UndoNotRecorded`) and `EndPass`. A compensation whose answer never came stays in
`late` and may land at any later time (`LandLate`), under a later run too; what it
reached is marked, and `AppliedIsLive`, `CompensatedIsUndone` and `OnlyOwnRemoved`
name that as the one thing a later run cannot answer for. `Refusals` says how the
effector reports that the provider refused a compensation: "failed" is what
`effect/docrun` does, "blocked" the `ErrCompensationBlocked` the contract asks for.
Every write may fail with or without effect; a
run may die at any step. Documents are compared for equality only, so "keep"
means the live object equals what is desired. `DependsOn` orders keys; the
levels of `plan/compose.go`, which also depend on how many stages each resource
lowers to, are not imposed, so the model allows more interleavings than a given
plan has. Two things are left out because they break every property the same
way and are described under "What disagrees": a run whose context ends in the
middle of a response, and a run that outlives its lease.

**Buffer.** The mutex makes each method atomic between waits, so a step is a
method, or the part of it after a wakeup. `parked` is the set waiting on the
condition variable; `Broadcast` empties it. Ending a context (`Cancel`) and the
broadcast that follows from its own goroutine (`Wake`) are two steps. Record *i*
is the number *i*, so `slot` and `cur` show a lost or overwritten record. A
`waking` party may be broadcast for even after its method returned, which only
adds spurious wakeups.

**Parts of Runtime.** `Sink` has a step per select of Write, of the owner's
loop and of Close. `Schedule` has the coordinator's receive as one step and each
node's acquire, work and report as others, over every graph on its nodes.
`Pipeline` is a join followed by a join or by a section, with the limiter's
slots held as the code holds them; `Output` the merge of legs and the terminals
that share a budget. `Cycle` runs its rounds on one upstream row; a member's
answers, and the termination, are parameters. `Paging` lets the server answer
anything, the URL first asked for too; `Retry` counts time in the governor's
intervals. `Destroy` and `GraphRun` have the provider refuse, answer late or not at
all. In `GraphRun` a node's row is sent on when it is answered and committed
afterwards (`Answer`, then `Commit`), so a reader may begin, and a failed run
compensate, before that commit. In `Destroy` entries are live or pending, a failing
Forget may have written its tombstone, and a delete nobody waits for may land later.

**Parts of MCDocuments.** These have few steps and many initial states: every
small document, credential set, graph or declaration of the shapes listed in
the module. In `Query` a case is a query, its tables and their rows; steps resolve
it, condition by condition, and run the graph node by node, and the result is
compared with SQL's reading of the query. `RowCache`, `DocCatalog`, `DocEffect`, `Ownership` and `Addressing`
do evolve: readers and writers interleave, files are rewritten, an operation
completes while it is polled, another actor edits the object, a run is repeated
with other values, another scope or other reads than the last.

**Parts of MCFunctions.** The reference definitions are written independently of
the code: integers for numerics, a grammar for JSON text, a tree for a blob, a
day count for the calendar, PostgreSQL's rules for overloads, and the denotation
of an expression for the regular expression engine. Widths and bases are
parameters, so that short inputs cross every boundary.

## Runs

| run | instance | shows |
|---|---|---|
| `file_ledger` | 2 processes, 1 key, 2 documents, 3 versions, power loss | racing writers never fork or overwrite a history (`HistoryIsChained`), and an acknowledged write survives (`AckedSurvives`) |
| `file_ledger_contract` | the same, no power loss | `ImplementsContract`: refinement of `Ledger` |
| `file_ledger_intent` (violation) | 1 process | `IntentIsDurable` fails, see below |
| `lease` | 2 runs, 4 claims, TTL 2, 5 ticks, 5 writes | `OneHolder`, `OwnerOrLapsed` |
| `converge` | 2 runs, 2 keys, 2 documents, 4 objects, refusals as `docrun` reports them | `IntentBeforeEffect`, `OnlyOwnRemoved`, `CompensatedIsUndone`, `AppliedIsLive` |
| `converge_unwind` | 1 run, 3 keys, one not invertible, fair | `RetriedUntilNoProgress` and `CollectionFreed`, each refusal reported either way |
| `converge_retry` (violation) | 1 run, 2 keys, refusals as `docrun` reports them | `RefusedIsRetried` fails |
| `converge_reexecute` (violation) | 2 runs, 1 key | `OneObjectPerKey` fails |
| `buffer` | 2 readers, capacity 2, chunks of 2, 4 records, fair | `ReadIntact`, `EndIsEnd`, `StorageIsBounded`, `EveryoneFinishes` |
| `runtime` | 13 parts, two or three of everything, fair | `ExactlyOnce` (records, rows and pages, none lost or repeated at a clean end), `LimitsHold`, `NothingOrphaned`, `AnswerIsWhole` (merge, limit, closure of a cycle, scheduler), `StepsInOrder`, `EverythingEnds` |
| `documents` | 11 parts; of queries every small one of two or three tables over 1, 2 and NULL, and mutations | `ResultIsSQL`, `EffectsAsAsked`; compiled is complete, requests as declared, the right credential, true caches, one object, converged, others untouched |
| `functions` | 13 parts | numbers, JSON, dates, calls and matches equal their references |

Bounds. Three versions give an intent, its commit and a second intent or a
tombstone; two processes are enough to race for a name, and the proof covers
the rest. Five ticks and writes let a lease lapse, be broken and lapse again
with a stale renewal outstanding. Two runs let one fail or die and the other
find what it left, its late compensation included; two documents tell update from keep; four objects are all
that two runs over two keys can create. Three keys are needed for an unwind to
refuse, progress and fail in one pass. Four records in chunks of two make the
buffer fill, wrap and drop a chunk. In `runtime`, two producers of two records
before a queue of one make Write wait and Close overtake it; three nodes are
the least for a chain, a fork and a cycle under two slots; two outer rows of two
rows with one slot make a join wait for its reader; three legs into one output
let one fail, one run and one end; two outputs and a limit of three share an odd
budget; four pages of three tokens, one of them the first URL, repeat each; three requests, three tries and
one place of burst queue behind the governor; three keys, live or pending, one
using both others, and two destroys make a refusal, a second pass and a rerun; four keys of which
three are creates make a graph run compensate a chain. The section has as many
slots as upstream rows, so the slot deadlock of a join before it (below) happens,
and `EverythingEnds` names it. In `documents` and `functions` each module lists its cases, those where the code
departs from what it says of itself among them; four runs of a declaration, each
with its own values, let an object be left in one place, made in another and asked
for in the first again;
numerics are checked in bases 10 and 100 with narrow accumulators, blobs with
size classes of 2 and 6 cells, expressions up to a few atoms over short texts.

Fairness. `FairSpec` gives weak fairness to each run's own steps (a goroutine
that can run does, and every call returns or fails) and to the lapse of a dead
run's lease (time passes); the provider and crashes get none. `Buffer` gives it
to the producer, to readers, which pull until Next returns false and then
close, and to the wakeup goroutine of a cancelled context. `Runtime` asks only
that some goroutine of the part that can step does (`Progress`), which any
scheduler gives. Nobody is obliged to fail, cancel or close early. Deadlock
checking is off where runs, parts or a buffer's parties really end; the lease
and the ledger have no end.

## What disagrees

Three runs show the code doing other than the repository says.

* `file_ledger_intent`: `Begin` answers nil as soon as it reads the same
  proposal pending, without syncing the directory (file.go:222). After a first
  Begin that linked its version and failed or died before the sync, the repeat
  succeeds over a name a power loss can still remove; invariants.md:48-49 has
  entry and journal "written and fsynced before a wire call".
* `converge_reexecute`: recall gives the diff a pending entry's identity, which
  the file ledger does not store, so the key looks absent and the create is
  sent again (managed.go:196); facade.go:356-357 says a pending entry is "never
  what to blindly re-execute". `OneObjectPerKey` fails once a create lands and
  its answer is lost.

* `converge_retry`: only an `ErrCompensationBlocked` is put back for another pass
  (unwind.go:134), and no effector outside tests returns it, so a refused delete
  is reported outstanding at once; query_forms.md:25 has the unwind "retrying what
  a provider refuses while a dependent exists, until a pass makes no progress".
  `RefusedIsRetried` fails when the dependent goes later in the same pass.

The next ones happen in passing runs. The property that would not hold names the
case as its exception, and without the exception TLC finds it violated.

| where | the code | the repository says | the exception |
|---|---|---|---|
| unwind.go:137 | a compensation without an answer is outstanding, and may land under a later run | facade.go:324, a live entry's identity is valid | `Late` in `AppliedIsLive`, `CompensatedIsUndone` |
| managed.go:515 | an effect whose answer or commit came late is in no list of a failed graph run | managed.go:577, reports what it could not reverse | `NothingOrphaned` of `GraphRun` |
| managed.go:717 | effects are undone against the order of commits, which may be other than that of reading | managed.go:717, "reverses what the run did, latest first" | `LatestFirst` |
| destroy.go:115 | a pending entry does not hold back what it reads from | destroy.go:27, dependents go first | `ReadsFrom` in `DependentsFirst` |
| join.go:236 | a join before a section may hold every fan-out slot and deadlock | schedule.go:126-128 | `Starved` in `EverythingEnds` |
| output.go:70 | a timeout ends the rows without an error | omnisdk.go:2096-2097 | `TimedOut` in `CleanEndIsWhole`, `ExactlyTheLimit` |
| scc.go:164 | a poll answered twice alike is a fixpoint and ends | developer_guide.md:616 | `OneRunPerChoice` counts new records |
| exchange.go:177, 205 | the first URL is not among those seen, so a link back to it is followed once | exchange.go:190, 217, a URL seen before ends the run with an error | `NoPageTwice`, for `i = 1` |
| exchange.go:61 | one response more than agreed is fetched ahead, and waits for room | exchange.go:61-62, omnisdk.go:466-467 | `NeverTooFarAhead`, `Ahead + 1` |
| query.go:979, 984, 955 | an ON condition may restrict the preserved side; an IN list in ON repeats rows; an ambiguous column is bound to nothing | query.go:1138-1139, pkg/query/query.go:81, query.go:399-400 | `NarrowsPreserved`, `AsksAgain`, `Ambiguous` in `ResultIsSQL` |
| graph.go:757, 779, 1042 | a query-wide value can be hidden by a column, or hide a reference's own; a node is asked twice for the same | graph.go:307-308, 760, 1034 | `Shadowed`, `Overwritten` in `RowsAsMeant`, `AskedOnce` |
| omnisdk.go:758, 863, 1004 | one method requires parameters it does not declare; two name another provider's credential | omnisdk.go:249, 641 | `ScopeIsEchoed`, `Misnamed` in `OwnCredential` |
| oci.go:27, omnisdk.go:1542, 1821 | the environment displaces keys given inline; a chosen token is read as a key file; inline keys are signed with the environment's session | auth.go:45, omnisdk.go:1601, 1825 | `Displaced`, `StraySession` in `CallerFirst`, `OverrideStands` |
| merge.go:88 | a dropped subtree is unset with others' fields in it; a PUT leaves out what others set | merge.go:4 | `InDropped`, `Replaces` in `OthersUntouched` |
| desired.go:735, docrun.go:228 | a record may not be enough for any delete | desired.go:666, enough to delete from the ledger alone | `DeletableAlone`: a reshaped input, `Undecided` |
| desired.go:254, 568 | an object whose place changed, or that no GET reads back, is made again | resource_bindings.md:40, use_cases.md:65 | `Elsewhere`, `Unreadable` in `OneObject` |
| docrun.go:412 | an object that holds a one-element list is reduced to that element | docrun.go:404 | `Unwrapped` in `ActualIsTheObject` |

Also met while reading; no run shows these, being outside what is modelled or,
where a module would meet one, left out of it with a comment that says so.

| where | the code | the repository says |
|---|---|---|
| managed.go:478 | a context that ends mid-response reads as the end of it, and is committed without an identity | facade.go:324, a live entry's identity is valid |
| iac.go:242 | the lease is five minutes that nothing renews | query_forms.md:22, held for the length of the run |
| ledger/memory.go:164, 124 | versions restart after Forget; Begin keeps the identity | memory.go:4-5, 53-55, the reference for the durable ones |
| managed.go:275 | a field found in place is not recorded as asked for | merge.go:3 |
| sink.go:87 | a Write racing Close may be acknowledged and lost | sink.go:27-29, dropped with ErrClosed |
| cycle.go:137 | components freed later are queued in map order | cycle.go:32, ties in declaration order |
| retry.go:172 | waits past the burst are capped, so they fire together | retry.go:141-143, staggered |
| exchange.go:642 | pages are fetched for a reader that has closed | buffer.go:12-14, the producer should stop |
| tuning.go:196 | a request queued for a busy host uses the total | provider_sessions_and_secrets.md:66, in-flight requests |
| pushdown.go:124, 263 | the cap is sent although a later filter may drop rows; LIKE is sent whatever the dialect | pushdown.go:15-16, 122 |
| plan/section.go:132 | a later member of a section puts back what an earlier one overwrote | section.go:13-16 |
| resolve.go:49 | a self path through a reference reads the reference's own object | resource_bindings.md:14-18 |
| stackqldoc.go:587, 467 | a method is listed under a verb that does not resolve to it; a beta's pointer is read in another file | stackqldoc.go:561, 458 |
| catalog.go:306, provider.go:77 | a rewrite of the same size and time is not seen; services of one name come in random order | catalog.go:42, 113 |
| docs.go:228, 222 | of two fresh builds of a view one fails, and the root is briefly absent | docs.go:216, 50 |
| sqlite_date.go:376 | 1900 is mapped to a leap year | sqlite_date.go:367, an equivalent one |
| pg_json.go:860 | a negative index is resolved once and kept | pg_json.go:776 |
| grpcx.go:86, 125 | no page limit and no check that a token advances | developer_guide.md:136, grpcx.go:27 |
| docx/graphql.go:115 | an empty page ends before a missing cursor is noticed | developer_guide.md:857 |
| kind.go:238 | numbers inside objects are compared as text | kind.go:211, 246-247 |

## Proofs

Eight modules hold theorems: the five `...Proofs` modules, and `Pipeline`,
`Destroy` and `GraphRun`, whose theorems follow the specification. Each is for
every value of the constants the stated assumptions allow, by an inductive
invariant (`IInv`; `RInv` of `Runtime`) that TLC also checked on small
instances, with the quantifiers and types it cannot enumerate cut down to them.

**FileLedgerProofs**, for any processes, keys, documents and version bound:
`TypeCorrect`, `ChainedHistory`, `Durability` and `Refinement`. None of these is
inductive. `IInv` adds that the names of a key have no gaps (`Contiguous`), that
an operation past its guard is about to write what its call makes of version
`base`, which is on disk and admitted its caller (`Guarded`), that an operation
past its link finds its own file there (`Linked`), and that only synced versions
are acknowledged (`Durable`). With these, a name that is free at the link is the
one right after the version the guard read, which is why two reads and a link
amount to one atomic step. `Refinement` maps the register to the highest
version; `Link` is the contract's `Write`, `Get` and `Crash` are themselves,
everything else stutters.

**LeaseProofs**, for any runs, claims, TTL and bounds: `TypeCorrect`,
`MutualExclusion` and `Ownership`. An unexpired handle is in the ledger with an
expiry at least its own (`Backed`), claims belong to one run (`Unique`), and
whatever a run decided still stands as long as its version would be admitted
(`Decided`). `Backed` alone is not inductive: a stale renewal or a stale break
could write, but a write by anyone else raises the version and voids theirs.

**BufferProofs**, for any readers, capacity and chunk size: `TypeCorrect`,
`RecordsIntact`, `EndAfterLast` and `MemoryBounded`. A cursor says where its
reader is until it closes (`Cursors`), nothing at or above a cursor is reclaimed
(`Behind`), exactly what lies between the low-water mark and the end is stored
(`Stored`), in the chunks from the one to the other (`Chunks`), and an append
waits while that span has the capacity (`WithinCapacity`). The records read are
intact only through all of these: reclaiming moves the mark, the mark is the
lowest cursor, and chunks are dropped by the mark.

**ConvergeProofs**, for any runs, keys, documents and dependencies:
`TypeCorrect`, `IntentFirst`, `OwnRemoved`, `Applied`, `Compensation` and
`Retried`. `IInv` is `Order`, `Effects` and `Reversal`. The lock lets one run
work at a time (`Locked`), so what it knows of a key stays true of the ledger
and the provider while it works (`KeysOK`, `Logged`), but for what earlier runs
left on the way. A compensation that lands late marks the object it reaches, which
for a delete is one its own run made (`Posted`). A create that lands late makes an object no entry names. A
late update could overwrite what a run relies on; it does not, because whoever
sent it had erased the identity from the ledger to record its intent, so no
later run can come to name that object (`Stale`). A journal has one record of a
key and a run makes one object for it (`Once`), hence what the ledger names
under a create of the run is the run's own (`Own`), and a create without an
entry has no trace (`Forgotten`); so an unwind deletes and restores the right
objects and its report is true (`UnderWay`, `Reversed`). While a pass has reversed
nothing, what blocked a record does so still (`Barred`), so `Retried` holds however
refusals are reported; that none is ever reported as blocked is `converge_retry`'s.

**RuntimeProofs** proves, of the parts through the instances that `Runtime`
makes of them, what each promises, and then four of the properties that
`runtime` checks: `EachExactlyOnce`, `EveryLimitHolds`, `NoneOrphaned` and
`InStepOrder`. `RInv` says of whichever part moves that its own invariant holds.
A step of `Runtime` is a step of one part in the part's own variables, so that
`RunInvariant` follows part by part from lemmas that say each of them keeps its
own; those of `Pipeline`, `Destroy` and `GraphRun` are in their modules. The
invariants:

* Sink, for any producers, closers and queue (`SinkFanIn`, `SinkCleanClose`,
  `SinkSticky`): the channel and the destination together hold each producer's
  records in order (`InOrder`, `Follows`), none that its producer is still to
  write (`Past`); what was acknowledged before the first Close is in one of them
  until an error, and at the destination once the owner has stopped (`Kept`),
  which every Close that succeeded has waited for (`Closed`).
* Schedule, for any finite set of nodes and any graph on it
  (`ScheduleInOrder`, `ScheduleStops`, `ScheduleCause`, `ScheduleAllRun`): the
  counts are of what is still waited for (`Counted`), what was launched had
  nothing to wait for (`Launched`), a context that has ended has a cause
  (`Causes`), and a coordinator that has returned has no goroutine outstanding
  (`Left`). `ScheduleAllRun` takes `[]RejectsCycles` as a hypothesis: what
  `Peel`, a recursive function, leaves of a graph cannot be proved here, and
  `runtime` checks it.
* Output, for any outputs, legs and limit (`OutputWithinBudget`): a row that is
  delivered or in an output's hands has a place of the budget (`Budgeted`).
  That no more than the limit is delivered is not inductive: an output takes a
  place first and delivers later, and others may do the same in between.
* Cycle, for any members, edges, answers and terminations (`CycleLeavesOnce`):
  what has left was reached and is not waiting to leave (`Left`), so what leaves
  next has not left before (`Once`).
* Paging, for any tokens, limits and server (`PagingOnePass`): everything asked
  for after the first request has been seen or is at or below the current page
  (`Asked`), what comes next is not among it (`Unasked`), and a fetch that has ended did so for one
  of the reasons a clean end may have (`Ends`). Without `Unasked`, a server that
  names an earlier page would be asked for it again.
* Retry, for any requests, slots and delays (`RetryAdmission`): the slots held
  are those of the requests that are past acquire and not ended, and every wait
  was reserved under the cap (`Capped`).

**Pipeline**, for any rows, members, slots and buffer capacity, of a join and of
a section: `WholeAnswer` and `NothingStarts`. Until a failure or an early end an
item that was emitted is in exactly one place: in the first buffer (`Waiting`),
the section's row in hand or the work of every member on it (`Taken`,
`Working`), the second buffer or the caller's hands (`Handed`), and a stage has
ended cleanly only when nothing is left before it (`Clean`). A clean end is a
whole answer only through the chain of all of them.

**Destroy**, for any keys, uses and number of destroys: `EntriesOutlive`,
`TrueReport`, `NoEarlyEnd`, `ReadersFirst`. A pass divides its keys into
those taken, ahead, left over and reported. What is ahead or left over has its
entry and is not reported, what was taken and not left over was destroyed
(`Accounted`); a delete is sent only for a key nothing pending reads from
(`Sending`), and whatever reads from a key of the pass is in the pass
(`ReadersInPass`); a pass without progress has a reason for every key it took
(`Reasons`), which the report inherits (`Reported`, `Ended`). A delete that is
still on its way was sent when no confirmed reader was left, and none can appear
(`LateIsSafe`). Entries may be live or pending; what is claimed of readers is
claimed of those confirmed made.

**GraphRun**, for any finite set of keys, read from one another in any way:
`OwnRemoved`, `EntriesOutlive`, `LatestGoFirst`. What is applied is what was
committed, once each, and what is compensated was applied when the run settled
(`Landed`). Reversed, selected and retried the effects stay in that order, and
what a pass left over comes before what it has yet to take (`Undoing`): at the
head of a pass is the latest of what is left to try. A commit that comes after the
compensation began adds to what is applied and touches none of that, and its object
stays, live in the ledger (`Late`). A key has its entry from before its object is
there (`Held`).

Assumptions. `None`, `NoFile`, `NoCall` and the like are outside the sets they
stand beside; bounds are natural numbers; dependencies are a relation on keys
(`GraphAssumption`); `Nodes` and `Requests` are finite, and the delays of a
retry policy have a longest. The parts of `Runtime`, which are only
instantiated, state theirs as `Instance`, a hypothesis of their own theorems;
`Runtime` assumes all of them (`Instances`), so TLC evaluates them. Destroy's
says that sorting a set of keys lists each of them once, which is what
`SetToSortSeq` promises, and GraphRun's that `SelectSeq` keeps the members
selected, in order; both are defined by recursion or CHOOSE, out of the provers'
reach.

Only model-checked:

* liveness (`CollectionFreed`, `EveryoneFinishes`, `EverythingEnds`): fairness
  and ENABLED are outside the prover's reach;
* `AnswerIsWhole`: a merge's rows are a sum over its legs, the closure of a cycle
  and the rejection of cyclic graphs are least fixpoints. These are inductions
  over data, which need theorems with operator parameters that the installed
  provers cannot instantiate. The part of it about the scheduler is proved but
  for that (`ScheduleAllRun`, `ScheduleCause`);
* what is computed by recursion over data for the same reason: `ResultIsSQL` and
  `EffectsAsAsked` of `Query`, the properties of `MCFunctions`, and those of
  `MCDocuments`, whose `DocMethods`, `MethodCatalog` and `Ownership` use
  RECURSIVE operators.

## Not modelled

* The in-memory ledger: only tests construct it, its contract is `Ledger`. The
  saga log: no other package imports it.
* The secret store and patched document views: files published by a link or a
  rename, the discipline `FileLedger` models. Client sessions: snapshots of
  bindings under two locks.
* Request admission across hosts, row streams with their timer, gRPC and GraphQL
  page loops, folder descent: variants of what `Retry`, `Sink`, `Paging` and
  `Cycle` model.
* Server-side pushdown, resource bindings, declared inverses, value kinds,
  encodings, the text, number and formatting functions, the loops of the regular
  expression functions: stateless conversions over large data domains, which the
  repository tests against the implementations they follow.
* The command line, vendor SDKs and request signing, the document interface and
  its linter: input and output, or types without behaviour.

Components that are partly modelled say in `PROJECT.json` what is left out.

## Plan

1. The refinement of the sink and of the buffer to a plain queue per reader.
2. Theorems for `RowCache` and `DocCatalog`, which evolve and use no recursion:
   only whole answers, never stale. The balance of the accounts is a sum over
   entries and stays with TLC.
3. A lemma for `RejectsCycles`, if a form of it without recursion is found, so
   that `ScheduleAllRun` loses its hypothesis.
