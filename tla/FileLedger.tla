----------------------------- MODULE FileLedger -----------------------------
(***************************************************************************)
(* internal/ledger/file.go: the durable ledger over a directory tree.  A   *)
(* version of a key is a file whose NAME carries the version; a write      *)
(* reads the highest version, decides, and claims the next name with       *)
(* link(2), which fails when the name is taken.  Several processes run the *)
(* operations below; every read, the link and the directory sync are       *)
(* separate steps, a process may die between any two of them, and the      *)
(* machine may lose power, which loses directory entries not yet synced.   *)
(*                                                                         *)
(* Reading a directory is one step: versions are created in increasing     *)
(* order and never removed while a process runs, so the highest name a     *)
(* listing shows was the highest one at some instant during the listing.   *)
(***************************************************************************)
EXTENDS LedgerEntries, Naturals, TLC

CONSTANTS
    Procs,          \* processes sharing the state directory
    MaxVersion,     \* bound: versions a key may reach
    NoFile,         \* the name is not in the directory
    NoCall          \* the process is in no operation

ASSUME MaxVersionAssumption == MaxVersion \in Nat
ASSUME NoFileAssumption == NoFile \notin Entries
ASSUME NoCallAssumption == NoCall \notin Calls

Versions == 1 .. MaxVersion

VARIABLES
    disk,       \* disk[k][n]: the file holding version n of key k, or NoFile
    synced,     \* synced[k]: versions of k up to this one survive power loss
    acked,      \* acked[k][n]: what a caller was told is version n of k
    pc,         \* pc[p]: where process p is within an operation
    call,       \* call[p]: the operation p is in, with its arguments
    held,       \* held[p][k]: the version p got from its last Get, 0 = none
    base,       \* base[p]: the version the operation read and follows
    next        \* next[p]: the entry the operation will write after it

vars == <<disk, synced, acked, pc, call, held, base, next>>

\* The operation returns, or its process dies: nothing of it is left.
Return(p) == /\ pc' = [pc EXCEPT ![p] = "idle"]
             /\ call' = [call EXCEPT ![p] = NoCall]
             /\ base' = [base EXCEPT ![p] = 0]
             /\ next' = [next EXCEPT ![p] = Gone]

\* fileLedger.current, of the files of one key: the highest version, 0 when
\* there is none ...
Highest(files) == CHOOSE n \in 0 .. MaxVersion :
                      /\ n # 0 => files[n] # NoFile
                      /\ \A m \in Versions : m > n => files[m] = NoFile

At(files, n) == IF n = 0 THEN Gone ELSE files[n]

\* ... and the entry it holds.
Current(files) == At(files, Highest(files))

(***************************************************************************)
(* The operations.                                                         *)
(***************************************************************************)
Init == /\ disk = [k \in Keys |-> [n \in Versions |-> NoFile]]
        /\ synced = [k \in Keys |-> 0]
        /\ acked = [k \in Keys |-> [n \in Versions |-> NoFile]]
        /\ pc = [p \in Procs |-> "idle"]
        /\ call = [p \in Procs |-> NoCall]
        /\ held = [p \in Procs |-> [k \in Keys |-> 0]]
        /\ base = [p \in Procs |-> 0]
        /\ next = [p \in Procs |-> Gone]

\* Get: a tombstone is absent, and then the caller holds LedgerVersionNone.
Get(p, k) ==
    /\ pc[p] = "idle"
    /\ held' = [held EXCEPT ![p][k] = IF Found(Current(disk[k])) THEN Highest(disk[k]) ELSE 0]
    /\ UNCHANGED <<disk, synced, acked, pc, call, base, next>>

\* A caller enters Begin, Resolve or Forget.  Begin starts with a read of
\* its own; the other two start at the guard.
Call(p, c) ==
    /\ pc[p] = "idle"
    /\ call' = [call EXCEPT ![p] = c]
    /\ pc' = [pc EXCEPT ![p] = IF c.kind = "Begin" THEN "current" ELSE "guard"]
    /\ UNCHANGED <<disk, synced, acked, held, base, next>>

\* Mutant of BeginCurrent: takes the next version for the one it read.
BeginCurrent_Next(p) ==
    LET c == call[p] IN
    /\ pc[p] = "current"
    /\ pc' = [pc EXCEPT ![p] = IF Repeats(c, Current(disk[c.key])) THEN "repeated" ELSE "guard"]
    /\ base' = [base EXCEPT ![p] = Highest(disk[c.key]) + 1]
    /\ UNCHANGED <<disk, synced, acked, call, held, next>>

\* Begin's first read: the same proposal already pending returns nil, with
\* nothing written and nothing synced; otherwise go on to the guard.
BeginCurrent(p) ==
    LET c == call[p] IN
    /\ pc[p] = "current"
    /\ pc' = [pc EXCEPT ![p] = IF Repeats(c, Current(disk[c.key])) THEN "repeated" ELSE "guard"]
    /\ base' = [base EXCEPT ![p] = Highest(disk[c.key])]
    /\ UNCHANGED <<disk, synced, acked, call, held, next>>

\* Mutant of Guard: the version the caller presents is not compared.
Guard_AnyVersion(p) ==
    LET c == call[p]
        e == Current(disk[c.key])
    IN  /\ pc[p] = "guard"
        /\ IF Applicable(c, e)
             THEN /\ pc' = [pc EXCEPT ![p] = "commit"]
                  /\ base' = [base EXCEPT ![p] = Highest(disk[c.key])]
                  /\ next' = [next EXCEPT ![p] = Outcome(c, e)]
                  /\ UNCHANGED call
             ELSE Return(p)
        /\ UNCHANGED <<disk, synced, acked, held>>

\* guard: a second read, the compare-and-swap rule and the phase rule.  The
\* entry to write is computed here, from what this read returned.
Guard(p) ==
    LET c == call[p]
        e == Current(disk[c.key])
    IN  /\ pc[p] = "guard"
        /\ IF Admits(held[p][c.key], e, Highest(disk[c.key])) /\ Applicable(c, e)
             THEN /\ pc' = [pc EXCEPT ![p] = "commit"]
                  /\ base' = [base EXCEPT ![p] = Highest(disk[c.key])]
                  /\ next' = [next EXCEPT ![p] = Outcome(c, e)]
                  /\ UNCHANGED call
             ELSE Return(p)
        /\ UNCHANGED <<disk, synced, acked, held>>

\* Mutant of Link: rename(2), which replaces a name that is taken.
Link_Rename(p) ==
    /\ pc[p] = "commit"
    /\ base[p] + 1 \in Versions
    /\ disk' = [disk EXCEPT ![call[p].key][base[p] + 1] = next[p]]
    /\ pc' = [pc EXCEPT ![p] = "sync"]
    /\ UNCHANGED <<call, base, next, synced, acked, held>>

\* commit, up to the link: claims version base+1, or fails with a conflict
\* because another process claimed it first.
Link(p) ==
    LET k == call[p].key
        n == base[p] + 1
    IN  /\ pc[p] = "commit"
        /\ n \in Versions
        /\ IF disk[k][n] = NoFile
             THEN /\ disk' = [disk EXCEPT ![k][n] = next[p]]
                  /\ pc' = [pc EXCEPT ![p] = "sync"]
                  /\ UNCHANGED <<call, base, next>>
             ELSE /\ UNCHANGED disk
                  /\ Return(p)
        /\ UNCHANGED <<synced, acked, held>>

\* Mutant of SyncDir: success is returned without the directory's fsync.
SyncDir_Skipped(p) ==
    /\ pc[p] = "sync"
    /\ acked' = [acked EXCEPT ![call[p].key][base[p] + 1] = next[p]]
    /\ Return(p)
    /\ UNCHANGED <<disk, synced, held>>

\* syncDir succeeds: the names in the directory are durable, and the caller
\* is told its write is version base+1.
SyncDir(p) ==
    LET k == call[p].key IN
    /\ pc[p] = "sync"
    /\ synced' = [synced EXCEPT ![k] = Highest(disk[k])]
    /\ acked' = [acked EXCEPT ![k][base[p] + 1] = next[p]]
    /\ Return(p)
    /\ UNCHANGED <<disk, held>>

\* Begin returned early: its caller takes the pending intent as recorded.
AckRepeat(p) ==
    /\ pc[p] = "repeated"
    /\ Return(p)
    /\ UNCHANGED <<disk, synced, acked, held>>

\* Any other system call of an operation fails: the temp file before the
\* link, or syncDir after it.  The caller gets an error either way.
Fail(p) == /\ pc[p] \in {"current", "guard", "commit", "sync"}
           /\ Return(p)
           /\ UNCHANGED <<disk, synced, acked, held>>

\* Process p dies and a new one takes its place, holding no version.
Crash(p) == /\ Return(p)
            /\ held' = [held EXCEPT ![p] = [k \in Keys |-> 0]]
            /\ UNCHANGED <<disk, synced, acked>>

Step(p) == \/ \E k \in Keys : Get(p, k)
           \/ \E c \in Calls : Call(p, c)
           \/ BeginCurrent(p)
           \/ Guard(p)
           \/ Link(p)
           \/ SyncDir(p)
           \/ AckRepeat(p)
           \/ Fail(p)
           \/ Crash(p)

\* The machine loses power: every process dies, and of each key any suffix
\* of the names linked since the last sync may be missing afterwards.
PowerLoss ==
    /\ \E keep \in [Keys -> 0 .. MaxVersion] :
          /\ \A k \in Keys : synced[k] <= keep[k] /\ keep[k] <= Highest(disk[k])
          /\ disk' = [k \in Keys |-> [n \in Versions |->
                          IF n <= keep[k] THEN disk[k][n] ELSE NoFile]]
          /\ synced' = keep
    /\ pc' = [p \in Procs |-> "idle"]
    /\ call' = [p \in Procs |-> NoCall]
    /\ held' = [p \in Procs |-> [k \in Keys |-> 0]]
    /\ base' = [p \in Procs |-> 0]
    /\ next' = [p \in Procs |-> Gone]
    /\ UNCHANGED acked

Next == \E p \in Procs : Step(p)

Spec == Init /\ [][Next]_vars

PowerSpec == Init /\ [][Next \/ PowerLoss]_vars
----------------------------------------------------------------------------
(***************************************************************************)
(* Properties.                                                             *)
(***************************************************************************)
\* Type correctness of the ledger's files and of the operations on them.
TypeOK ==
    /\ disk \in [Keys -> [Versions -> Entries \cup {NoFile}]]
    /\ synced \in [Keys -> 0 .. MaxVersion]
    /\ acked \in [Keys -> [Versions -> Entries \cup {NoFile}]]
    /\ pc \in [Procs -> {"idle", "current", "repeated", "guard", "commit", "sync"}]
    /\ call \in [Procs -> Calls \cup {NoCall}]
    /\ held \in [Procs -> [Keys -> 0 .. MaxVersion]]
    /\ base \in [Procs -> 0 .. MaxVersion]
    /\ next \in [Procs -> Entries]

\* Entry t may directly follow entry s in a key's history.
Follows(t, s) == \/ /\ t.phase = "Pending"
                    /\ t.plan = s.plan
                    /\ t.about = s.about
                 \/ /\ t.phase = "Live"
                    /\ s.phase = "Pending"
                    /\ t.plan = s.proposed
                    /\ s.about # None => t.about # None
                 \/ /\ t = Gone
                    /\ Found(s)

\* Every version on disk was made from the version right before it, whoever
\* wrote the two: Begin never overwrites Plan or About, what is Live was the
\* proposal that was Pending, and a tombstone buries an entry that existed.
\* The reads a write is computed from happen two steps before its link.
HistoryIsChained ==
    \A k \in Keys : \A n \in Versions :
        disk[k][n] # NoFile =>
            /\ n > 1 => disk[k][n - 1] # NoFile
            /\ Follows(disk[k][n], At(disk[k], n - 1))

\* A write whose caller was told it succeeded stays on disk as it was
\* written: no process overwrites it and no power loss removes it.
AckedSurvives ==
    \A k \in Keys : \A n \in Versions :
        acked[k][n] # NoFile => disk[k][n] = acked[k][n]

\* The file ledger implements the contract: each link that claims a version
\* is one atomic compare-and-swap against the version its caller holds.
Contract == INSTANCE Ledger WITH
    entry <- [k \in Keys |-> Current(disk[k])],
    epoch <- [k \in Keys |-> Highest(disk[k])]

ImplementsContract == Contract!Spec

\* docs/developer/invariants.md, 7: the ledger entry is "written and fsynced
\* before a wire call", so a Begin that returned nil, the repeated one too,
\* stands on a version that is durable.
IntentIsDurable ==
    \A p \in Procs : pc[p] = "repeated" => base[p] <= synced[call[p].key]

\* Runs that differ only in these names are checked once.
Symmetry == Permutations(Procs)
=============================================================================
