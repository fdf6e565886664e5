-------------------------- MODULE FileLedgerProofs --------------------------
(***************************************************************************)
(* The file ledger, for any set of processes, keys and documents and any   *)
(* bound on versions: every key's history is chained, what was             *)
(* acknowledged survives, and the whole is an atomic compare-and-swap      *)
(* register.                                                               *)
(***************************************************************************)
EXTENDS FileLedger, TLAPS

\* n is the number of versions among the files of a key, and they are 1 .. n.
Top(files, n) == /\ n \in 0 .. MaxVersion
                 /\ \A m \in Versions : files[m] # NoFile <=> m <= n

\* The names on disk have no gaps.  Without it the highest name says nothing
\* about whether the name a writer is about to claim was ever taken.
Contiguous == \A k \in Keys : Top(disk[k], Highest(disk[k]))

\* Writing x after version b is what call c, presenting version v, may do.
MayWrite(files, c, v, b, x) == /\ b <= Highest(files)
                               /\ Admits(v, At(files, b), b)
                               /\ Applicable(c, At(files, b))
                               /\ x = Outcome(c, At(files, b))

\* An operation that has passed its guard: what it will write is computed
\* from version base, which is on disk and admitted the caller's version.
Guarded == \A p \in Procs : pc[p] = "commit" =>
              MayWrite(disk[call[p].key], call[p], held[p][call[p].key], base[p], next[p])

\* An operation between its link and its sync: its file is on disk.
Linked == \A p \in Procs : pc[p] = "sync" =>
              /\ base[p] + 1 \in Versions
              /\ disk[call[p].key][base[p] + 1] = next[p]

InCall == \A p \in Procs : pc[p] # "idle" => call[p] \in Calls

\* Only durable versions are acknowledged, and the durable ones are on disk.
Durable == \A k \in Keys : /\ synced[k] <= Highest(disk[k])
                           /\ \A n \in Versions :
                                 acked[k][n] # NoFile => n <= synced[k]

IInv == /\ TypeOK /\ InCall /\ Contiguous /\ Guarded /\ Linked
        /\ Durable /\ HistoryIsChained /\ AckedSurvives
----------------------------------------------------------------------------
(***************************************************************************)
(* Lemmas about entries and calls.                                         *)
(***************************************************************************)
\* Every call is to Begin, Resolve or Forget, on a key of the ledger.
LEMMA CallCases ==
    ASSUME NEW c \in Calls
    PROVE  /\ c.key \in Keys
           /\ \/ c.kind = "Begin" /\ c.doc \in Docs
              \/ c.kind = "Resolve" /\ c.ident \in IdentOrNone /\ c.about \in AboutOrNone
              \/ c.kind = "Forget"
  BY DEF Calls, BeginCall, ResolveCall, ForgetCall

\* A tombstone is an entry, and one that callers do not find.
LEMMA GoneType == Gone \in Entries /\ ~Found(Gone)
  BY DEF Gone, Entries, Phases, DocOrNone, IdentOrNone, AboutOrNone, Found

\* What Begin, Resolve and Forget write is an entry.
LEMMA OutcomeType ==
    ASSUME NEW c \in Calls, NEW e \in Entries
    PROVE  Outcome(c, e) \in Entries
  <1>1. CASE c.kind = "Begin"
    BY <1>1, CallCases DEF Outcome, Begun, Entries, Phases, DocOrNone, IdentOrNone
  <1>2. CASE c.kind = "Resolve"
    BY <1>2, CallCases DEF Outcome, Resolved, Entries, Phases, DocOrNone
  <1>3. CASE c.kind = "Forget"
    BY <1>3, GoneType DEF Outcome
  <1>4. QED
    BY <1>1, <1>2, <1>3, CallCases

\* What guard lets through writes an entry that may follow the one it read.
LEMMA OutcomeFollows ==
    ASSUME NEW c \in Calls, NEW e \in Entries, Applicable(c, e)
    PROVE  Follows(Outcome(c, e), e)
  <1>1. CASE c.kind = "Begin"
    BY <1>1 DEF Outcome, Begun, Follows
  <1>2. CASE c.kind = "Resolve"
    BY <1>2 DEF Outcome, Resolved, Follows, Applicable
  <1>3. CASE c.kind = "Forget"
    BY <1>3 DEF Outcome, Follows, Applicable
  <1>4. QED
    BY <1>1, <1>2, <1>3, CallCases

\* fileLedger.current finds the top of files that are contiguous from 1.
LEMMA TopIsHighest ==
    ASSUME NEW f, NEW n, Top(f, n)
    PROVE  Highest(f) = n
  <1> DEFINE Q(m) == /\ m # 0 => f[m] # NoFile
                     /\ \A i \in Versions : i > m => f[i] = NoFile
  <1>1. n \in 0 .. MaxVersion /\ Q(n)
    BY MaxVersionAssumption DEF Top, Versions
  <1>2. ASSUME NEW m \in 0 .. MaxVersion, Q(m)
        PROVE  m = n
    BY <1>2, MaxVersionAssumption DEF Top, Versions
  <1> HIDE DEF Q
  <1>3. (CHOOSE m \in 0 .. MaxVersion : Q(m)) = n
    BY <1>1, <1>2
  <1> QED
    BY <1>3 DEF Highest, Q

\* What fileLedger.current returns is an entry.
LEMMA CurrentType ==
    ASSUME NEW f \in [Versions -> Entries \cup {NoFile}], Top(f, Highest(f))
    PROVE  /\ Highest(f) \in 0 .. MaxVersion
           /\ Current(f) \in Entries
           /\ \A n \in 0 .. MaxVersion : n <= Highest(f) => At(f, n) \in Entries
  BY GoneType, MaxVersionAssumption DEF Top, Current, At, Versions

\* Claiming the name after the highest one.
LEMMA Claim ==
    ASSUME NEW f \in [Versions -> Entries \cup {NoFile}], Top(f, Highest(f)),
           NEW b \in 0 .. MaxVersion, b <= Highest(f), b + 1 \in Versions,
           f[b + 1] = NoFile,
           NEW x \in Entries
    PROVE  /\ b = Highest(f)
           /\ Top([f EXCEPT ![b + 1] = x], b + 1)
           /\ Highest([f EXCEPT ![b + 1] = x]) = b + 1
           /\ Current([f EXCEPT ![b + 1] = x]) = x
  <1>1. b = Highest(f)
    BY MaxVersionAssumption DEF Top, Versions
  <1>2. Top([f EXCEPT ![b + 1] = x], b + 1)
    BY <1>1, MaxVersionAssumption, NoFileAssumption DEF Top, Versions
  <1>3. Highest([f EXCEPT ![b + 1] = x]) = b + 1
    BY <1>2, TopIsHighest
  <1>4. Current([f EXCEPT ![b + 1] = x]) = x
    BY <1>3, MaxVersionAssumption DEF Current, At, Versions
  <1> QED
    BY <1>1, <1>2, <1>3, <1>4
----------------------------------------------------------------------------
(***************************************************************************)
(* The invariant.                                                          *)
(***************************************************************************)
\* The invariant holds of an empty state directory.
LEMMA InitIInv == Init => IInv
  <1> SUFFICES ASSUME Init PROVE IInv
    OBVIOUS
  <1>1. TypeOK
    BY GoneType, MaxVersionAssumption DEF Init, TypeOK, Versions
  <1>2. \A k \in Keys : \A n \in Versions : disk[k][n] = NoFile /\ acked[k][n] = NoFile
    BY DEF Init
  <1>3. ASSUME NEW k \in Keys
        PROVE  Top(disk[k], 0)
    <2>1. \A m \in Versions : disk[k][m] = NoFile /\ ~(m <= 0)
      BY <1>2, MaxVersionAssumption DEF Versions
    <2> QED
      BY <2>1, MaxVersionAssumption DEF Top
  <1>4. \A k \in Keys : Highest(disk[k]) = 0
    BY <1>3, TopIsHighest
  <1>5. Contiguous
    BY <1>3, <1>4 DEF Contiguous
  <1>6. InCall /\ Guarded /\ Linked
    BY DEF Init, InCall, Guarded, Linked
  <1>7. Durable /\ HistoryIsChained /\ AckedSurvives
    BY <1>2, <1>4 DEF Init, Durable, HistoryIsChained, AckedSurvives
  <1> QED
    BY <1>1, <1>5, <1>6, <1>7 DEF IInv

\* The state of every process other than p.
OthersUnchanged(p) ==
    \A q \in Procs \ {p} :
        /\ pc'[q] = pc[q] /\ call'[q] = call[q] /\ held'[q] = held[q]
        /\ base'[q] = base[q] /\ next'[q] = next[q]

\* A step of p that leaves the files and what is durable alone.
LEMMA QuietStep ==
    ASSUME IInv, TypeOK', UNCHANGED <<disk, synced, acked>>,
           NEW p \in Procs, OthersUnchanged(p),
           pc'[p] # "sync",
           pc'[p] = "commit" =>
              MayWrite(disk[call'[p].key], call'[p], held'[p][call'[p].key], base'[p], next'[p]),
           pc'[p] # "idle" => call'[p] \in Calls
    PROVE  IInv'
  <1>1. InCall'
    BY DEF IInv, InCall, OthersUnchanged
  <1>2. Guarded'
    BY DEF IInv, Guarded, OthersUnchanged
  <1>3. Linked'
    BY DEF IInv, Linked, OthersUnchanged
  <1>4. Durable' /\ AckedSurvives' /\ Contiguous' /\ HistoryIsChained'
    BY DEF IInv, Durable, AckedSurvives, Contiguous, HistoryIsChained
  <1> QED
    BY <1>1, <1>2, <1>3, <1>4 DEF IInv

\* Every step of a process, its death included, keeps the invariant.
LEMMA StepIInv ==
    ASSUME IInv, NEW p \in Procs, Step(p)
    PROVE  IInv'
  <1> USE DEF IInv
  <1>k. \A k \in Keys : /\ disk[k] \in [Versions -> Entries \cup {NoFile}]
                         /\ Top(disk[k], Highest(disk[k]))
                         /\ Highest(disk[k]) \in 0 .. MaxVersion
                         /\ Current(disk[k]) \in Entries
    BY CurrentType DEF Contiguous, TypeOK
  <1>r. ASSUME Return(p), UNCHANGED <<disk, synced, acked>>,
               \/ UNCHANGED held
               \/ held' = [held EXCEPT ![p] = [k \in Keys |-> 0]]
        PROVE  IInv'
    <2>0. held' \in [Procs -> [Keys -> 0 .. MaxVersion]]
      BY <1>r, MaxVersionAssumption DEF TypeOK
    <2>a. Return(p)
      BY <1>r
    <2>b. /\ pc' \in [Procs -> {"idle", "current", "repeated", "guard", "commit", "sync"}]
          /\ call' \in [Procs -> Calls \cup {NoCall}]
          /\ base' \in [Procs -> 0 .. MaxVersion]
          /\ next' \in [Procs -> Entries]
      BY <2>a, GoneType, MaxVersionAssumption DEF TypeOK, Return
    <2>1. TypeOK'
      BY <1>r, <2>0, <2>b DEF TypeOK
    <2>2. OthersUnchanged(p) /\ pc'[p] = "idle"
      BY <1>r DEF TypeOK, Return, OthersUnchanged
    <2> QED
      BY <1>r, <2>1, <2>2, QuietStep
  <1>1. ASSUME NEW k \in Keys, Get(p, k)
        PROVE  IInv'
    <2>1. TypeOK'
      BY <1>1, <1>k, MaxVersionAssumption DEF TypeOK, Get
    <2>2. OthersUnchanged(p) /\ pc'[p] = "idle"
      BY <1>1 DEF TypeOK, Get, OthersUnchanged
    <2> QED
      BY <1>1, <2>1, <2>2, QuietStep DEF Get
  <1>2. ASSUME NEW c \in Calls, Call(p, c)
        PROVE  IInv'
    <2>1. TypeOK'
      BY <1>2 DEF TypeOK, Call
    <2>2. OthersUnchanged(p) /\ pc'[p] \in {"current", "guard"} /\ call'[p] = c
      BY <1>2 DEF TypeOK, Call, OthersUnchanged
    <2> QED
      BY <1>2, <2>1, <2>2, QuietStep DEF Call
  <1>3. ASSUME BeginCurrent(p)
        PROVE  IInv'
    <2>1. call[p] \in Calls /\ call[p].key \in Keys
      BY <1>3, CallCases DEF InCall, BeginCurrent
    <2>2. TypeOK'
      BY <1>3, <1>k, <2>1 DEF TypeOK, BeginCurrent
    <2>3. OthersUnchanged(p) /\ pc'[p] \in {"repeated", "guard"} /\ call'[p] \in Calls
      BY <1>3, <2>1 DEF TypeOK, BeginCurrent, OthersUnchanged
    <2> QED
      BY <1>3, <2>2, <2>3, QuietStep DEF BeginCurrent
  <1>4. ASSUME Guard(p)
        PROVE  IInv'
    <2>1. call[p] \in Calls /\ call[p].key \in Keys
      BY <1>4, CallCases DEF InCall, Guard
    <2> DEFINE c == call[p]
               f == disk[call[p].key]
               e == Current(f)
    <2>2. CASE ~(Admits(held[p][c.key], e, Highest(f)) /\ Applicable(c, e))
      BY <1>4, <1>r, <2>2 DEF Guard
    <2>3. CASE Admits(held[p][c.key], e, Highest(f)) /\ Applicable(c, e)
      <3>1. /\ pc' = [pc EXCEPT ![p] = "commit"]
            /\ base' = [base EXCEPT ![p] = Highest(f)]
            /\ next' = [next EXCEPT ![p] = Outcome(c, e)]
            /\ UNCHANGED <<disk, synced, acked, held, call>>
        BY <1>4, <2>3 DEF Guard
      <3>2. Highest(f) \in 0 .. MaxVersion /\ Outcome(c, e) \in Entries
        BY <1>k, <2>1, OutcomeType
      <3>3. TypeOK'
        BY <3>1, <3>2 DEF TypeOK
      <3>4. OthersUnchanged(p) /\ pc'[p] = "commit" /\ call'[p] \in Calls
        BY <3>1, <2>1 DEF TypeOK, OthersUnchanged
      <3>5. MayWrite(f, c, held[p][c.key], Highest(f), Outcome(c, e))
        BY <2>3, <3>2 DEF MayWrite, Current
      <3>6. /\ call'[p] = c /\ held'[p] = held[p]
            /\ base'[p] = Highest(f) /\ next'[p] = Outcome(c, e)
        BY <3>1 DEF TypeOK
      <3> QED
        BY <3>1, <3>3, <3>4, <3>5, <3>6, QuietStep
    <2> QED
      BY <2>2, <2>3
  <1>5. ASSUME Link(p)
        PROVE  IInv'
    <2> DEFINE c == call[p]
               f == disk[c.key]
               b == base[p]
               g == [f EXCEPT ![b + 1] = next[p]]
    <2>1. /\ c \in Calls /\ c.key \in Keys /\ b \in 0 .. MaxVersion
          /\ next[p] \in Entries /\ b + 1 \in Versions
          /\ MayWrite(f, c, held[p][c.key], b, next[p])
      BY <1>5, CallCases DEF InCall, Link, TypeOK, Guarded
    <2>2. CASE f[b + 1] # NoFile
      BY <1>5, <1>r, <2>2 DEF Link
    <2>3. CASE f[b + 1] = NoFile
      <3>1. /\ disk' = [disk EXCEPT ![c.key] = g]
            /\ pc' = [pc EXCEPT ![p] = "sync"]
            /\ UNCHANGED <<call, base, next, synced, acked, held>>
        BY <1>5, <2>3 DEF Link
      <3>2. /\ b = Highest(f) /\ Top(g, b + 1) /\ Highest(g) = b + 1
        BY <1>k, <2>1, <2>3, Claim DEF MayWrite
      <3>3. /\ disk'[c.key] = g
            /\ \A k \in Keys : k # c.key => disk'[k] = disk[k]
        BY <3>1, <2>1 DEF TypeOK
      <3>4. /\ g \in [Versions -> Entries \cup {NoFile}]
            /\ g[b + 1] = next[p]
            /\ \A n \in Versions : n # b + 1 => g[n] = f[n]
            /\ \A n \in 0 .. MaxVersion : n # b + 1 => At(g, n) = At(f, n)
        BY <1>k, <2>1, MaxVersionAssumption DEF At, Versions
      <3>5. TypeOK'
        BY <3>1, <3>4 DEF TypeOK
      <3>6. InCall'
        BY <3>1, <2>1 DEF InCall, TypeOK
      <3>7. Contiguous'
        BY <3>2, <3>3 DEF Contiguous
      <3>8. Guarded'
        <4> SUFFICES ASSUME NEW q \in Procs, pc'[q] = "commit"
                     PROVE  MayWrite(disk'[call[q].key], call[q], held[q][call[q].key], base[q], next[q])
          BY <3>1 DEF Guarded
        <4>1. pc[q] = "commit" /\ q # p
          BY <3>1 DEF TypeOK
        <4>2. /\ call[q].key \in Keys /\ base[q] \in 0 .. MaxVersion
              /\ MayWrite(disk[call[q].key], call[q], held[q][call[q].key], base[q], next[q])
          BY <4>1, CallCases DEF InCall, TypeOK, Guarded
        <4>3. CASE call[q].key # c.key
          BY <4>2, <4>3, <3>3
        <4>4. CASE call[q].key = c.key
          <5>1. base[q] <= Highest(f) /\ base[q] # b + 1 /\ base[q] <= Highest(g)
            BY <4>2, <4>4, <3>2, <2>1, MaxVersionAssumption DEF MayWrite
          <5>2. At(g, base[q]) = At(f, base[q])
            BY <5>1, <3>4, <4>2
          <5> QED
            BY <4>2, <4>4, <5>1, <5>2, <3>3 DEF MayWrite
        <4> QED
          BY <4>3, <4>4
      <3>9. Linked'
        <4> SUFFICES ASSUME NEW q \in Procs, pc'[q] = "sync"
                     PROVE  base[q] + 1 \in Versions /\ disk'[call[q].key][base[q] + 1] = next[q]
          BY <3>1 DEF Linked
        <4>1. CASE q = p
          BY <4>1, <2>1, <3>3, <3>4
        <4>2. CASE q # p
          <5>1. /\ pc[q] = "sync" /\ call[q].key \in Keys /\ base[q] + 1 \in Versions
                /\ disk[call[q].key][base[q] + 1] = next[q] /\ next[q] # NoFile
            BY <4>2, <3>1, CallCases, NoFileAssumption DEF TypeOK, Linked, InCall
          <5>2. call[q].key = c.key => base[q] + 1 # b + 1
            BY <5>1, <2>3
          <5> QED
            BY <5>1, <5>2, <3>3, <3>4
        <4> QED
          BY <4>1, <4>2
      <3>10. Durable'
        <4> SUFFICES ASSUME NEW k \in Keys
                     PROVE  synced[k] <= Highest(disk'[k])
          BY <3>1 DEF Durable
        <4>1. synced[k] <= Highest(disk[k]) /\ synced[k] \in 0 .. MaxVersion
          BY DEF Durable, TypeOK
        <4> QED
          BY <4>1, <3>2, <3>3, <2>1, MaxVersionAssumption
      <3>11. AckedSurvives'
        BY <3>1, <3>3, <3>4, <2>3 DEF AckedSurvives
      <3>12. Follows(next[p], At(f, b))
        <4>1. At(f, b) \in Entries
          BY <1>k, <2>1, CurrentType DEF MayWrite
        <4> QED
          BY <4>1, <2>1, OutcomeFollows DEF MayWrite
      <3>13. HistoryIsChained'
        <4> SUFFICES ASSUME NEW k \in Keys, NEW n \in Versions, disk'[k][n] # NoFile
                     PROVE  /\ n > 1 => disk'[k][n - 1] # NoFile
                            /\ Follows(disk'[k][n], At(disk'[k], n - 1))
          BY DEF HistoryIsChained
        <4>1. CASE k # c.key
          BY <4>1, <3>3 DEF HistoryIsChained
        <4>2. CASE k = c.key /\ n # b + 1
          <5>1. f[n] # NoFile /\ g[n] = f[n]
            BY <4>2, <3>3, <3>4
          <5>2. n <= b
            BY <5>1, <3>2, <1>k, <2>1 DEF Top
          <5>3. n - 1 \in 0 .. MaxVersion /\ n - 1 # b + 1
            BY <5>2, <2>1, MaxVersionAssumption DEF Versions
          <5>4. At(g, n - 1) = At(f, n - 1) /\ (n > 1 => g[n - 1] = f[n - 1])
            BY <5>3, <3>4, MaxVersionAssumption DEF Versions
          <5> QED
            BY <4>2, <5>1, <5>4, <3>3 DEF HistoryIsChained
        <4>3. CASE k = c.key /\ n = b + 1
          <5>1. At(g, b) = At(f, b)
            BY <3>4, <2>1, MaxVersionAssumption
          <5>2. b > 0 => g[b] # NoFile
            BY <3>2, <2>1, MaxVersionAssumption DEF Top, Versions
          <5>3. n - 1 = b
            BY <4>3, <2>1, MaxVersionAssumption
          <5> QED
            BY <4>3, <5>1, <5>2, <5>3, <3>3, <3>4, <3>12, <2>1, MaxVersionAssumption
        <4> QED
          BY <4>1, <4>2, <4>3
      <3> QED
        BY <3>5, <3>6, <3>7, <3>8, <3>9, <3>10, <3>11, <3>13
    <2> QED
      BY <2>2, <2>3
  <1>6. ASSUME SyncDir(p)
        PROVE  IInv'
    <2> DEFINE k == call[p].key
               n == base[p] + 1
    <2>1. /\ call[p] \in Calls /\ k \in Keys /\ n \in Versions
          /\ next[p] \in Entries /\ disk[k][n] = next[p] /\ next[p] # NoFile
      BY <1>6, CallCases, NoFileAssumption DEF SyncDir, InCall, TypeOK, Linked
    <2>2. n <= Highest(disk[k])
      BY <2>1, <1>k DEF Top
    <2>3. /\ synced' = [synced EXCEPT ![k] = Highest(disk[k])]
          /\ acked' = [acked EXCEPT ![k][n] = next[p]]
          /\ Return(p) /\ UNCHANGED <<disk, held>>
      BY <1>6 DEF SyncDir
    <2>4. TypeOK'
      BY <2>1, <2>3, <1>k, GoneType, MaxVersionAssumption DEF TypeOK, Return
    <2>5. OthersUnchanged(p) /\ pc'[p] = "idle"
      BY <2>3 DEF TypeOK, Return, OthersUnchanged
    <2>6. InCall' /\ Guarded' /\ Linked'
      BY <2>3, <2>5 DEF InCall, Guarded, Linked, OthersUnchanged
    <2>7. Contiguous' /\ HistoryIsChained'
      BY <2>3 DEF Contiguous, HistoryIsChained
    <2>8. Durable'
      <3> SUFFICES ASSUME NEW j \in Keys
                   PROVE  /\ synced'[j] <= Highest(disk[j])
                          /\ \A i \in Versions : acked'[j][i] # NoFile => i <= synced'[j]
        BY <2>3 DEF Durable
      <3>1. CASE j # k
        BY <3>1, <2>1, <2>3 DEF Durable, TypeOK
      <3>2. CASE j = k
        <4>1. synced'[j] = Highest(disk[k]) /\ Highest(disk[k]) \in 0 .. MaxVersion
          BY <3>2, <2>1, <2>3, <1>k DEF TypeOK
        <4>2. \A i \in Versions : i # n => acked'[j][i] = acked[j][i]
          BY <3>2, <2>1, <2>3 DEF TypeOK
        <4>3. /\ synced[k] <= Highest(disk[k]) /\ synced[k] \in 0 .. MaxVersion
              /\ \A i \in Versions : acked[k][i] # NoFile => i <= synced[k]
          BY <2>1 DEF Durable, TypeOK
        <4> QED
          BY <3>2, <4>1, <4>2, <4>3, <2>1, <2>2, MaxVersionAssumption DEF Versions
      <3> QED
        BY <3>1, <3>2
    <2>9. AckedSurvives'
      <3> SUFFICES ASSUME NEW j \in Keys, NEW i \in Versions, acked'[j][i] # NoFile
                   PROVE  disk[j][i] = acked'[j][i]
        BY <2>3 DEF AckedSurvives
      <3>1. CASE j = k /\ i = n
        BY <3>1, <2>1, <2>3 DEF TypeOK
      <3>2. CASE ~(j = k /\ i = n)
        BY <3>2, <2>1, <2>3 DEF TypeOK, AckedSurvives
      <3> QED
        BY <3>1, <3>2
    <2> QED
      BY <2>4, <2>6, <2>7, <2>8, <2>9
  <1>7. ASSUME AckRepeat(p)
        PROVE  IInv'
    BY <1>7, <1>r DEF AckRepeat
  <1>8. ASSUME Fail(p)
        PROVE  IInv'
    BY <1>8, <1>r DEF Fail
  <1>9. ASSUME Crash(p)
        PROVE  IInv'
    BY <1>9, <1>r DEF Crash
  <1> QED
    BY <1>1, <1>2, <1>3, <1>4, <1>5, <1>6, <1>7, <1>8, <1>9 DEF Step

\* Losing the names linked since the last sync keeps the invariant.
LEMMA PowerLossIInv ==
    ASSUME IInv, PowerLoss
    PROVE  IInv'
  <1> USE DEF IInv
  <1>1. PICK keep \in [Keys -> 0 .. MaxVersion] :
            /\ \A k \in Keys : synced[k] <= keep[k] /\ keep[k] <= Highest(disk[k])
            /\ disk' = [k \in Keys |-> [n \in Versions |->
                            IF n <= keep[k] THEN disk[k][n] ELSE NoFile]]
            /\ synced' = keep
    BY DEF PowerLoss
  <1>2. /\ pc' = [p \in Procs |-> "idle"] /\ call' = [p \in Procs |-> NoCall]
        /\ held' = [p \in Procs |-> [k \in Keys |-> 0]]
        /\ base' = [p \in Procs |-> 0] /\ next' = [p \in Procs |-> Gone]
        /\ UNCHANGED acked
    BY DEF PowerLoss
  <1>3. TypeOK'
    BY <1>1, <1>2, GoneType, MaxVersionAssumption DEF TypeOK
  <1>4. InCall' /\ Guarded' /\ Linked'
    BY <1>2 DEF InCall, Guarded, Linked
  <1>5. \A k \in Keys : Top(disk[k], Highest(disk[k]))
    BY DEF Contiguous
  <1>6. ASSUME NEW k \in Keys
        PROVE  Top(disk'[k], keep[k]) /\ Highest(disk'[k]) = keep[k]
    <2>1. /\ keep[k] \in 0 .. MaxVersion /\ keep[k] <= Highest(disk[k])
          /\ Highest(disk[k]) \in 0 .. MaxVersion
      BY <1>1, <1>5 DEF Top
    <2>2. ASSUME NEW m \in Versions
          PROVE  disk'[k][m] # NoFile <=> m <= keep[k]
      <3>1. disk'[k][m] = IF m <= keep[k] THEN disk[k][m] ELSE NoFile
        BY <1>1
      <3>2. m <= keep[k] => disk[k][m] # NoFile
        BY <1>5, <2>1, MaxVersionAssumption DEF Top, Versions
      <3> QED
        BY <3>1, <3>2
    <2>3. Top(disk'[k], keep[k])
      BY <2>1, <2>2 DEF Top
    <2> QED
      BY <2>3, TopIsHighest
  <1>7. Contiguous'
    BY <1>6 DEF Contiguous
  <1>8. Durable'
    <2> SUFFICES ASSUME NEW k \in Keys
                 PROVE  /\ keep[k] <= Highest(disk'[k])
                        /\ \A n \in Versions : acked[k][n] # NoFile => n <= keep[k]
      BY <1>1, <1>2 DEF Durable
    <2>1. keep[k] \in 0 .. MaxVersion /\ synced[k] \in 0 .. MaxVersion /\ synced[k] <= keep[k]
      BY <1>1 DEF TypeOK
    <2> QED
      BY <2>1, <1>6, MaxVersionAssumption DEF Durable, Versions
  <1>9. AckedSurvives'
    <2> SUFFICES ASSUME NEW k \in Keys, NEW n \in Versions, acked[k][n] # NoFile
                 PROVE  disk'[k][n] = acked[k][n]
      BY <1>2 DEF AckedSurvives
    <2>1. keep[k] \in 0 .. MaxVersion /\ synced[k] \in 0 .. MaxVersion /\ synced[k] <= keep[k]
      BY <1>1 DEF TypeOK
    <2>2. n <= keep[k]
      BY <2>1, MaxVersionAssumption DEF Durable, Versions
    <2> QED
      BY <1>1, <2>2 DEF AckedSurvives
  <1>10. HistoryIsChained'
    <2> SUFFICES ASSUME NEW k \in Keys, NEW n \in Versions, disk'[k][n] # NoFile
                 PROVE  /\ n > 1 => disk'[k][n - 1] # NoFile
                        /\ Follows(disk'[k][n], At(disk'[k], n - 1))
      BY DEF HistoryIsChained
    <2>1. n <= keep[k] /\ keep[k] \in 0 .. MaxVersion
      BY <1>1, <1>6 DEF Top
    <2>2. disk'[k][n] = disk[k][n] /\ (n > 1 => disk'[k][n - 1] = disk[k][n - 1])
      BY <1>1, <2>1, MaxVersionAssumption DEF Versions
    <2>3. At(disk'[k], n - 1) = At(disk[k], n - 1)
      BY <2>2, MaxVersionAssumption DEF At, Versions
    <2> QED
      BY <2>2, <2>3 DEF HistoryIsChained
  <1> QED
    BY <1>3, <1>4, <1>7, <1>8, <1>9, <1>10

\* IInv is inductive: for any number of processes and keys and with power
\* lost at any moment.
THEOREM Invariance == PowerSpec => []IInv
  <1>1. IInv /\ [Next \/ PowerLoss]_vars => IInv'
    <2> SUFFICES ASSUME IInv, [Next \/ PowerLoss]_vars
                 PROVE  IInv'
      OBVIOUS
    <2>1. CASE Next
      BY <2>1, StepIInv DEF Next
    <2>2. CASE PowerLoss
      BY <2>2, PowerLossIInv
    <2>3. CASE UNCHANGED vars
      BY <2>3 DEF vars, IInv, TypeOK, InCall, Contiguous, Guarded, Linked,
                  Durable, HistoryIsChained, AckedSurvives
    <2> QED
      BY <2>1, <2>2, <2>3
  <1> QED
    BY InitIInv, <1>1, PTL DEF PowerSpec

\* Every key's history is chained: a version was made from the one right
\* before it, whatever happened between its writer's read and its link.
THEOREM ChainedHistory == PowerSpec => []HistoryIsChained
  BY Invariance, PTL DEF IInv

\* What a caller was told succeeded is never lost or overwritten.
THEOREM Durability == PowerSpec => []AckedSurvives
  BY Invariance, PTL DEF IInv

\* The ledger's state is well typed.
THEOREM TypeCorrect == PowerSpec => []TypeOK
  BY Invariance, PTL DEF IInv
----------------------------------------------------------------------------
(***************************************************************************)
(* Refinement: the contract's register is the highest version.             *)
(***************************************************************************)
\* The contract's vocabulary is the file ledger's own.
LEMMA ContractDefs ==
    /\ Contract!Gone = Gone
    /\ Contract!Calls = Calls
    /\ \A e : Contract!Found(e) <=> Found(e)
    /\ \A v, e, n : Contract!Admits(v, e, n) <=> Admits(v, e, n)
    /\ \A c, e : Contract!Applicable(c, e) = Applicable(c, e)
    /\ \A c, e : Contract!Outcome(c, e) = Outcome(c, e)
  BY DEF Contract!Gone, Gone, Contract!Calls, Calls, Contract!BeginCall, BeginCall,
         Contract!ResolveCall, ResolveCall, Contract!ForgetCall, ForgetCall,
         Contract!IdentOrNone, IdentOrNone, Contract!AboutOrNone, AboutOrNone,
         Contract!Found, Found, Contract!Admits, Admits,
         Contract!Applicable, Applicable, Contract!Outcome, Outcome,
         Contract!Begun, Begun, Contract!Resolved, Resolved

\* An empty state directory is an empty register.
LEMMA ContractInit == Init => Contract!Init
  <1> SUFFICES ASSUME Init PROVE Contract!Init
    OBVIOUS
  <1>1. \A k \in Keys : Highest(disk[k]) = 0
    <2> SUFFICES ASSUME NEW k \in Keys PROVE Highest(disk[k]) = 0
      OBVIOUS
    <2>1. \A m \in Versions : disk[k][m] = NoFile /\ ~(m <= 0)
      BY MaxVersionAssumption DEF Init, Versions
    <2>2. Top(disk[k], 0)
      BY <2>1, MaxVersionAssumption DEF Top
    <2> QED
      BY <2>2, TopIsHighest
  <1>2. \A k \in Keys : Current(disk[k]) = Gone
    BY <1>1 DEF Current, At
  <1>3. held = [p \in Procs |-> [k \in Keys |-> 0]]
    BY DEF Init
  <1> QED
    BY <1>1, <1>2, <1>3, ContractDefs DEF Contract!Init

\* The link that claims a name is the contract's Write.
LEMMA LinkIsWrite ==
    ASSUME IInv, NEW p \in Procs, Link(p), disk' # disk
    PROVE  Contract!Write(p, call[p]) /\ call[p] \in Calls
  <1> DEFINE c == call[p]
             f == disk[c.key]
             b == base[p]
             g == [f EXCEPT ![b + 1] = next[p]]
  <1>1. /\ c \in Calls /\ c.key \in Keys /\ b \in 0 .. MaxVersion
        /\ next[p] \in Entries /\ b + 1 \in Versions
        /\ MayWrite(f, c, held[p][c.key], b, next[p])
        /\ f \in [Versions -> Entries \cup {NoFile}]
        /\ Top(f, Highest(f))
    BY CallCases DEF IInv, InCall, Link, TypeOK, Guarded, Contiguous
  <1>2. f[b + 1] = NoFile /\ disk' = [disk EXCEPT ![c.key] = g] /\ UNCHANGED held
    BY DEF Link
  <1>3. b = Highest(f) /\ Highest(g) = b + 1 /\ Current(g) = next[p]
    BY <1>1, <1>2, Claim DEF MayWrite
  <1>4. disk'[c.key] = g /\ (\A k \in Keys : k # c.key => disk'[k] = disk[k])
    BY <1>1, <1>2 DEF IInv, TypeOK
  <1> DEFINE ent == [k \in Keys |-> Current(disk[k])]
             ent2 == [k \in Keys |-> Current(disk'[k])]
             epo == [k \in Keys |-> Highest(disk[k])]
             epo2 == [k \in Keys |-> Highest(disk'[k])]
  <1>5. ent[c.key] = At(f, b) /\ epo[c.key] = b
    BY <1>1, <1>3 DEF Current
  <1>6. ent2 = [ent EXCEPT ![c.key] = Outcome(c, ent[c.key])]
    <2>1. next[p] = Outcome(c, ent[c.key])
      BY <1>1, <1>5 DEF MayWrite
    <2> QED
      BY <2>1, <1>1, <1>3, <1>4
  <1>7. epo2 = [epo EXCEPT ![c.key] = epo[c.key] + 1]
    BY <1>1, <1>3, <1>4, <1>5
  <1>8. Admits(held[p][c.key], ent[c.key], epo[c.key]) /\ Applicable(c, ent[c.key])
    BY <1>1, <1>5 DEF MayWrite
  <1> HIDE DEF c
  <1> QED
    BY <1>1, <1>2, <1>6, <1>7, <1>8, ContractDefs DEF Contract!Write, c

\* Every step of a process is a step of the contract, or none.
LEMMA StepSimulates ==
    ASSUME IInv, NEW p \in Procs, Step(p)
    PROVE  [Contract!Next]_(Contract!vars)
  <1>s. ASSUME UNCHANGED <<disk, held>>
        PROVE  UNCHANGED Contract!vars
    BY <1>s DEF Contract!vars
  <1>1. ASSUME NEW k \in Keys, Get(p, k)
        PROVE  Contract!Get(p, k)
    BY <1>1, ContractDefs DEF Get, Contract!Get
  <1>2. ASSUME Crash(p)
        PROVE  Contract!Crash(p)
    BY <1>2 DEF Crash, Contract!Crash
  <1>3. CASE \E k \in Keys : Get(p, k)
    BY <1>1, <1>3 DEF Contract!Next
  <1>4. CASE Crash(p)
    BY <1>2, <1>4 DEF Contract!Next
  <1>5. CASE Link(p)
    <2>1. CASE disk' = disk
      BY <1>5, <1>s, <2>1 DEF Link
    <2>2. CASE disk' # disk
      BY <1>5, <2>2, LinkIsWrite, ContractDefs DEF Contract!Next
    <2> QED
      BY <2>1, <2>2
  <1>6. CASE \/ \E c \in Calls : Call(p, c)
             \/ BeginCurrent(p) \/ Guard(p) \/ SyncDir(p) \/ AckRepeat(p) \/ Fail(p)
    BY <1>6, <1>s DEF Call, BeginCurrent, Guard, SyncDir, AckRepeat, Fail
  <1> QED
    BY <1>3, <1>4, <1>5, <1>6 DEF Step

\* The file ledger is an atomic compare-and-swap register: a write succeeds
\* exactly when the version its caller holds is still the current one.
THEOREM Refinement == Spec => ImplementsContract
  <1>1. IInv /\ [Next]_vars => [Contract!Next]_(Contract!vars)
    <2> SUFFICES ASSUME IInv, [Next]_vars
                 PROVE  [Contract!Next]_(Contract!vars)
      OBVIOUS
    <2>1. CASE Next
      BY <2>1, StepSimulates DEF Next
    <2>2. CASE UNCHANGED vars
      BY <2>2 DEF vars, Contract!vars
    <2> QED
      BY <2>1, <2>2
  <1>2. Spec => PowerSpec
    <2>1. [Next]_vars => [Next \/ PowerLoss]_vars
      OBVIOUS
    <2> QED
      BY <2>1, PTL DEF Spec, PowerSpec
  <1> QED
    BY ContractInit, Invariance, <1>1, <1>2, PTL DEF Spec, ImplementsContract, Contract!Spec
============================================================================
