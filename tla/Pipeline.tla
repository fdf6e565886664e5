------------------------------ MODULE Pipeline ------------------------------
(***************************************************************************)
(* internal/system_g/bind/join.go and internal/system_g/plan/section.go:   *)
(* two stages of a plan and the cursor its caller reads.                   *)
(*                                                                         *)
(* The first stage is a bind join: it starts a goroutine for every outer   *)
(* row as the row arrives; each takes a slot of the run's fan-out limiter, *)
(* holds it while its inner operator yields rows, and appends them to a    *)
(* bounded buffer.  The second stage is another join, which takes rows as  *)
(* fast as they come, or (Sectioned) a section: it takes one row, runs     *)
(* every member on it, each a join of its own over the same limiter, and   *)
(* takes the next row when all members are done.                           *)
(*                                                                         *)
(* A task is one member's work on one row; a plain join has one member.    *)
(* Between the stages stands one buffer for the join's, the flatten's and  *)
(* the tap's, which hand rows on one by one.                               *)
(***************************************************************************)
EXTENDS Naturals, Sequences, Functions, FiniteSets, FiniteSetTheorems, TLAPS

CONSTANTS
    OuterRows,      \* rows of the plan's root
    PerRow,         \* rows the inner operator yields for each
    NMembers,       \* how many members the second stage has
    Sectioned,      \* whether the second stage is a section
    FanOut,         \* slots of the fan-out limiter
    Sections,       \* slots of the section limiter
    Ahead,          \* capacity of a buffer, 0 = unbounded
    MayFail         \* whether requests fail and the caller leaves early

MemberIds == 1 .. NMembers
Items == OuterRows \X (1 .. PerRow)
Tasks == Items \X MemberIds

VARIABLES
    row, sent,      \* row[r]: first-stage goroutine of r; sent[r]: rows it emitted
    buf1, end1,     \* the buffer between the stages; "open", "eof" or "err"
    read1,          \* its reader is still there
    failed1,        \* the first stage has cancelled its rows
    current,        \* items the second stage is working on
    task,           \* task[t]: where the goroutine of task t is
    failed2,        \* the second stage has seen a failure
    buf2, end2, read2,
    out             \* what the caller has read

vars == <<row, sent, buf1, end1, read1, failed1, current, task, failed2, buf2, end2, read2, out>>
stage1 == <<row, sent, end1, failed1>>
stage2 == <<current, task, failed2, end2>>

Init == /\ row = [r \in OuterRows |-> "none"]
        /\ sent = [r \in OuterRows |-> 0]
        /\ buf1 = << >> /\ end1 = "open" /\ read1 = TRUE /\ failed1 = FALSE
        /\ current = {} /\ task = [t \in Tasks |-> "none"] /\ failed2 = FALSE
        /\ buf2 = << >> /\ end2 = "open" /\ read2 = TRUE
        /\ out = << >>

Room(buf) == Ahead = 0 \/ Len(buf) < Ahead

Holding == Cardinality({r \in OuterRows : row[r] = "run"})
         + Cardinality({t \in Tasks : task[t] = "run"})
InSection == Cardinality({t \in Tasks : task[t] \in {"slot", "run"}})
Free == Holding < FanOut

(***************************************************************************)
(* The first stage.                                                        *)
(***************************************************************************)
Move(r, where) == /\ row' = [row EXCEPT ![r] = where]
                  /\ UNCHANGED <<buf1, end1, read1, buf2, read2, out>> /\ UNCHANGED stage2

\* The outer cursor yields a row, and its goroutine starts at once.
Launch(r) == /\ row[r] = "none" /\ ~failed1 /\ Move(r, "slot") /\ UNCHANGED <<sent, failed1>>

\* runRow takes a slot, even under a cancelled context if the select says so.
RowStarts(r) == row[r] = "slot" /\ Free /\ Move(r, "run") /\ UNCHANGED <<sent, failed1>>

\* Mutant of RowEmits: a full buffer takes no notice and loses the row.
RowEmits_Drops(r) ==
    /\ row[r] = "run" /\ sent[r] < PerRow
    /\ sent' = [sent EXCEPT ![r] = @ + 1]
    /\ buf1' = IF read1 /\ Room(buf1) THEN Append(buf1, <<r, sent[r] + 1>>) ELSE buf1
    /\ UNCHANGED <<row, end1, failed1, read1, buf2, read2, out>> /\ UNCHANGED stage2

\* One inner row is emitted.  A full buffer blocks; a reader that has gone
\* does not stop the row, which runs on for nothing.
RowEmits(r) ==
    /\ row[r] = "run" /\ sent[r] < PerRow
    /\ ~read1 \/ Room(buf1)
    /\ sent' = [sent EXCEPT ![r] = @ + 1]
    /\ buf1' = IF read1 THEN Append(buf1, <<r, sent[r] + 1>>) ELSE buf1
    /\ UNCHANGED <<row, end1, failed1, read1, buf2, read2, out>> /\ UNCHANGED stage2

RowEnds(r) == /\ row[r] = "run" /\ sent[r] = PerRow
              /\ Move(r, "ok") /\ UNCHANGED <<sent, failed1>>

\* A request fails, and the join cancels its other rows.
RowFails(r) == row[r] = "run" /\ MayFail /\ failed1' = TRUE /\ Move(r, "err") /\ UNCHANGED sent

\* A row sees the cancellation, waiting for a slot, for room or at work.
RowCancelled(r) == /\ row[r] \in {"slot", "run"} /\ failed1
                   /\ Move(r, "err") /\ UNCHANGED <<sent, failed1>>

\* wg.Wait: the join completes its buffer when every row it started is done.
Complete1 ==
    /\ end1 = "open"
    /\ \A r \in OuterRows : row[r] \in IF failed1 THEN {"none", "ok", "err"} ELSE {"ok"}
    /\ end1' = IF failed1 THEN "err" ELSE "eof"
    /\ UNCHANGED <<row, sent, failed1, buf1, read1, buf2, read2, out>> /\ UNCHANGED stage2

(***************************************************************************)
(* The second stage.                                                       *)
(***************************************************************************)
Of(x) == {t \in Tasks : t[1] = x}
Done(x) == \A t \in Of(x) : task[t] \in {"ok", "err"}

\* A join takes a row whenever there is one; a section when it is done with
\* the one before.
MayTake == ~failed2 /\ (Sectioned => current = {})

Take ==
    /\ end2 = "open" /\ MayTake /\ buf1 # << >>
    /\ current' = current \cup {Head(buf1)}
    /\ task' = [t \in Tasks |-> IF t[1] # Head(buf1) THEN task[t]
                                ELSE IF Sectioned THEN "due" ELSE "slot"]
    /\ buf1' = Tail(buf1)
    /\ UNCHANGED <<read1, failed2, end2, buf2, read2, out>> /\ UNCHANGED stage1

Step(t, where) == /\ task' = [task EXCEPT ![t] = where]
                  /\ UNCHANGED <<current, end2, buf1, read1, read2, out>> /\ UNCHANGED stage1

\* section.run starts members in order, each behind a section slot; once a
\* failure is known the rest do not run.
MemberStarts(t) ==
    /\ task[t] = "due" /\ (InSection < Sections \/ failed2)
    /\ \A u \in Of(t[1]) : u[2] < t[2] => task[u] # "due"
    /\ Step(t, IF failed2 THEN "ok" ELSE "slot") /\ UNCHANGED <<failed2, buf2>>

TaskStarts(t) == task[t] = "slot" /\ Free /\ Step(t, "run") /\ UNCHANGED <<failed2, buf2>>

\* A join's task appends its row while it holds its slot; a member's row
\* goes to the section, which is reading it.
TaskEnds(t) ==
    /\ task[t] = "run"
    /\ IF Sectioned \/ ~read2 THEN UNCHANGED buf2
       ELSE Room(buf2) /\ buf2' = Append(buf2, t[1])
    /\ Step(t, "ok") /\ UNCHANGED failed2

\* A request fails.  A join cancels its other rows; a section's members run
\* to their end.
TaskFails(t) == task[t] = "run" /\ MayFail /\ failed2' = TRUE /\ Step(t, "err") /\ UNCHANGED buf2

TaskCancelled(t) == /\ task[t] \in {"slot", "run"} /\ failed2 /\ ~Sectioned
                    /\ Step(t, "err") /\ UNCHANGED <<failed2, buf2>>

\* A section whose members are all done appends the combination of their
\* rows; a caller that has gone ends it.
Combine(x) ==
    /\ Sectioned /\ x \in current /\ Done(x) /\ ~failed2
    /\ IF read2 THEN /\ Room(buf2) /\ buf2' = Append(buf2, x)
                     /\ UNCHANGED failed2
                ELSE failed2' = TRUE /\ UNCHANGED buf2
    /\ current' = current \ {x}
    /\ UNCHANGED <<task, end2, buf1, read1, read2, out>> /\ UNCHANGED stage1

\* The stage completes: at its upstream's end or after a failure, and when
\* what it started is done.  Its own deferred Close lets its upstream go.
Complete2 ==
    /\ end2 = "open" /\ (failed2 \/ (end1 # "open" /\ buf1 = << >>))
    /\ \A x \in current : Done(x) /\ (Sectioned => failed2)
    /\ end2' = IF failed2 \/ end1 = "err" THEN "err" ELSE "eof"
    /\ read1' = FALSE
    /\ UNCHANGED <<current, task, failed2, buf1, buf2, read2, out>> /\ UNCHANGED stage1

(***************************************************************************)
(* The caller.                                                             *)
(***************************************************************************)
CallerReads == /\ read2 /\ buf2 # << >>
               /\ out' = Append(out, Head(buf2)) /\ buf2' = Tail(buf2)
               /\ UNCHANGED <<buf1, read1, read2>> /\ UNCHANGED stage1 /\ UNCHANGED stage2

\* The caller closes the cursor: at its end, or before.
CallerCloses(early) ==
    /\ read2 /\ IF early THEN MayFail ELSE end2 # "open" /\ buf2 = << >>
    /\ read2' = FALSE
    /\ UNCHANGED <<buf1, read1, buf2, out>> /\ UNCHANGED stage1 /\ UNCHANGED stage2

RowStep(r) == Launch(r) \/ RowStarts(r) \/ RowEmits(r) \/ RowEnds(r) \/ RowCancelled(r)
TaskStep(t) == MemberStarts(t) \/ TaskStarts(t) \/ TaskEnds(t) \/ TaskCancelled(t)
Stage2Step == Take \/ Complete2 \/ \E x \in Items : Combine(x)
CallerStep == CallerReads \/ CallerCloses(FALSE)

Next == \/ \E r \in OuterRows : RowStep(r)
        \/ \E t \in Tasks : TaskStep(t)
        \/ Complete1 \/ Stage2Step \/ CallerStep
        \/ CallerCloses(TRUE)
        \/ \E r \in OuterRows : RowFails(r)
        \/ \E t \in Tasks : TaskFails(t)

\* What must go on: some goroutine that can take a step does, and every call
\* returns.  Nobody is obliged to fail, to cancel or to leave early.
Progress == \/ \E r \in OuterRows : RowStep(r)
            \/ \E t \in Tasks : TaskStep(t)
            \/ Complete1 \/ Stage2Step \/ CallerStep

Spec == Init /\ [][Next]_vars /\ WF_vars(Progress)

(***************************************************************************)
(* Properties.                                                             *)
(***************************************************************************)
Ended == {"open", "eof", "err"}
TypeOK ==
    /\ row \in [OuterRows -> {"none", "slot", "run", "ok", "err"}]
    /\ sent \in [OuterRows -> 0 .. PerRow]
    /\ Range(buf1) \cup Range(buf2) \cup Range(out) \cup current \subseteq Items
    /\ Ahead # 0 => Len(buf1) <= Ahead /\ Len(buf2) <= Ahead
    /\ end1 \in Ended /\ end2 \in Ended
    /\ {read1, read2, failed1, failed2} \subseteq BOOLEAN
    /\ task \in [Tasks -> {"none", "due", "slot", "run", "ok", "err"}]

\* A caller that read to a clean end has every row of the join exactly once:
\* no failure on the way, and no row dropped or repeated under back-pressure.
CleanEndIsComplete ==
    end2 = "eof" /\ read2 /\ buf2 = << >> =>
        /\ Range(out) = Items /\ Len(out) = Cardinality(Items)
        /\ ~failed1 /\ ~failed2

\* "A failure starts nothing more": once a section knows of a failure no
\* member starts and no row is taken.
FailureStartsNothing ==
    Sectioned /\ failed2 => /\ current' \subseteq current
                            /\ \A t \in Tasks : task[t] = "due" => task'[t] # "slot"

\* The cursor ends and no goroutine of the plan is left behind, whether the
\* caller reads to the end, leaves early or a request fails.
Quiet == /\ end1 # "open" /\ end2 # "open" /\ ~read2
         /\ \A r \in OuterRows : row[r] \notin {"slot", "run"}
         /\ \A t \in Tasks : task[t] \notin {"slot", "run"}

\* Rows of the join hold every fan-out slot and wait for room in the buffer the section
\* reads, whose members wait for a slot: runRow keeps its slot while it emits
\* (join.go:236), so a limiter apart for sections does not keep the pool from running out.
Starved == /\ Sectioned /\ Holding = FanOut /\ read1 /\ ~Room(buf1)
           /\ \A r \in OuterRows : row[r] = "run" => sent[r] < PerRow
           /\ \E t \in Tasks : task[t] = "slot"
           /\ \A t \in Tasks : task[t] # "run"
-----------------------------------------------------------------------------
(***************************************************************************)
(* Two stages for any rows, members, slots and buffers. Every emitted item *)
(* is in exactly one place: the first buffer, its tasks, the second buffer *)
(* or the caller's hands, so an end without failure finds them all with    *)
(* the caller.                                                             *)
(***************************************************************************)
Instance ==
    /\ PerRow \in Nat /\ Ahead \in Nat /\ NMembers \in Nat \ {0} /\ Sectioned \in BOOLEAN
    /\ ~Sectioned => NMembers = 1

Places == {"none", "due", "slot", "run", "ok", "err"}
Typed ==
    /\ row \in [OuterRows -> {"none", "slot", "run", "ok", "err"}]
    /\ sent \in [OuterRows -> 0 .. PerRow]
    /\ buf1 \in Seq(Items) /\ buf2 \in Seq(Items) /\ out \in Seq(Items)
    /\ current \in SUBSET Items
    /\ end1 \in Ended /\ end2 \in Ended
    /\ read1 \in BOOLEAN /\ read2 \in BOOLEAN /\ failed1 \in BOOLEAN /\ failed2 \in BOOLEAN
    /\ task \in [Tasks -> Places]

Holds(s, x) == \E i \in 1 .. Len(s) : s[i] = x
Unique(s) == \A i, j \in 1 .. Len(s) : s[i] = s[j] => i = j
Sent(x) == x[2] <= sent[x[1]]
Delivered(x) == Holds(buf2, x) \/ Holds(out, x)

\* The first stage.
Emitted == /\ \A r \in OuterRows : row[r] = "ok" => sent[r] = PerRow
           /\ end1 = "eof" => ~failed1 /\ \A r \in OuterRows : row[r] = "ok"

Waiting == /\ Unique(buf1)
           /\ \A x \in Items : Holds(buf1, x) => Sent(x)
           /\ \A t \in Tasks : Holds(buf1, t[1]) => task[t] = "none"

Taken == /\ \A t \in Tasks : task[t] # "none" => Sent(t[1])
         /\ read1 => \A t \in Tasks : Sent(t[1]) => Holds(buf1, t[1]) \/ task[t] # "none"
         /\ ~read1 => end2 # "open"

Working == /\ \A t \in Tasks : task[t] = "err" => failed2
           /\ \A t \in Tasks : task[t] = "due" => Sectioned
           /\ \A t \in Tasks : task[t] \in {"due", "slot", "run"} => t[1] \in current
           /\ \A t \in Tasks : t[1] \in current => task[t] # "none"

Given(t) == IF Sectioned THEN task[t] # "none" /\ t[1] \notin current ELSE task[t] = "ok"

Handed == /\ Unique(buf2) /\ Unique(out)
          /\ \A x \in Items : ~(Holds(buf2, x) /\ Holds(out, x))
          /\ \A t \in Tasks : Delivered(t[1]) <=> Given(t)

Clean == end2 = "eof" => /\ ~failed2 /\ end1 = "eof" /\ buf1 = << >>
                         /\ \A t \in Tasks : task[t] = "ok"
                         /\ Sectioned => current = {}

IInv == Typed /\ Emitted /\ Waiting /\ Taken /\ Working /\ (read2 => Handed) /\ Clean

\* What a sequence holds once something is appended to it.
LEMMA Appended ==
  ASSUME NEW S, NEW s \in Seq(S), NEW x \in S
  PROVE  /\ Append(s, x) \in Seq(S)
         /\ \A y : Holds(Append(s, x), y) <=> Holds(s, y) \/ y = x
         /\ Unique(s) /\ ~Holds(s, x) => Unique(Append(s, x))
<1> DEFINE u == Append(s, x)
<1>1. /\ u \in Seq(S) /\ Len(s) \in Nat /\ Len(u) = Len(s) + 1 /\ u[Len(s) + 1] = x
      /\ \A i \in 1 .. Len(s) : u[i] = s[i]
  OBVIOUS
<1>2. \A i \in 1 .. Len(u) : i \in 1 .. Len(s) \/ i = Len(s) + 1
  BY <1>1
<1>3. /\ Len(s) + 1 \in 1 .. Len(u)
      /\ \A i \in 1 .. Len(s) : i \in 1 .. Len(u)
  BY <1>1
<1> HIDE DEF u
<1>4. \A y : Holds(u, y) <=> Holds(s, y) \/ y = x
  BY <1>1, <1>2, <1>3 DEF Holds
<1>5. Unique(s) /\ ~Holds(s, x) => Unique(u)
  BY <1>1, <1>2, <1>3 DEF Holds, Unique
<1> QED
  BY <1>1, <1>4, <1>5 DEF u

\* What the rest of a sequence holds.
LEMMA Rest ==
  ASSUME NEW S, NEW s \in Seq(S), s # << >>
  PROVE  /\ Head(s) \in S /\ Tail(s) \in Seq(S)
         /\ \A y : Holds(s, y) <=> Holds(Tail(s), y) \/ y = Head(s)
         /\ Unique(s) => Unique(Tail(s)) /\ ~Holds(Tail(s), Head(s))
<1> DEFINE u == Tail(s)
<1>1. /\ u \in Seq(S) /\ Len(s) \in Nat \ {0} /\ Len(u) = Len(s) - 1 /\ Head(s) = s[1] /\ Head(s) \in S
      /\ \A i \in 1 .. Len(u) : u[i] = s[i + 1]
  OBVIOUS
<1>2. /\ \A i \in 1 .. Len(u) : i + 1 \in 1 .. Len(s) /\ i + 1 # 1
      /\ \A i \in 1 .. Len(s) : i # 1 => i - 1 \in 1 .. Len(u) /\ (i - 1) + 1 = i
      /\ \A i, j \in 1 .. Len(u) : i + 1 = j + 1 => i = j
      /\ 1 \in 1 .. Len(s)
  BY <1>1
<1>3. \A i \in 1 .. Len(s) : i # 1 => u[i - 1] = s[i]
  BY <1>1, <1>2
<1> HIDE DEF u
<1>4. \A y : Holds(s, y) <=> Holds(u, y) \/ y = Head(s)
  BY <1>1, <1>2, <1>3 DEF Holds
<1>5. Unique(s) => Unique(u) /\ ~Holds(u, Head(s))
  BY <1>1, <1>2, <1>3 DEF Holds, Unique
<1> QED
  BY <1>1, <1>4, <1>5 DEF u

\* An empty sequence holds nothing.
LEMMA Nothing == \A y : ~Holds(<< >>, y)
  BY DEF Holds

\* An item has a row and a place in it, a task an item; a join has one task for each.
LEMMA Parts ==
  ASSUME Instance
  PROVE  /\ \A t \in Tasks : t[1] \in Items /\ t[2] \in MemberIds
         /\ \A x \in Items : x[1] \in OuterRows /\ x[2] \in 1 .. PerRow /\ x = <<x[1], x[2]>>
         /\ \A x \in Items : <<x, 1>> \in Tasks /\ <<x, 1>>[1] = x
         /\ ~Sectioned => \A t, u \in Tasks : t[1] = u[1] => t = u
<1>1. 1 \in MemberIds /\ (~Sectioned => MemberIds = {1})
  BY DEF Instance, MemberIds
<1>2. /\ \A t \in Tasks : t[1] \in Items /\ t[2] \in MemberIds /\ t = <<t[1], t[2]>>
      /\ \A x \in Items : <<x, 1>> \in Tasks /\ <<x, 1>>[1] = x
  BY <1>1 DEF Tasks
<1>3. \A x \in Items : x[1] \in OuterRows /\ x[2] \in 1 .. PerRow /\ x = <<x[1], x[2]>>
  BY DEF Items
<1>4. ASSUME ~Sectioned, NEW t \in Tasks, NEW u \in Tasks, t[1] = u[1] PROVE t = u
  <2>1. t[2] = 1 /\ u[2] = 1
    BY <1>1, <1>2, <1>4
  <2>2. t = <<t[1], t[2]>> /\ u = <<u[1], u[2]>>
    BY <1>2
  <2> QED
    BY <1>4, <2>1, <2>2
<1> QED
  BY <1>2, <1>3, <1>4

\* Nothing has been emitted, taken or handed on.
LEMMA InitEstablishes == ASSUME Instance, Init PROVE IInv
<1>1. Typed
  <2>1. /\ row \in [OuterRows -> {"none", "slot", "run", "ok", "err"}]
        /\ sent \in [OuterRows -> 0 .. PerRow] /\ task \in [Tasks -> Places]
    BY DEF Init, Instance, Places
  <2>2. /\ buf1 \in Seq(Items) /\ buf2 \in Seq(Items) /\ out \in Seq(Items)
        /\ current \in SUBSET Items /\ end1 \in Ended /\ end2 \in Ended
    BY DEF Init, Ended
  <2>3. read1 \in BOOLEAN /\ read2 \in BOOLEAN /\ failed1 \in BOOLEAN /\ failed2 \in BOOLEAN
    BY DEF Init
  <2> QED
    BY <2>1, <2>2, <2>3 DEF Typed
<1>2. Emitted /\ Clean
  BY DEF Init, Emitted, Clean
<1>3. Waiting
  BY Nothing DEF Init, Waiting, Unique
<1>4. /\ \A t \in Tasks : task[t] = "none"
      /\ \A x \in Items : ~Sent(x)
  BY Parts DEF Init, Sent, Instance
<1>5. Taken
  BY <1>4, Parts DEF Init, Taken
<1>6. Working
  BY <1>4 DEF Init, Working
<1>7. Handed
  BY <1>4, Nothing DEF Init, Handed, Unique, Delivered, Given
<1> QED
  BY <1>1, <1>2, <1>3, <1>5, <1>6, <1>7 DEF IInv

\* A row of the first stage goes on, its items where they were.
LEMMA RowMoves ==
  ASSUME IInv, NEW r \in OuterRows, NEW where \in {"slot", "run", "ok", "err"},
         row[r] # "ok", where = "ok" => sent[r] = PerRow,
         row' = [row EXCEPT ![r] = where], failed1' \in BOOLEAN,
         UNCHANGED <<sent, buf1, end1, read1, current, task, failed2, buf2, end2, read2, out>>
  PROVE  IInv'
<1>1. Typed /\ Emitted
  BY DEF IInv
<1>2. Typed'
  BY <1>1 DEF Typed
<1>3. end1 # "eof"
  BY <1>1 DEF Emitted
<1>4. Emitted'
  BY <1>1, <1>3 DEF Emitted, Typed
<1>5. Waiting' /\ Taken'
  BY DEF IInv, Waiting, Taken, Holds, Unique, Sent
<1>6. Working' /\ Clean'
  BY DEF IInv, Working, Clean
<1>7. (read2 => Handed)'
  BY DEF IInv, Handed, Holds, Unique, Delivered, Given
<1> QED
  BY <1>2, <1>4, <1>5, <1>6, <1>7 DEF IInv

\* Each step of a row but its emission.
LEMMA RowKeeps ==
  ASSUME IInv, NEW r \in OuterRows,
         Launch(r) \/ RowStarts(r) \/ RowEnds(r) \/ RowFails(r) \/ RowCancelled(r)
  PROVE  IInv'
<1>1. \E where \in {"slot", "run", "ok", "err"} :
        /\ row[r] # "ok" /\ (where = "ok" => sent[r] = PerRow)
        /\ row' = [row EXCEPT ![r] = where] /\ failed1' \in BOOLEAN
  BY DEF Launch, RowStarts, RowEnds, RowFails, RowCancelled, Move, IInv, Typed
<1>2. UNCHANGED <<sent, buf1, end1, read1, current, task, failed2, buf2, end2, read2, out>>
  <2>1. UNCHANGED <<sent, buf1, end1, read1, buf2, read2, out>> /\ UNCHANGED stage2
    BY DEF Launch, RowStarts, RowEnds, RowFails, RowCancelled, Move
  <2> QED
    BY <2>1 DEF stage2
<1> QED
  BY <1>1, <1>2, RowMoves

\* An item emitted is a new one, which nobody has.
LEMMA RowEmitsKeeps == ASSUME Instance, IInv, NEW r \in OuterRows, RowEmits(r) PROVE IInv'
<1>0. Typed /\ Emitted /\ Waiting /\ Taken
  BY DEF IInv
<1>1. /\ row[r] = "run" /\ sent[r] < PerRow /\ sent' = [sent EXCEPT ![r] = @ + 1]
      /\ buf1' = IF read1 THEN Append(buf1, <<r, sent[r] + 1>>) ELSE buf1
      /\ UNCHANGED <<row, end1, failed1, read1, buf2, read2, out, current, task, failed2, end2>>
  BY DEF RowEmits, stage2
<1>2. /\ sent[r] \in Nat /\ PerRow \in Nat /\ sent' \in [OuterRows -> 0 .. PerRow]
      /\ \A q \in OuterRows : sent[q] \in Nat /\ sent'[q] = IF q = r THEN sent[r] + 1 ELSE sent[q]
  BY <1>0, <1>1 DEF Instance, Typed
<1> DEFINE x == <<r, sent[r] + 1>>
<1>3. x \in Items /\ x[1] = r /\ x[2] = sent[r] + 1
  BY <1>1, <1>2 DEF Items
<1>4. \A y \in Items : Sent(y)' <=> Sent(y) \/ y = x
  <2> TAKE y \in Items
  <2>1. y[1] \in OuterRows /\ y[2] \in Nat /\ y = <<y[1], y[2]>>
    BY Parts, <1>2
  <2>2. CASE y[1] = r
    BY <1>2, <2>1, <2>2 DEF Sent
  <2>3. CASE y[1] # r
    BY <1>2, <1>3, <2>1, <2>3 DEF Sent
  <2> QED
    BY <2>2, <2>3
<1>5. ~Sent(x)
  BY <1>2, <1>3 DEF Sent
<1> HIDE DEF x
<1>6. ~Holds(buf1, x) /\ \A t \in Tasks : t[1] = x => task[t] = "none"
  BY <1>0, <1>3, <1>5 DEF Waiting, Taken
<1>7. /\ read1 => buf1' = Append(buf1, x)
      /\ ~read1 => buf1' = buf1
  BY <1>1 DEF x
<1>8. /\ buf1 \in Seq(Items) /\ buf1' \in Seq(Items)
      /\ read1 => \A y : Holds(buf1, y)' <=> Holds(buf1, y) \/ y = x
      /\ ~read1 => \A y : Holds(buf1, y)' <=> Holds(buf1, y)
      /\ Unique(buf1)'
  <2>1. buf1 \in Seq(Items) /\ Unique(buf1)
    BY <1>0 DEF Typed, Waiting
  <2>2. CASE read1
    <3>1. /\ Append(buf1, x) \in Seq(Items) /\ Unique(Append(buf1, x))
          /\ \A y : Holds(Append(buf1, x), y) <=> Holds(buf1, y) \/ y = x
      BY <1>3, <1>6, <2>1, Appended
    <3>2. buf1' = Append(buf1, x)
      BY <1>7, <2>2
    <3>3. \A y : Holds(buf1, y)' <=> Holds(buf1', y)
      BY DEF Holds
    <3>4. Unique(buf1)' <=> Unique(buf1')
      BY DEF Unique
    <3> QED
      BY <2>1, <2>2, <3>1, <3>2, <3>3, <3>4
  <2>3. CASE ~read1
    BY <1>7, <2>1, <2>3
  <2> QED
    BY <2>1, <2>2, <2>3
<1>9. Typed' /\ Emitted'
  <2>1. Typed'
    BY <1>0, <1>1, <1>2, <1>8 DEF Typed
  <2>2. Emitted'
    BY <1>0, <1>1, <1>2 DEF Emitted
  <2> QED
    BY <2>1, <2>2
<1>10. Waiting'
  <2>1. \A y \in Items : Holds(buf1, y)' => Sent(y)'
    BY <1>0, <1>4, <1>8 DEF Waiting, Typed
  <2>2. \A t \in Tasks : Holds(buf1, t[1])' => task'[t] = "none"
    BY <1>0, <1>1, <1>6, <1>8 DEF Waiting, Typed
  <2> QED
    BY <1>8, <2>1, <2>2 DEF Waiting
<1>11. Taken'
  <2>1. \A t \in Tasks : t[1] \in Items
    BY Parts
  <2>2. \A t \in Tasks : task'[t] # "none" => Sent(t[1])'
    BY <1>0, <1>1, <1>4, <2>1 DEF Taken
  <2>3. read1' => \A t \in Tasks : Sent(t[1])' => Holds(buf1, t[1])' \/ task'[t] # "none"
    BY <1>0, <1>1, <1>4, <1>8, <2>1 DEF Taken
  <2>4. ~read1' => end2' # "open"
    BY <1>0, <1>1 DEF Taken
  <2> QED
    BY <2>2, <2>3, <2>4 DEF Taken
<1>12. Working'
  BY <1>1 DEF IInv, Working
<1>13. (read2 => Handed)'
  BY <1>1 DEF IInv, Handed, Holds, Unique, Delivered, Given
<1>14. Clean'
  <2>1. end1 # "eof"
    BY <1>0, <1>1 DEF Emitted
  <2> QED
    BY <1>1, <2>1 DEF IInv, Clean
<1> QED
  BY <1>9, <1>10, <1>11, <1>12, <1>13, <1>14 DEF IInv

\* A first stage that ends cleanly has emitted everything.
LEMMA Complete1Keeps == ASSUME IInv, Complete1 PROVE IInv'
<1>1. /\ end1 = "open" /\ end1' = (IF failed1 THEN "err" ELSE "eof")
      /\ ~failed1 => \A r \in OuterRows : row[r] = "ok"
      /\ UNCHANGED <<row, sent, failed1, buf1, read1, buf2, read2, out, current, task, failed2, end2>>
  BY DEF Complete1, stage2
<1>2. Typed'
  BY <1>1 DEF IInv, Typed, Ended
<1>3. Emitted'
  BY <1>1 DEF IInv, Emitted
<1>4. Waiting' /\ Taken'
  BY <1>1 DEF IInv, Waiting, Taken, Holds, Unique, Sent
<1>5. Working' /\ Clean'
  BY <1>1 DEF IInv, Working, Clean
<1>6. (read2 => Handed)'
  BY <1>1 DEF IInv, Handed, Holds, Unique, Delivered, Given
<1> QED
  BY <1>2, <1>3, <1>4, <1>5, <1>6 DEF IInv

\* An item goes from the buffer to its tasks.
LEMMA TakeKeeps == ASSUME Instance, IInv, Take PROVE IInv'
<1>0. Typed /\ Waiting /\ Taken /\ Working
  BY DEF IInv
<1> DEFINE x == Head(buf1)
<1>1. /\ end2 = "open" /\ buf1 # << >> /\ current' = current \cup {x} /\ buf1' = Tail(buf1)
      /\ task' = [t \in Tasks |-> IF t[1] # x THEN task[t] ELSE IF Sectioned THEN "due" ELSE "slot"]
      /\ UNCHANGED <<row, sent, end1, failed1, read1, failed2, end2, buf2, read2, out>>
  BY DEF Take, stage1
<1>2. /\ x \in Items /\ buf1' \in Seq(Items) /\ Unique(buf1')
      /\ \A y : Holds(buf1, y) <=> Holds(buf1', y) \/ y = x
      /\ ~Holds(buf1', x)
  <2>1. buf1 \in Seq(Items) /\ Unique(buf1)
    BY <1>0 DEF Typed, Waiting
  <2> QED
    BY <1>1, <2>1, Rest
<1> HIDE DEF x
<1>3. Sent(x) /\ \A t \in Tasks : t[1] = x => task[t] = "none"
  BY <1>0, <1>2 DEF Waiting
<1>4. \A t \in Tasks : /\ t[1] # x => task'[t] = task[t]
                       /\ t[1] = x => task'[t] \in {"due", "slot"} /\ (task'[t] = "due" => Sectioned)
  BY <1>1
<1>5. \A y \in Items : Sent(y)' <=> Sent(y)
  BY <1>1 DEF Sent
<1>6. \A t \in Tasks : t[1] \in Items
  BY Parts
<1>7. Typed'
  <2>1. task' \in [Tasks -> Places]
    BY <1>0, <1>1 DEF Typed, Places
  <2> QED
    BY <1>0, <1>1, <1>2, <2>1 DEF Typed
<1>8. Waiting'
  <2>1. \A y \in Items : Holds(buf1, y)' => Sent(y)'
    BY <1>0, <1>2, <1>5 DEF Waiting
  <2>2. \A t \in Tasks : Holds(buf1, t[1])' => task'[t] = "none"
    BY <1>0, <1>2, <1>4, <1>6 DEF Waiting
  <2> QED
    BY <1>2, <2>1, <2>2 DEF Waiting
<1>9. Taken'
  <2>1. \A t \in Tasks : task'[t] # "none" => Sent(t[1])'
    BY <1>0, <1>3, <1>4, <1>5, <1>6 DEF Taken
  <2>2. read1' => \A t \in Tasks : Sent(t[1])' => Holds(buf1, t[1])' \/ task'[t] # "none"
    BY <1>0, <1>1, <1>2, <1>4, <1>5, <1>6 DEF Taken
  <2> QED
    BY <1>0, <1>1, <2>1, <2>2 DEF Taken
<1>10. Working'
  BY <1>0, <1>1, <1>4 DEF Working
<1>11. (read2 => Handed)'
  <2>1. \A t \in Tasks : Given(t)' <=> Given(t)
    BY <1>1, <1>3, <1>4 DEF Given
  <2> QED
    BY <1>1, <2>1 DEF IInv, Handed, Holds, Unique, Delivered
<1>12. Emitted' /\ Clean'
  BY <1>1 DEF IInv, Emitted, Clean
<1> QED
  BY <1>7, <1>8, <1>9, <1>10, <1>11, <1>12 DEF IInv

\* A goroutine of the second stage goes on with an item it has.
LEMMA TaskMoves ==
  ASSUME Instance, IInv, NEW t \in Tasks, NEW where \in {"slot", "run", "ok", "err"},
         task[t] \in {"due", "slot", "run"}, task' = [task EXCEPT ![t] = where],
         failed2' \in BOOLEAN, failed2 => failed2', where = "err" => failed2',
         where = "ok" => Sectioned \/ ~read2,
         UNCHANGED <<row, sent, end1, failed1, current, end2, buf1, read1, buf2, read2, out>>
  PROVE  IInv'
<1>0. Typed /\ Waiting /\ Taken /\ Working /\ Clean
  BY DEF IInv
<1>1. \A u \in Tasks : task'[u] = IF u = t THEN where ELSE task[u]
  BY <1>0 DEF Typed
<1>2. t[1] \in current /\ t[1] \in Items /\ end2 # "eof"
  BY <1>0, Parts DEF Working, Clean
<1>3. \A u \in Tasks : task'[u] # "none" <=> task[u] # "none"
  BY <1>1
<1>4. Typed'
  <2>1. task' \in [Tasks -> Places]
    BY <1>0 DEF Typed, Places
  <2> QED
    BY <1>0, <2>1 DEF Typed
<1>5. Waiting' /\ Taken'
  <2>1. \A u \in Tasks : task'[u] = "none" <=> task[u] = "none"
    BY <1>3
  <2>2. Waiting'
    BY <1>0, <2>1 DEF Waiting, Unique, Holds, Sent
  <2>3. Taken'
    BY <1>0, <2>1 DEF Taken, Holds, Sent
  <2> QED
    BY <2>2, <2>3
<1>6. Working'
  BY <1>0, <1>1, <1>2 DEF Working
<1>7. (read2 => Handed)'
  <2> SUFFICES ASSUME read2' PROVE Handed'
    OBVIOUS
  <2>1. read2 /\ (where = "ok" => Sectioned)
    OBVIOUS
  <2>2. \A u \in Tasks : Given(u)' <=> Given(u)
    BY <1>1, <1>2, <1>3, <2>1 DEF Given
  <2> QED
    BY <2>1, <2>2 DEF IInv, Handed, Holds, Unique, Delivered
<1>8. Emitted' /\ Clean'
  BY <1>2 DEF IInv, Emitted, Clean
<1> QED
  BY <1>4, <1>5, <1>6, <1>7, <1>8 DEF IInv

\* Each step of a task that hands nothing to the caller.
LEMMA TaskKeeps ==
  ASSUME Instance, IInv, NEW t \in Tasks,
         \/ MemberStarts(t) \/ TaskStarts(t) \/ TaskFails(t) \/ TaskCancelled(t)
         \/ TaskEnds(t) /\ (Sectioned \/ ~read2)
  PROVE  IInv'
<1>0. Typed /\ Working
  BY DEF IInv
<1>1. \E where \in {"slot", "run", "ok", "err"} :
        /\ task[t] \in {"due", "slot", "run"} /\ task' = [task EXCEPT ![t] = where]
        /\ failed2' \in BOOLEAN /\ (failed2 => failed2') /\ (where = "err" => failed2')
        /\ where = "ok" => Sectioned \/ ~read2
  <2>1. CASE MemberStarts(t)
    BY <1>0, <2>1 DEF MemberStarts, Step, Typed, Working
  <2>2. CASE TaskStarts(t)
    BY <1>0, <2>2 DEF TaskStarts, Step, Typed
  <2>3. CASE TaskFails(t)
    BY <1>0, <2>3 DEF TaskFails, Step, Typed
  <2>4. CASE TaskCancelled(t)
    BY <1>0, <2>4 DEF TaskCancelled, Step, Typed
  <2>5. CASE TaskEnds(t) /\ (Sectioned \/ ~read2)
    BY <1>0, <2>5 DEF TaskEnds, Step, Typed
  <2> QED
    BY <2>1, <2>2, <2>3, <2>4, <2>5
<1>2. UNCHANGED <<row, sent, end1, failed1, current, end2, buf1, read1, buf2, read2, out>>
  <2>1. UNCHANGED <<current, end2, buf1, read1, read2, out>> /\ UNCHANGED stage1 /\ UNCHANGED buf2
    BY DEF MemberStarts, TaskStarts, TaskFails, TaskCancelled, TaskEnds, Step
  <2> QED
    BY <2>1 DEF stage1
<1> QED
  BY <1>1, <1>2, TaskMoves

\* An item handed to the caller's buffer, whose tasks are exactly those that now count as given.
LEMMA Handing ==
  ASSUME IInv, read2, NEW x \in Items, buf2' = Append(buf2, x), out' = out, ~Delivered(x),
         \A u \in Tasks : Given(u)' <=> Given(u) \/ u[1] = x
  PROVE  Handed' /\ buf2' \in Seq(Items)
<1>1. Handed /\ buf2 \in Seq(Items)
  BY DEF IInv, Typed
<1>2. ~Holds(buf2, x) /\ ~Holds(out, x)
  BY DEF Delivered
<1>3. /\ buf2' \in Seq(Items) /\ Unique(buf2')
      /\ \A y : Holds(buf2', y) <=> Holds(buf2, y) \/ y = x
  BY <1>1, <1>2, Appended DEF Handed
<1>4. /\ \A y : Holds(buf2, y)' <=> Holds(buf2, y) \/ y = x
      /\ \A y : Holds(out, y)' <=> Holds(out, y)
      /\ Unique(buf2)' /\ Unique(out)'
  <2>1. /\ \A y : Holds(buf2, y)' <=> Holds(buf2', y)
        /\ \A y : Holds(out, y)' <=> Holds(out, y)
    BY DEF Holds
  <2>2. (Unique(buf2)' <=> Unique(buf2')) /\ (Unique(out)' <=> Unique(out))
    BY DEF Unique
  <2> QED
    BY <1>1, <1>3, <2>1, <2>2 DEF Handed
<1>5. \A y \in Items : ~(Holds(buf2, y)' /\ Holds(out, y)')
  BY <1>1, <1>2, <1>4 DEF Handed
<1>6. \A u \in Tasks : Delivered(u[1])' <=> Delivered(u[1]) \/ u[1] = x
  BY <1>4 DEF Delivered
<1>7. \A u \in Tasks : Delivered(u[1])' <=> Given(u)'
  BY <1>1, <1>6 DEF Handed
<1> QED
  BY <1>3, <1>4, <1>5, <1>7 DEF Handed

\* The end of a task: a join hands the item on.
LEMMA TaskEndsKeeps == ASSUME Instance, IInv, NEW t \in Tasks, TaskEnds(t) PROVE IInv'
<1>0. Typed /\ Waiting /\ Taken /\ Working /\ Clean
  BY DEF IInv
<1>1. CASE Sectioned \/ ~read2
  BY <1>1, TaskKeeps
<1>2. CASE ~Sectioned /\ read2
  <2>1. /\ task[t] = "run" /\ task' = [task EXCEPT ![t] = "ok"] /\ buf2' = Append(buf2, t[1])
        /\ UNCHANGED <<row, sent, end1, failed1, current, failed2, end2, buf1, read1, read2, out>>
    BY <1>2 DEF TaskEnds, Step, stage1
  <2>2. \A u \in Tasks : task'[u] = IF u = t THEN "ok" ELSE task[u]
    BY <1>0, <2>1 DEF Typed
  <2>3. /\ t[1] \in current /\ t[1] \in Items /\ end2 # "eof"
        /\ \A u \in Tasks : u[1] = t[1] => u = t
    BY <1>0, <1>2, <2>1, Parts DEF Working, Clean
  <2>4. ~Delivered(t[1])
    BY <1>2, <2>1 DEF IInv, Handed, Given
  <2>5. \A u \in Tasks : Given(u)' <=> Given(u) \/ u[1] = t[1]
    BY <1>2, <2>2, <2>3 DEF Given
  <2>6. Handed' /\ buf2' \in Seq(Items)
    BY <1>2, <2>1, <2>3, <2>4, <2>5, Handing
  <2>7. Typed'
    <3>1. task' \in [Tasks -> Places]
      BY <1>0, <2>1 DEF Typed, Places
    <3> QED
      BY <1>0, <2>1, <2>6, <3>1 DEF Typed
  <2>8. Waiting' /\ Taken'
    <3>1. \A u \in Tasks : task'[u] = "none" <=> task[u] = "none"
      BY <2>1, <2>2
    <3>2. Waiting'
      BY <1>0, <2>1, <3>1 DEF Waiting, Unique, Holds, Sent
    <3>3. Taken'
      BY <1>0, <2>1, <3>1 DEF Taken, Holds, Sent
    <3> QED
      BY <3>2, <3>3
  <2>9. Working'
    BY <1>0, <2>1, <2>2 DEF Working
  <2>10. Emitted' /\ Clean'
    BY <2>1, <2>3 DEF IInv, Emitted, Clean
  <2> QED
    BY <2>6, <2>7, <2>8, <2>9, <2>10 DEF IInv
<1> QED
  BY <1>1, <1>2

\* A section hands an item on when it lets go of it.
LEMMA CombineKeeps == ASSUME Instance, IInv, NEW x \in Items, Combine(x) PROVE IInv'
<1>0. Typed /\ Waiting /\ Taken /\ Working /\ Clean
  BY DEF IInv
<1>1. /\ Sectioned /\ x \in current /\ Done(x) /\ ~failed2 /\ current' = current \ {x}
      /\ UNCHANGED <<row, sent, end1, failed1, task, end2, buf1, read1, read2, out>>
      /\ read2 => buf2' = Append(buf2, x) /\ failed2' = failed2
      /\ ~read2 => buf2' = buf2 /\ failed2' = TRUE
  BY DEF Combine, stage1
<1>2. end2 # "eof"
  BY <1>0, <1>1 DEF Clean
<1>3. \A u \in Tasks : u[1] = x => task[u] \in {"ok", "err"}
  BY <1>1 DEF Done, Of
<1>4. ASSUME read2 PROVE Handed' /\ buf2' \in Seq(Items)
  <2>1. \A u \in Tasks : Given(u)' <=> Given(u) \/ u[1] = x
    BY <1>0, <1>1 DEF Given, Working
  <2>2. ~Delivered(x)
    <3>1. <<x, 1>> \in Tasks /\ <<x, 1>>[1] = x
      BY Parts
    <3>2. ~Given(<<x, 1>>)
      BY <1>1, <3>1 DEF Given
    <3> QED
      BY <1>4, <3>1, <3>2 DEF IInv, Handed
  <2> QED
    BY <1>1, <1>4, <2>1, <2>2, Handing
<1>5. Typed'
  <2>1. failed2' \in BOOLEAN /\ buf2' \in Seq(Items)
    <3>1. CASE read2
      BY <1>0, <1>1, <1>4, <3>1 DEF Typed
    <3>2. CASE ~read2
      BY <1>0, <1>1, <3>2 DEF Typed
    <3> QED
      BY <3>1, <3>2
  <2> QED
    BY <1>0, <1>1, <2>1 DEF Typed
<1>6. Waiting' /\ Taken'
  BY <1>0, <1>1 DEF Waiting, Taken, Unique, Holds, Sent
<1>7. Working'
  <2>1. \A u \in Tasks : task'[u] = "err" => failed2'
    BY <1>0, <1>1 DEF Working
  <2> QED
    BY <1>0, <1>1, <1>3, <2>1 DEF Working
<1>8. Emitted' /\ Clean'
  BY <1>1, <1>2 DEF IInv, Emitted, Clean
<1>9. (read2 => Handed)'
  BY <1>1, <1>4
<1> QED
  BY <1>5, <1>6, <1>7, <1>8, <1>9 DEF IInv

\* A second stage that ends cleanly has done every task.
LEMMA Complete2Keeps == ASSUME Instance, IInv, Complete2 PROVE IInv'
<1>0. Typed /\ Emitted /\ Waiting /\ Taken /\ Working
  BY DEF IInv
<1>1. /\ end2 = "open" /\ (failed2 \/ (end1 # "open" /\ buf1 = << >>))
      /\ \A x \in current : Done(x) /\ (Sectioned => failed2)
      /\ end2' = (IF failed2 \/ end1 = "err" THEN "err" ELSE "eof") /\ read1' = FALSE
      /\ UNCHANGED <<row, sent, end1, failed1, current, task, failed2, buf1, buf2, read2, out>>
  BY DEF Complete2, stage1
<1>2. Typed'
  <2>1. read1' \in BOOLEAN
    BY <1>1
  <2>2. end2' \in Ended
    BY <1>1 DEF Ended
  <2> QED
    BY <1>0, <1>1, <2>1, <2>2 DEF Typed
<1>3. Waiting'
  BY <1>0, <1>1 DEF Waiting, Unique, Holds, Sent
<1>4. Taken'
  BY <1>0, <1>1 DEF Taken, Sent
<1>5. Working' /\ Emitted'
  BY <1>0, <1>1 DEF Working, Emitted
<1>6. (read2 => Handed)'
  BY <1>1 DEF IInv, Handed, Holds, Unique, Delivered, Given
<1>7. Clean'
  <2> SUFFICES ASSUME end2' = "eof"
               PROVE  /\ ~failed2 /\ end1 = "eof" /\ buf1 = << >>
                      /\ \A t \in Tasks : task[t] = "ok"
                      /\ Sectioned => current = {}
    BY <1>1 DEF Clean
  <2>1. ~failed2 /\ end1 = "eof" /\ buf1 = << >>
    BY <1>0, <1>1 DEF Typed, Ended
  <2>2. read1
    BY <1>0, <1>1 DEF Taken
  <2>3. ASSUME NEW t \in Tasks PROVE task[t] = "ok"
    <3>1. t[1] \in Items /\ t[1][1] \in OuterRows /\ t[1][2] \in 1 .. PerRow
      BY Parts
    <3>2. sent[t[1][1]] = PerRow
      BY <1>0, <2>1, <3>1 DEF Emitted
    <3>3. Sent(t[1])
      BY <3>1, <3>2 DEF Sent, Instance
    <3>4. task[t] # "none"
      BY <1>0, <2>1, <2>2, <3>3, Nothing DEF Taken
    <3>5. task[t] \notin {"due", "slot", "run"}
      BY <1>0, <1>1 DEF Working, Done, Of
    <3>6. task[t] # "err"
      BY <1>0, <2>1 DEF Working
    <3> QED
      BY <1>0, <3>4, <3>5, <3>6 DEF Typed, Places
  <2> QED
    BY <1>1, <2>1, <2>3
<1> QED
  BY <1>2, <1>3, <1>4, <1>5, <1>6, <1>7 DEF IInv

\* The caller takes what it was handed, or goes.
LEMMA CallerKeeps ==
  ASSUME IInv, CallerReads \/ CallerCloses(TRUE) \/ CallerCloses(FALSE) PROVE IInv'
<1>0. Typed
  BY DEF IInv
<1>1. CASE CallerReads
  <2> DEFINE x == Head(buf2)
  <2>1. /\ read2 /\ buf2 # << >> /\ out' = Append(out, x) /\ buf2' = Tail(buf2)
        /\ UNCHANGED <<row, sent, end1, failed1, buf1, read1, read2, current, task, failed2, end2>>
    BY <1>1 DEF CallerReads, stage1, stage2
  <2>2. buf2 \in Seq(Items) /\ out \in Seq(Items) /\ Handed
    BY <2>1 DEF IInv, Typed
  <2>3. /\ x \in Items /\ buf2' \in Seq(Items) /\ Unique(buf2') /\ ~Holds(buf2', x)
        /\ \A y : Holds(buf2, y) <=> Holds(buf2', y) \/ y = x
    BY <2>1, <2>2, Rest DEF Handed
  <2> HIDE DEF x
  <2>4. ~Holds(out, x)
    BY <2>2, <2>3 DEF Handed
  <2>5. /\ out' \in Seq(Items) /\ Unique(out')
        /\ \A y : Holds(out', y) <=> Holds(out, y) \/ y = x
    BY <2>1, <2>2, <2>3, <2>4, Appended DEF Handed
  <2>6. /\ \A y : Holds(buf2, y)' <=> Holds(buf2', y)
        /\ \A y : Holds(out, y)' <=> Holds(out', y)
        /\ (Unique(buf2)' <=> Unique(buf2')) /\ (Unique(out)' <=> Unique(out'))
    BY DEF Holds, Unique
  <2>7. \A y \in Items : ~(Holds(buf2, y)' /\ Holds(out, y)')
    BY <2>2, <2>3, <2>5, <2>6 DEF Handed
  <2>8. \A t \in Tasks : Delivered(t[1])' <=> Given(t)'
    <3>1. \A t \in Tasks : Delivered(t[1])' <=> Delivered(t[1])
      BY <2>3, <2>5, <2>6 DEF Delivered
    <3>2. \A t \in Tasks : Given(t)' <=> Given(t)
      BY <2>1 DEF Given
    <3> QED
      BY <2>2, <3>1, <3>2 DEF Handed
  <2>9. Handed'
    BY <2>3, <2>5, <2>6, <2>7, <2>8 DEF Handed
  <2>10. Typed'
    BY <1>0, <2>1, <2>3, <2>5 DEF Typed
  <2>11. Emitted' /\ Waiting' /\ Taken' /\ Working' /\ Clean'
    BY <2>1 DEF IInv, Emitted, Waiting, Taken, Working, Clean, Unique, Holds, Sent
  <2> QED
    BY <2>9, <2>10, <2>11 DEF IInv
<1>2. CASE CallerCloses(TRUE) \/ CallerCloses(FALSE)
  <2>1. /\ read2' = FALSE
        /\ UNCHANGED <<row, sent, end1, failed1, buf1, read1, current, task, failed2, buf2, end2, out>>
    BY <1>2 DEF CallerCloses, stage1, stage2
  <2>2. Typed'
    <3>1. read2' \in BOOLEAN
      BY <2>1
    <3> QED
      BY <1>0, <2>1, <3>1 DEF Typed
  <2>3. Emitted' /\ Waiting' /\ Taken' /\ Working' /\ Clean'
    BY <2>1 DEF IInv, Emitted, Waiting, Taken, Working, Clean, Unique, Holds, Sent
  <2> QED
    BY <2>1, <2>2, <2>3 DEF IInv
<1> QED
  BY <1>1, <1>2

\* Every step leaves each item in one place.
LEMMA NextKeeps == ASSUME Instance, IInv, [Next]_vars PROVE IInv'
<1>1. CASE UNCHANGED vars
  <2>1. UNCHANGED <<row, sent, buf1, end1, read1, failed1, current, task, failed2, buf2, end2, read2, out>>
    BY <1>1 DEF vars
  <2>2. Typed' /\ Emitted' /\ Clean'
    BY <2>1 DEF IInv, Typed, Emitted, Clean
  <2>3. Waiting' /\ Taken' /\ Working'
    BY <2>1 DEF IInv, Waiting, Taken, Working, Unique, Holds, Sent
  <2>4. (read2 => Handed)'
    BY <2>1 DEF IInv, Handed, Holds, Unique, Delivered, Given
  <2> QED
    BY <2>2, <2>3, <2>4 DEF IInv
<1>2. CASE Next
  BY <1>2, RowKeeps, RowEmitsKeeps, TaskKeeps, TaskEndsKeeps, CombineKeeps, Complete1Keeps,
     Complete2Keeps, TakeKeeps, CallerKeeps
     DEF Next, RowStep, TaskStep, Stage2Step, CallerStep
<1> QED
  BY <1>1, <1>2

\* For any rows, members, slots and capacity: until a failure or an early end
\* every emitted item is in exactly one place on its way to the caller.
THEOREM Invariant == ASSUME Instance PROVE Spec => []IInv
<1>1. Init => IInv
  BY InitEstablishes
<1>2. IInv /\ [Next]_vars => IInv'
  BY NextKeeps
<1> QED
  BY <1>1, <1>2, PTL DEF Spec

\* An item that is nowhere else is with the caller.
LEMMA Complete == ASSUME Instance, IInv PROVE CleanEndIsComplete
<1> SUFFICES ASSUME end2 = "eof", read2, buf2 = << >>
             PROVE  /\ Range(out) = Items /\ Len(out) = Cardinality(Items)
                    /\ ~failed1 /\ ~failed2
  BY DEF CleanEndIsComplete
<1>1. /\ ~failed1 /\ ~failed2 /\ out \in Seq(Items) /\ Handed
      /\ \A t \in Tasks : Given(t)
  BY DEF IInv, Clean, Typed, Emitted, Given
<1>2. \A x \in Items : Holds(out, x)
  <2> TAKE x \in Items
  <2>1. <<x, 1>> \in Tasks /\ <<x, 1>>[1] = x
    BY Parts
  <2>2. Delivered(x)
    BY <1>1, <2>1 DEF Handed
  <2> QED
    BY <2>2, Nothing DEF Delivered
<1>3. /\ Len(out) \in Nat /\ DOMAIN out = 1 .. Len(out)
      /\ out \in [1 .. Len(out) -> Items] /\ \A i \in 1 .. Len(out) : out[i] \in Items
  BY <1>1
<1>4. Range(out) = Items
  BY <1>2, <1>3 DEF Range, Holds
<1>5. out \in Bijection(1 .. Len(out), Items)
  BY <1>1, <1>2, <1>3 DEF Handed, Unique, Holds, Bijection, Injection, Surjection, IsInjective
<1>6. ExistsBijection(1 .. Len(out), Items)
  BY <1>5 DEF ExistsBijection
<1>7. Cardinality(Items) = Len(out)
  BY <1>3, <1>6, FS_CountingElements
<1> QED
  BY <1>1, <1>4, <1>7

\* A caller that read to a clean end, of a join or of a section, has every item
\* exactly once, under any back-pressure and in any order of the goroutines.
THEOREM WholeAnswer == ASSUME Instance PROVE Spec => []CleanEndIsComplete
<1>1. IInv => CleanEndIsComplete
  BY Complete
<1> QED
  BY <1>1, Invariant, PTL

\* A failure known to a section keeps every member that is due from starting.
LEMMA Stopped == ASSUME IInv, Next PROVE FailureStartsNothing
<1> SUFFICES ASSUME Sectioned, failed2
             PROVE  /\ current' \subseteq current
                    /\ \A t \in Tasks : task[t] = "due" => task'[t] # "slot"
  BY DEF FailureStartsNothing
<1>0. task \in [Tasks -> Places]
  BY DEF IInv, Typed
<1>1. CASE task' = task /\ current' \subseteq current
  BY <1>1
<1>2. ASSUME NEW t \in Tasks, TaskStep(t) \/ TaskFails(t)
      PROVE  /\ current' = current
             /\ \A u \in Tasks : task[u] = "due" => task'[u] # "slot"
  BY <1>0, <1>2 DEF TaskStep, MemberStarts, TaskStarts, TaskEnds, TaskCancelled, TaskFails, Step
<1>3. ASSUME NEW r \in OuterRows, RowStep(r) \/ RowFails(r) PROVE task' = task /\ current' = current
  <2>1. UNCHANGED stage2
    BY <1>3 DEF RowStep, Launch, RowStarts, RowEmits, RowEnds, RowCancelled, RowFails, Move
  <2> QED
    BY <2>1 DEF stage2
<1>4. CASE Complete1 \/ CallerStep \/ CallerCloses(TRUE)
  <2>1. UNCHANGED stage2
    BY <1>4 DEF Complete1, CallerStep, CallerReads, CallerCloses
  <2> QED
    BY <1>1, <2>1 DEF stage2
<1>5. CASE Stage2Step
  BY <1>1, <1>5 DEF Stage2Step, Take, MayTake, Complete2, Combine
<1> QED
  BY <1>1, <1>2, <1>3, <1>4, <1>5 DEF Next

\* Once a section knows of a failure it takes no row and starts no member.
THEOREM NothingStarts == ASSUME Instance PROVE Spec => [][FailureStartsNothing]_vars
<1>1. ASSUME IInv, Next PROVE FailureStartsNothing
  BY <1>1, Stopped
<1> QED
  BY <1>1, Invariant, PTL DEF Spec

=============================================================================
