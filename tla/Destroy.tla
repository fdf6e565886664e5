------------------------------ MODULE Destroy ------------------------------
(***************************************************************************)
(* pkg/omnisdk/destroy.go: the objects of a collection deleted from what   *)
(* its ledger records.  A destroy checks the keys it was given, takes the  *)
(* live entries whose record says what they are, and deletes them in       *)
(* passes: a key is held back while another of the pending keys is         *)
(* recorded as reading from it, a refused delete is tried again on the     *)
(* next pass, and a pass that deletes nothing is the last.                 *)
(*                                                                         *)
(* A destroy may stop at any step and be run again.  The provider refuses  *)
(* a delete of an object that is gone, that another object uses, or that   *)
(* something outside the collection uses; an answer may be lost, and the   *)
(* delete done then, later or never.                                       *)
(***************************************************************************)
EXTENDS Integers, Sequences, SequencesExt, FiniteSets, TLAPS

CONSTANTS
    Keys,           \* the collection's keys, a set of integers: their order is the keys' own
    Phases,         \* the phases entries may start in: "Live", and "Pending" for one
                    \* never confirmed made, a live one without an identity included
    Uses,           \* Uses[k]: the keys whose objects the object of k uses
    Enforced,       \* keys whose delete the provider refuses while the object is used
    MaxRuns         \* bound on the destroys run

VARIABLES
    entry,          \* entry[k]: "Gone", or its phase with what is recorded of it
    object,         \* the keys whose object exists
    outside,        \* the keys whose object something outside the collection uses
    journal,        \* keys whose delete is in the run's journal
    listed,         \* what the destroy under way read of the ledger at its start
    late,           \* keys with a delete nobody waits for, which may still be done
    pc, runs,       \* where the destroy is; how many were started
    pending, at, next, progress,    \* the pass: its keys, the next of them, those left over
    refusedWith,    \* keys with a reason: the last delete of it failed
    out             \* the report: key -> "destroyed" or "outstanding"

vars == <<entry, object, outside, journal, listed, late, pc, runs, pending, at, next, progress, refusedWith, out>>
pass == <<pending, at, next, progress, refusedWith, out>>

Found(k) == entry[k].phase # "Gone"
GoneEntry == [phase |-> "Gone", about |-> FALSE]

\* A key whose object exists has an entry; one that is pending may have no
\* object, its create having been cut short.
Init ==
    /\ entry \in [Keys -> {GoneEntry} \cup [phase : Phases, about : BOOLEAN]]
    /\ object \in SUBSET {k \in Keys : Found(k)}
    /\ \A k \in Keys : entry[k].phase = "Live" => k \in object
    /\ outside \in SUBSET object
    /\ journal = {} /\ pc = "idle" /\ runs = 0 /\ late = {} /\ listed = [k \in Keys |-> GoneEntry]
    /\ pending = << >> /\ at = 1 /\ next = << >> /\ progress = FALSE /\ refusedWith = {} /\ out = << >>

\* DependsOn of an entry's record: what a run that resolved it read from.
DependsIn(e, k) == IF e.about THEN Uses[k] ELSE {}
DependsOn(k) == DependsIn(listed[k], k)

\* The check of a selection: every entry says what it is, none that stays
\* reads from one that goes, and every key is there.
Selectable(selected) ==
    /\ \A k \in Keys : Found(k) => entry[k].about
    /\ \A k \in Keys \ selected : Found(k) => DependsIn(entry[k], k) \cap selected = {}
    /\ \A k \in selected : Found(k)

\* Entries a destroy deletes; the others of its keys it reports at once.
Deletable(e) == e.about /\ e.phase = "Live"
Target(k) == Deletable(listed[k])

\* A pass takes its keys in their own order.
Sorted(S) == SetToSortSeq(S, <)

\* Open up to the first pass, of the selected keys or, with none, of all.
Open(selected) ==
    /\ pc \in {"idle", "done"} /\ runs < MaxRuns /\ runs' = runs + 1
    /\ selected = {} \/ Selectable(selected)
    /\ LET held == {k \in Keys : Found(k) /\ (selected = {} \/ k \in selected)} IN
       /\ pending' = Sorted({k \in held : Deletable(entry[k])})
       /\ out' = [k \in {k \in held : ~Deletable(entry[k])} |-> "outstanding"]
    /\ listed' = entry
    /\ pc' = "pass" /\ at' = 1 /\ next' = << >> /\ progress' = FALSE /\ refusedWith' = {}
    /\ journal' = {}
    /\ UNCHANGED <<entry, object, outside, late>>

Busy == pc \in {"pass", "send", "forget"}
Key == pending[at]
InPass == pc = "pass" /\ at <= Len(pending)

\* Mutant of Held: only the keys still to come in this pass are looked at.
Held_Ahead == \E i \in at + 1 .. Len(pending) : Key \in DependsOn(pending[i])

\* Another of the pass's keys, deleted in it already or not, is listed as
\* reading from the key.
Held == \E o \in ToSet(pending) \ {Key} : Key \in DependsOn(o)

Skip ==
    /\ InPass /\ Held
    /\ next' = Append(next, Key) /\ at' = at + 1
    /\ UNCHANGED <<entry, object, outside, journal, listed, late, pc, runs, pending, progress, refusedWith, out>>

\* delete: the intent goes to the journal first; a journal that cannot be
\* written fails the delete before it is sent.
Record ==
    /\ InPass /\ ~Held
    /\ pc' = "send" /\ journal' = journal \cup {Key}
    /\ UNCHANGED <<entry, object, outside, listed, late, runs, pass>>

Keep ==
    /\ next' = Append(next, Key) /\ at' = at + 1 /\ pc' = "pass"
    /\ refusedWith' = refusedWith \cup {Key}
    /\ UNCHANGED <<listed, pending, progress, out>>

RecordFails ==
    /\ InPass /\ ~Held /\ Keep
    /\ UNCHANGED <<entry, object, outside, journal, late, runs>>

\* The provider.
Refuses(k) ==
    \/ k \notin object \/ k \in outside
    \/ k \in Enforced /\ \E o \in object \ {k} : k \in Uses[o]

Landed ==
    /\ pc = "send" /\ ~Refuses(Key)
    /\ object' = object \ {Key} /\ pc' = "forget"
    /\ UNCHANGED <<entry, outside, journal, listed, late, runs, pass>>

\* Mutant of Refused: an object the provider does not know is a delete that
\* landed, whatever it refused it for.
Refused_Forgets ==
    /\ pc = "send" /\ Refuses(Key)
    /\ pc' = "forget" /\ UNCHANGED <<entry, object, outside, journal, listed, late, runs, pass>>

Refused ==
    /\ pc = "send" /\ Refuses(Key) /\ Keep
    /\ UNCHANGED <<entry, object, outside, journal, late, runs>>

\* No answer: the delete was done, or is yet to be done or not.
Unanswered ==
    /\ pc = "send" /\ Keep
    /\ \/ ~Refuses(Key) /\ object' = object \ {Key} /\ UNCHANGED late
       \/ late' = late \cup {Key} /\ UNCHANGED object
    /\ UNCHANGED <<entry, outside, journal, runs>>

Forget ==
    /\ pc = "forget" /\ pc' = "pass" /\ at' = at + 1
    /\ entry' = [entry EXCEPT ![Key] = GoneEntry]
    /\ out' = [k \in DOMAIN out \cup {Key} |-> IF k = Key THEN "destroyed" ELSE out[k]]
    /\ refusedWith' = refusedWith \ {Key} /\ progress' = TRUE
    /\ UNCHANGED <<object, outside, journal, listed, late, runs, pending, next>>

\* The ledger's Get or Forget fails: the key is tried again, its object gone.
\* A Forget that fails may have linked the tombstone first.
ForgetFails ==
    /\ pc = "forget" /\ Keep
    /\ entry' \in {entry, [entry EXCEPT ![Key] = GoneEntry]}
    /\ UNCHANGED <<object, outside, journal, late, runs>>

\* Mutant of EndPass: a pass follows while anything is left.
EndPass_Always ==
    /\ pc = "pass" /\ at > Len(pending)
    /\ IF next # << >>
         THEN /\ pending' = next /\ next' = << >> /\ at' = 1 /\ progress' = FALSE
              /\ UNCHANGED <<pc, out>>
         ELSE /\ pc' = "done" /\ UNCHANGED <<out, pending, next, at, progress>>
    /\ UNCHANGED <<entry, object, outside, journal, listed, late, runs, refusedWith>>

\* Another pass while one made progress; the keys left over are outstanding.
EndPass ==
    /\ pc = "pass" /\ at > Len(pending)
    /\ IF progress /\ next # << >>
         THEN /\ pending' = next /\ next' = << >> /\ at' = 1 /\ progress' = FALSE
              /\ UNCHANGED <<pc, out>>
         ELSE /\ pc' = "done"
              /\ out' = [k \in DOMAIN out \cup ToSet(next) |-> IF k \in ToSet(next) THEN "outstanding" ELSE out[k]]
              /\ UNCHANGED <<pending, next, at, progress>>
    /\ UNCHANGED <<entry, object, outside, journal, listed, late, runs, refusedWith>>

\* The process dies; its report is lost, its request may be done yet.
Crash ==
    /\ Busy /\ pc' = "idle"
    /\ late' = IF pc = "send" THEN late \cup {Key} ELSE late
    /\ pending' = << >> /\ at' = 1 /\ next' = << >> /\ progress' = FALSE /\ refusedWith' = {} /\ out' = << >>
    /\ UNCHANGED <<entry, object, outside, journal, listed, runs>>

\* A delete nobody waits for is done, or is refused, or never comes.
LandsLate(k) ==
    /\ k \in late /\ late' = late \ {k}
    /\ object' = IF Refuses(k) THEN object ELSE object \ {k}
    /\ UNCHANGED <<entry, outside, journal, listed, pc, runs, pass>>

\* What was outside the collection goes.
Freed(k) == /\ k \in outside /\ outside' = outside \ {k}
            /\ UNCHANGED <<entry, object, journal, listed, late, pc, runs, pass>>

Pass == Skip \/ Record \/ RecordFails \/ Landed \/ Refused \/ Unanswered \/ Forget \/ ForgetFails \/ EndPass
Next == \/ \E selected \in SUBSET Keys : Open(selected)
        \/ Pass \/ Crash \/ (\E k \in Keys : Freed(k) \/ LandsLate(k))

\* A destroy that is under way goes on; nobody is obliged to start one.
Progress == Pass

Spec == Init /\ [][Next]_vars /\ WF_vars(Progress)

-----------------------------------------------------------------------------
\* Nothing is lost to view: whatever was cut short, refused, repeated or left
\* unanswered, an object of the collection still has its entry.
NothingOrphaned == \A k \in object : Found(k)

\* A report is true of the ledger and the provider: destroyed is gone from
\* both, what the ledger holds is outstanding, and every key a delete was
\* recorded for is in it.  What is outstanding and not in the ledger any more
\* has the reason of its failed delete: its Forget failed once it was done.
ReportIsTrue ==
    pc = "done" =>
        /\ journal \subseteq DOMAIN out
        /\ \A k \in DOMAIN out : out[k] = "destroyed" => ~Found(k) /\ k \notin object
        /\ \A k \in DOMAIN out : out[k] = "outstanding" => Found(k) \/ k \in refusedWith

\* o is recorded as reading from k, and confirmed made.
ReadsFrom(o, k) == Deletable(entry[o]) /\ k \in DependsIn(entry[o], o)

\* Dependents go first: an object is deleted when nothing in the collection
\* that is confirmed made and recorded as reading from it is left.  A reader
\* never confirmed made is in no pass, and does not hold back what it reads
\* from.
DependentsFirst ==
    \A k \in object \ object', o \in object' : ~ReadsFrom(o, k)

\* A key is given up only when its last delete failed, or when one held back
\* with it was: nothing that could go is left because the passes ended early.
GivenUpForAReason ==
    (pc = "done" /\ runs > 0) => \A k \in {k \in DOMAIN out : out[k] = "outstanding" /\ Target(k)} :
        k \in refusedWith \/ \E o \in DOMAIN out : out[o] = "outstanding" /\ k \in DependsOn(o)

\* No destroy is under way: one ends, whatever is refused.
Done == ~Busy
-----------------------------------------------------------------------------
(***************************************************************************)
(* Destroy for any keys and any record of what uses what.  The argument is *)
(* about four sets: the keys taken in this pass, those ahead, those left   *)
(* over and those reported.                                                *)
(***************************************************************************)
\* The order of the keys is a permutation of them: what sorting promises.
Sorting == \A S \in SUBSET Keys : /\ Sorted(S) \in Seq(Keys) /\ ToSet(Sorted(S)) = S
                                  /\ IsInjective(Sorted(S))
Instance == Sorting /\ "Gone" \notin Phases

Taken == {pending[i] : i \in 1 .. at - 1}
ToCome == {pending[i] : i \in at .. Len(pending)}
Once(s) == \A i, j \in 1 .. Len(s) : s[i] = s[j] => i = j

TypeOK ==
    /\ entry \in [Keys -> {GoneEntry} \cup [phase : Phases, about : BOOLEAN]]
    /\ listed \in [Keys -> {GoneEntry} \cup [phase : Phases, about : BOOLEAN]]
    /\ object \in SUBSET Keys /\ journal \in SUBSET Keys /\ late \in SUBSET Keys
    /\ pc \in {"idle", "pass", "send", "forget", "done"}
    /\ pending \in Seq(Keys) /\ next \in Seq(Keys) /\ progress \in BOOLEAN
    /\ at \in 1 .. Len(pending) + 1
    /\ DOMAIN out \in SUBSET Keys /\ \A k \in DOMAIN out : out[k] \in {"destroyed", "outstanding"}

\* A delete is sent for a key nothing pending reads from, and its entry
\* dropped when the object is gone.
Sending ==
    /\ pc \in {"send", "forget"} => at <= Len(pending) /\ ~Held
    /\ pc = "forget" => Key \notin object

\* What is ahead and what is left over has its entry, or a reason for having
\* none, and is not reported; what was taken and not left over was destroyed.
Accounted ==
    /\ Once(pending) /\ Once(next)
    /\ ToSet(next) \subseteq Taken
    /\ \A k \in ToCome \cup ToSet(next) : (Found(k) \/ k \in refusedWith) /\ k \notin DOMAIN out
    /\ \A k \in Taken \ ToSet(next) : ~Found(k) /\ k \in DOMAIN out
    /\ journal \subseteq ToSet(pending) \cup DOMAIN out
    /\ \A k \in DOMAIN out : out[k] = "outstanding" => ~Target(k)

\* Whatever reads from a key of the pass is in the pass, and listed as it is.
ReadersInPass ==
    \A k \in ToSet(pending), o \in Keys :
      ReadsFrom(o, k) => o \in ToSet(pending) /\ k \in DependsOn(o)

\* A delete nobody waits for was sent when no reader was left.
LateIsSafe == \A k \in late, o \in object : o # k => ~ReadsFrom(o, k)

\* A pass without progress has a reason for every key it took.
Reasons ==
    ~progress => \A k \in Taken :
       k \in ToSet(next) /\ (k \in refusedWith \/ \E o \in ToSet(pending) : k \in DependsOn(o))

Reported ==
    \A k \in DOMAIN out :
      /\ out[k] = "destroyed" => ~Found(k)
      /\ out[k] = "outstanding" => Found(k) \/ k \in refusedWith

Ended == journal \subseteq DOMAIN out /\ GivenUpForAReason

IInv == /\ TypeOK /\ NothingOrphaned /\ Sending /\ Reported /\ LateIsSafe
        /\ Busy => Accounted /\ Reasons /\ ReadersInPass
        /\ pc = "done" => Ended

\* Sequences as the sets of their members.
LEMMA KeyMembers ==
  ASSUME NEW s \in Seq(Keys), NEW x \in Keys
  PROVE  /\ ToSet(s) = {s[i] : i \in 1 .. Len(s)} /\ ToSet(s) \in SUBSET Keys
         /\ Append(s, x) \in Seq(Keys) /\ ToSet(Append(s, x)) = ToSet(s) \cup {x}
         /\ Once(s) /\ x \notin ToSet(s) => Once(Append(s, x))
<1>1. DOMAIN s = 1 .. Len(s) /\ Len(s) \in Nat /\ \A i \in 1 .. Len(s) : s[i] \in Keys
  OBVIOUS
<1>2. ToSet(s) = {s[i] : i \in 1 .. Len(s)} /\ ToSet(s) \in SUBSET Keys
  BY <1>1 DEF ToSet
<1> DEFINE t == Append(s, x)
<1>3. /\ t \in Seq(Keys) /\ DOMAIN t = 1 .. Len(t) /\ Len(t) = Len(s) + 1
      /\ t[Len(s) + 1] = x /\ \A i \in 1 .. Len(s) : t[i] = s[i]
  OBVIOUS
<1> HIDE DEF t
<1>4. ToSet(t) = {t[i] : i \in 1 .. Len(t)}
  BY <1>3 DEF ToSet
<1>5. ToSet(t) \subseteq ToSet(s) \cup {x}
  <2> SUFFICES ASSUME NEW i \in 1 .. Len(t) PROVE t[i] \in ToSet(s) \cup {x}
    BY <1>4
  <2> QED
    BY <1>1, <1>2, <1>3
<1>6. x \in ToSet(t)
  BY <1>1, <1>3, <1>4
<1>7. ASSUME NEW y \in ToSet(s) PROVE y \in ToSet(t)
  <2>1. PICK i \in 1 .. Len(s) : y = s[i]
    BY <1>2
  <2>2. i \in 1 .. Len(t) /\ t[i] = y
    BY <1>1, <1>3, <2>1
  <2> QED
    BY <1>4, <2>2
<1>8. ASSUME Once(s), x \notin ToSet(s) PROVE Once(t)
  <2> SUFFICES ASSUME NEW i \in 1 .. Len(t), NEW j \in 1 .. Len(t), t[i] = t[j] PROVE i = j
    BY DEF Once
  <2>1. CASE i \in 1 .. Len(s) /\ j \in 1 .. Len(s)
    BY <1>3, <1>8, <2>1 DEF Once
  <2>2. CASE i = Len(s) + 1 \/ j = Len(s) + 1
    BY <1>1, <1>2, <1>3, <1>8, <2>2
  <2> QED
    BY <1>1, <1>3, <2>1, <2>2
<1> QED
  BY <1>2, <1>3, <1>5, <1>6, <1>7, <1>8 DEF t

\* The keys of a pass are those taken and those ahead.
LEMMA Split ==
  ASSUME TypeOK
  PROVE  /\ ToSet(pending) = Taken \cup ToCome
         /\ ToSet(pending) \in SUBSET Keys
         /\ at > Len(pending) => ToCome = {} /\ Taken = ToSet(pending)
         /\ at = 1 => Taken = {} /\ ToCome = ToSet(pending)
         /\ at <= Len(pending) => Key \in ToCome /\ Key \in Keys
         /\ Once(pending) => Taken \cap ToCome = {}
<1>1. pending \in Seq(Keys) /\ at \in 1 .. Len(pending) + 1 /\ Len(pending) \in Nat
  BY DEF TypeOK
<1>2. ToSet(pending) = {pending[i] : i \in 1 .. Len(pending)} /\ \A i \in 1 .. Len(pending) : pending[i] \in Keys
  BY <1>1 DEF ToSet
<1>3. 1 .. Len(pending) = (1 .. at - 1) \cup (at .. Len(pending))
  BY <1>1
<1>4. ToSet(pending) = Taken \cup ToCome
  BY <1>2, <1>3 DEF Taken, ToCome
<1>5. at > Len(pending) => ToCome = {}
  BY <1>1 DEF ToCome
<1>6. at = 1 => Taken = {}
  BY <1>1 DEF Taken
<1>7. at <= Len(pending) => Key \in ToCome /\ Key \in Keys
  BY <1>1, <1>2 DEF Key, ToCome
<1>8. Once(pending) => Taken \cap ToCome = {}
  BY <1>1 DEF Once, Taken, ToCome
<1> QED
  BY <1>2, <1>4, <1>5, <1>6, <1>7, <1>8

\* Taking a key moves it from those ahead to those taken.
LEMMA Advance ==
  ASSUME TypeOK, Once(pending), at <= Len(pending), pending' = pending, at' = at + 1
  PROVE  Taken' = Taken \cup {Key} /\ ToCome' = ToCome \ {Key}
<1>1. pending \in Seq(Keys) /\ at \in 1 .. Len(pending) /\ Len(pending) \in Nat
  BY DEF TypeOK
<1>2. Taken' = {pending[i] : i \in 1 .. at} /\ ToCome' = {pending[i] : i \in at + 1 .. Len(pending)}
  BY <1>1 DEF Taken, ToCome
<1>3. 1 .. at = (1 .. at - 1) \cup {at} /\ at .. Len(pending) = {at} \cup (at + 1 .. Len(pending))
  BY <1>1
<1>4. Taken' = Taken \cup {Key}
  BY <1>2, <1>3 DEF Taken, Key
<1>5. ToCome = {Key} \cup ToCome'
  BY <1>2, <1>3 DEF ToCome, Key
<1>6. Key \notin ToCome'
  BY <1>1, <1>2 DEF Key, Once
<1> QED
  BY <1>4, <1>5, <1>6

\* The ledger of a collection no destroy was run on.
LEMMA InitEstablishes == ASSUME Instance, Init PROVE IInv
<1>1. /\ entry \in [Keys -> {GoneEntry} \cup [phase : Phases, about : BOOLEAN]]
      /\ object \in SUBSET {k \in Keys : Found(k)} /\ journal = {} /\ pc = "idle" /\ late = {}
      /\ listed = [k \in Keys |-> GoneEntry]
      /\ pending = << >> /\ at = 1 /\ next = << >> /\ progress = FALSE /\ out = << >>
  BY DEF Init
<1>2. DOMAIN out = {}
  BY <1>1
<1>3. pending \in Seq(Keys) /\ next \in Seq(Keys) /\ at \in 1 .. Len(pending) + 1
  BY <1>1
<1>4. TypeOK
  BY <1>1, <1>2, <1>3 DEF TypeOK
<1> QED
  BY <1>1, <1>2, <1>4 DEF IInv, NothingOrphaned, Sending, Reported, Busy, LateIsSafe

\* A key held back, refused, unanswered or not forgotten is left for the next
\* pass.
LEMMA LeftOver ==
  ASSUME Instance, IInv, Busy, at <= Len(pending),
         next' = Append(next, Key), at' = at + 1, pc' = "pass",
         UNCHANGED <<journal, listed, pending, progress, out>>,
         \/ entry' = entry
         \/ Key \notin object /\ Key \in refusedWith' /\ entry' = [entry EXCEPT ![Key] = GoneEntry],
         late' \subseteq late \cup {Key}, Key \in late' => Key \in late \/ ~Held,
         object' \subseteq object, refusedWith \subseteq refusedWith', Key \in refusedWith' \/ Held
  PROVE  IInv'
<1>0. /\ TypeOK /\ NothingOrphaned /\ Reported /\ Accounted /\ Reasons /\ ReadersInPass /\ LateIsSafe
  BY DEF IInv
<1>1. /\ Taken' = Taken \cup {Key} /\ ToCome' = ToCome \ {Key} /\ Key \in ToCome /\ Key \in Keys
      /\ Taken \cap ToCome = {} /\ Key \in ToSet(pending) /\ ToSet(pending) \in SUBSET Keys
      /\ Taken \cup ToCome = ToSet(pending)
  BY <1>0, Split, Advance DEF Accounted
<1>2. Key \notin ToSet(next) /\ next \in Seq(Keys)
  BY <1>0, <1>1 DEF Accounted, TypeOK
<1> DEFINE k0 == Key
<1>3. /\ next' \in Seq(Keys) /\ ToSet(next') = ToSet(next) \cup {k0}
      /\ Once(next) => Once(next')
  BY <1>1, <1>2, KeyMembers
<1>4. Once(next)'
  BY <1>0, <1>3 DEF Accounted, Once
<1>5. TypeOK'
  BY <1>0, <1>1, <1>3 DEF TypeOK
<1>6. ToSet(next)' = ToSet(next) \cup {k0} /\ ToSet(pending)' = ToSet(pending)
  BY <1>3
<1>e. \A k \in Keys : \/ entry'[k] = entry[k]
                      \/ k = k0 /\ entry'[k] = GoneEntry /\ k \notin object /\ k \in refusedWith'
  BY <1>0, <1>1 DEF TypeOK
<1>f. /\ \A k \in Keys : Found(k) => Found(k)' \/ k \in refusedWith'
      /\ \A k \in Keys : Found(k)' => Found(k)
      /\ \A k \in object' : Found(k)'
      /\ \A o, k \in Keys : ReadsFrom(o, k)' => ReadsFrom(o, k)
  <2>1. GoneEntry.phase = "Gone" /\ GoneEntry.about = FALSE
    BY DEF GoneEntry
  <2>2. /\ \A k \in Keys : Found(k) => Found(k)' \/ k \in refusedWith'
        /\ \A k \in Keys : Found(k)' => Found(k)
    BY <1>e, <2>1 DEF Found
  <2>3. \A k \in object' : Found(k)'
    BY <1>0, <1>e DEF Found, NothingOrphaned, TypeOK
  <2>4. \A o, k \in Keys : ReadsFrom(o, k)' => ReadsFrom(o, k)
    BY <1>e, <2>1 DEF ReadsFrom, Deletable, DependsIn
  <2> QED
    BY <2>2, <2>3, <2>4
<1> HIDE DEF k0
<1>7. Accounted'
  <2>1. Once(pending)' /\ journal' \subseteq (ToSet(pending) \cup DOMAIN out)'
    BY <1>0 DEF Accounted, Once
  <2>2. \A k \in (ToCome \cup ToSet(next))' : (Found(k)' \/ k \in refusedWith') /\ k \notin DOMAIN out
    <3>1. (ToCome \cup ToSet(next))' \subseteq ToCome \cup ToSet(next) /\ ToCome \cup ToSet(next) \subseteq Keys
      BY <1>0, <1>1, <1>6 DEF Accounted, k0
    <3> QED
      BY <1>0, <1>f, <3>1 DEF Accounted
  <2>3. \A k \in (Taken \ ToSet(next))' : ~Found(k)' /\ k \in DOMAIN out
    <3>1. (Taken \ ToSet(next))' \subseteq Taken \ ToSet(next) /\ Taken \subseteq Keys
      BY <1>0, <1>1, <1>6 DEF Accounted, k0
    <3> QED
      BY <1>0, <1>f, <3>1 DEF Accounted
  <2>4. ToSet(next)' \subseteq Taken'
    BY <1>0, <1>1, <1>6 DEF Accounted, k0
  <2>5. \A k \in DOMAIN out : out[k] = "outstanding" => ~Target(k)'
    BY <1>0 DEF Accounted, Target
  <2> QED
    BY <1>0, <1>4, <2>1, <2>2, <2>3, <2>4, <2>5 DEF Accounted
<1>8. Reasons'
  <2>1. k0 \in refusedWith' \/ \E o \in ToSet(pending) : k0 \in DependsOn(o)
    BY DEF Held, k0
  <2> SUFFICES ASSUME ~progress, NEW k \in Taken \cup {k0}
               PROVE  /\ k \in ToSet(next) \cup {k0}
                      /\ k \in refusedWith' \/ \E o \in ToSet(pending) : k \in DependsOn(o)
    BY <1>1, <1>6 DEF Reasons, DependsOn, k0
  <2> QED
    BY <1>0, <2>1 DEF Reasons
<1>9. ReadersInPass'
  BY <1>0, <1>1, <1>6, <1>f DEF ReadersInPass, DependsOn
<1>10. NothingOrphaned' /\ Sending'
  BY <1>f DEF NothingOrphaned, Sending
<1>11. Reported'
  BY <1>0, <1>f DEF Reported, TypeOK
<1>12. LateIsSafe'
  <2> SUFFICES ASSUME NEW k \in late', NEW o \in object', o # k, ReadsFrom(o, k)' PROVE FALSE
    BY DEF LateIsSafe
  <2>1. k \in Keys /\ o \in Keys /\ o \in object
    BY <1>0, <1>1, <1>5 DEF TypeOK
  <2>2. ReadsFrom(o, k)
    BY <1>f, <2>1
  <2>3. k = Key /\ ~Held
    BY <1>0, <2>1, <2>2 DEF LateIsSafe
  <2>4. o \in ToSet(pending) /\ k \in DependsOn(o)
    BY <1>0, <1>1, <2>1, <2>2, <2>3 DEF ReadersInPass
  <2> QED
    BY <2>3, <2>4 DEF Held
<1> QED
  BY <1>5, <1>7, <1>8, <1>9, <1>10, <1>11, <1>12 DEF IInv

\* The keys of the pass, its intent recorded or not, its delete landed.
LEMMA InPlace ==
  ASSUME Instance, IInv, UNCHANGED <<entry, listed, pass>>, TypeOK', Sending', late' \subseteq late,
         object' \subseteq object, journal \subseteq journal',
         journal' \subseteq journal \cup ToSet(pending), Busy => Busy', pc' = "done" => pc = "done",
         Busy' => Busy, pc' = "done" => journal' = journal /\ runs' = runs
  PROVE  IInv'
<1>0. UNCHANGED <<pending, at, next, progress, refusedWith, out>>
  BY DEF pass
<1>1. NothingOrphaned' /\ Reported' /\ LateIsSafe'
  BY <1>0 DEF IInv, NothingOrphaned, Reported, Found, LateIsSafe, ReadsFrom, DependsIn, Deletable
<1>2. Busy' => Accounted' /\ Reasons'
  <2> SUFFICES ASSUME Accounted, Reasons PROVE Accounted' /\ Reasons'
    BY DEF IInv
  <2>1. Taken' = Taken /\ ToCome' = ToCome /\ ToSet(pending)' = ToSet(pending) /\ ToSet(next)' = ToSet(next)
    BY <1>0 DEF Taken, ToCome
  <2>2. Once(pending)' /\ Once(next)'
    BY <1>0 DEF Accounted, Once
  <2>3. Accounted'
    BY <1>0, <2>1, <2>2 DEF Accounted, Found, Target
  <2> QED
    BY <1>0, <2>1, <2>3 DEF Reasons, DependsOn
<1>3. Busy' => ReadersInPass'
  BY <1>0 DEF IInv, ReadersInPass, ReadsFrom, DependsIn, Deletable, DependsOn
<1>4. pc' = "done" => Ended'
  BY <1>0 DEF IInv, Ended, GivenUpForAReason, DependsOn, Target
<1> QED
  BY <1>1, <1>2, <1>3, <1>4 DEF IInv

\* A key destroyed leaves the ledger, the report says so, and what read from
\* another key no longer does.
LEMMA ForgetKeeps == ASSUME Instance, IInv, Forget PROVE IInv'
<1>0. /\ TypeOK /\ NothingOrphaned /\ Reported /\ Accounted /\ Reasons /\ Sending
      /\ ReadersInPass /\ LateIsSafe
  BY DEF IInv, Busy, Forget
<1> DEFINE k0 == Key
<1>1. /\ at <= Len(pending) /\ k0 \notin object /\ pc' = "pass" /\ at' = at + 1
      /\ entry' = [entry EXCEPT ![k0] = GoneEntry] /\ progress' = TRUE
      /\ out' = [k \in DOMAIN out \cup {k0} |-> IF k = k0 THEN "destroyed" ELSE out[k]]
      /\ refusedWith' = refusedWith \ {k0}
      /\ UNCHANGED <<object, journal, listed, late, runs, pending, next>>
  BY <1>0 DEF Forget, Sending
<1>2. /\ Taken' = Taken \cup {k0} /\ ToCome' = ToCome \ {k0} /\ k0 \in ToCome /\ k0 \in Keys
      /\ Taken \cap ToCome = {}
  BY <1>0, <1>1, Split, Advance DEF Accounted
<1> HIDE DEF k0
<1>3. \A k \in Keys : k # k0 => entry'[k] = entry[k]
  BY <1>0, <1>1 DEF TypeOK
<1>4. entry'[k0] = GoneEntry
  BY <1>0, <1>1, <1>2 DEF TypeOK
<1>5. entry'[k0].phase = "Gone" /\ entry'[k0].about = FALSE
  BY <1>4 DEF GoneEntry
<1>6. /\ DOMAIN out' = DOMAIN out \cup {k0} /\ out'[k0] = "destroyed"
      /\ \A k \in DOMAIN out : k # k0 => out'[k] = out[k]
  BY <1>1
<1>7. TypeOK'
  <2>1. entry' \in [Keys -> {GoneEntry} \cup [phase : Phases, about : BOOLEAN]]
    BY <1>0, <1>1 DEF TypeOK
  <2>2. DOMAIN out' \in SUBSET Keys /\ \A k \in DOMAIN out' : out'[k] \in {"destroyed", "outstanding"}
    BY <1>0, <1>2, <1>6 DEF TypeOK
  <2> QED
    BY <1>0, <1>1, <2>1, <2>2 DEF TypeOK
<1>8. ToSet(next)' = ToSet(next) /\ ToSet(pending)' = ToSet(pending)
  BY <1>1
<1>9. /\ ToSet(next) \subseteq Keys /\ ToSet(pending) \subseteq Keys /\ DOMAIN out \subseteq Keys
      /\ Taken \cup ToCome = ToSet(pending) /\ k0 \notin ToSet(next)
  BY <1>0, <1>2, Split DEF TypeOK, Accounted
<1>10. Accounted'
  <2>1. Once(pending)' /\ Once(next)' /\ ToSet(next)' \subseteq Taken'
    BY <1>0, <1>1, <1>2, <1>8 DEF Accounted, Once
  <2>2. \A k \in ToCome' \cup ToSet(next)' :
          (entry'[k].phase # "Gone" \/ k \in refusedWith') /\ k \notin DOMAIN out'
    BY <1>0, <1>1, <1>2, <1>3, <1>5, <1>6, <1>8, <1>9 DEF Accounted, Found, Target
  <2>3. \A k \in Taken' \ ToSet(next)' : entry'[k].phase = "Gone" /\ k \in DOMAIN out'
    BY <1>0, <1>2, <1>3, <1>5, <1>6, <1>8, <1>9 DEF Accounted, Found, Target
  <2>4. journal' \subseteq ToSet(pending)' \cup DOMAIN out'
    BY <1>0, <1>1, <1>6, <1>8 DEF Accounted, Found, Target
  <2>5. \A k \in DOMAIN out' : out'[k] = "outstanding" => ~Target(k)'
    BY <1>0, <1>1, <1>6, <1>9 DEF Accounted, Target
  <2> QED
    BY <2>1, <2>2, <2>3, <2>4, <2>5 DEF Accounted, Found, Target
<1>11. ReadersInPass' /\ LateIsSafe'
  <2>1. \A o, k \in Keys : ReadsFrom(o, k)' => ReadsFrom(o, k)
    BY <1>3, <1>5 DEF ReadsFrom, Deletable, DependsIn
  <2>2. object \subseteq Keys /\ late \subseteq Keys
    BY <1>0 DEF TypeOK
  <2> QED
    BY <1>0, <1>1, <1>8, <1>9, <2>1, <2>2 DEF ReadersInPass, DependsOn, LateIsSafe
<1>12. NothingOrphaned'
  BY <1>0, <1>1, <1>3, <1>5 DEF NothingOrphaned, Found, TypeOK
<1>13. Reported'
  BY <1>0, <1>1, <1>3, <1>5, <1>6, <1>9 DEF Reported, Found
<1>14. Reasons' /\ Sending'
  BY <1>1 DEF Reasons, Sending
<1> QED
  BY <1>1, <1>7, <1>10, <1>11, <1>12, <1>13, <1>14 DEF IInv

\* A pass follows one that made progress; the last leaves every key it could
\* not delete in the report.
LEMMA EndPassKeeps == ASSUME Instance, IInv, EndPass PROVE IInv'
<1>0. /\ TypeOK /\ NothingOrphaned /\ Reported /\ Accounted /\ Reasons /\ Busy
      /\ ReadersInPass /\ LateIsSafe
  BY DEF IInv, Busy, EndPass
<1>1. at > Len(pending) /\ UNCHANGED <<entry, object, outside, journal, listed, late, runs, refusedWith>>
  BY DEF EndPass
<1>2. ToCome = {} /\ Taken = ToSet(pending)
  BY <1>0, <1>1, Split
<1>3. ToSet(next) \in SUBSET Keys
  BY <1>0, <1>2, Split DEF Accounted
<1>4. CASE progress /\ next # << >>
  <2>1. /\ pending' = next /\ next' = << >> /\ at' = 1 /\ progress' = FALSE /\ UNCHANGED <<pc, out>>
        /\ pc = "pass"
    BY <1>4 DEF EndPass
  <2>2. TypeOK'
    <3>1. pending' \in Seq(Keys) /\ next' \in Seq(Keys) /\ at' \in 1 .. Len(pending') + 1
      BY <1>0, <2>1 DEF TypeOK
    <3> QED
      BY <1>0, <1>1, <2>1, <3>1 DEF TypeOK
  <2>3. Taken' = {} /\ ToCome' = ToSet(next) /\ ToSet(pending)' = ToSet(next) /\ ToSet(next)' = {}
    <3>1. Taken' = {}
      BY <2>1 DEF Taken
    <3>2. ToCome' = {next[i] : i \in 1 .. Len(next)}
      BY <2>1 DEF ToCome
    <3>3. next \in Seq(Keys) /\ ToSet(next) = {next[i] : i \in 1 .. Len(next)}
      BY <1>0 DEF TypeOK, ToSet
    <3> QED
      BY <2>1, <3>1, <3>2, <3>3 DEF ToSet
  <2>4. Accounted'
    <3>1. Once(pending)' /\ Once(next)'
      BY <1>0, <2>1 DEF Accounted, Once
    <3>2. journal' \subseteq (ToSet(pending) \cup DOMAIN out)'
      BY <1>0, <1>1, <1>2, <2>1, <2>3 DEF Accounted
    <3>3. \A k \in (ToCome \cup ToSet(next))' : (Found(k) \/ k \in refusedWith) /\ k \notin DOMAIN out
      BY <1>0, <2>3 DEF Accounted
    <3>4. Taken' = {} /\ ToSet(next)' = {}
      BY <2>3
    <3>5. \A k \in DOMAIN out : out[k] = "outstanding" => ~Target(k)
      BY <1>0 DEF Accounted
    <3> QED
      BY <1>1, <2>1, <3>1, <3>2, <3>3, <3>4, <3>5 DEF Accounted, Found, DependsOn, Target
  <2>5. Reasons'
    BY <2>3 DEF Reasons
  <2>6. ReadersInPass' /\ LateIsSafe'
    <3>1. ASSUME NEW k \in ToSet(next), NEW o \in Keys, ReadsFrom(o, k)
          PROVE  o \in ToSet(next) /\ k \in DependsOn(o)
      <4>1. o \in ToSet(pending) /\ k \in DependsOn(o)
        BY <1>0, <1>2, <3>1 DEF ReadersInPass, Accounted
      <4>2. Found(o)
        BY <3>1 DEF ReadsFrom, Deletable, Found
      <4> QED
        BY <1>0, <1>2, <4>1, <4>2 DEF Accounted
    <3> QED
      BY <1>0, <1>1, <2>3, <3>1 DEF ReadersInPass, ReadsFrom, Deletable, DependsIn, DependsOn, LateIsSafe
  <2>7. NothingOrphaned' /\ Reported' /\ Sending'
    BY <1>0, <1>1, <2>1 DEF NothingOrphaned, Reported, Sending, Found, DependsOn, Target
  <2> QED
    BY <2>1, <2>2, <2>4, <2>5, <2>6, <2>7 DEF IInv
<1>5. CASE ~(progress /\ next # << >>)
  <2>1. /\ pc' = "done" /\ UNCHANGED <<pending, next, at, progress>>
        /\ out' = [k \in DOMAIN out \cup ToSet(next) |-> IF k \in ToSet(next) THEN "outstanding" ELSE out[k]]
    BY <1>5 DEF EndPass
  <2>2. /\ DOMAIN out' = DOMAIN out \cup ToSet(next) /\ \A k \in ToSet(next) : out'[k] = "outstanding"
        /\ \A k \in DOMAIN out : k \notin ToSet(next) => out'[k] = out[k]
    BY <2>1
  <2>3. TypeOK'
    BY <1>0, <1>1, <1>3, <2>1, <2>2 DEF TypeOK
  <2>4. Reported'
    BY <1>0, <1>1, <2>2 DEF Reported, Accounted, Found, DependsOn, Target
  <2>5. journal' \subseteq DOMAIN out'
    BY <1>0, <1>1, <1>2, <2>2 DEF Accounted
  <2>6. ASSUME NEW k \in DOMAIN out', out'[k] = "outstanding", Target(k)
        PROVE  k \in refusedWith \/ \E o \in DOMAIN out' : out'[o] = "outstanding" /\ k \in DependsOn(o)
    <3>1. k \in ToSet(next)
      BY <1>0, <2>2, <2>6 DEF Accounted
    <3>2. next # << >>
      BY <3>1 DEF ToSet
    <3>3. ~progress /\ k \in Taken
      BY <1>0, <1>5, <3>1, <3>2 DEF Accounted
    <3>4. ToSet(pending) \subseteq ToSet(next)
      BY <1>0, <1>2, <3>3 DEF Reasons
    <3> QED
      BY <1>0, <2>2, <3>3, <3>4 DEF Reasons
  <2>7. Ended'
    BY <1>1, <2>5, <2>6 DEF Ended, GivenUpForAReason, Found, DependsOn, Target
  <2>8. NothingOrphaned' /\ Sending' /\ LateIsSafe'
    BY <1>0, <1>1, <2>1 DEF NothingOrphaned, Sending, Found, LateIsSafe, ReadsFrom, Deletable, DependsIn
  <2> QED
    BY <2>1, <2>3, <2>4, <2>7, <2>8 DEF IInv, Busy
<1> QED
  BY <1>4, <1>5

\* The first pass is of every live key asked for, and the keys that stay read
\* from none of them.
LEMMA OpenKeeps == ASSUME Instance, IInv, NEW selected \in SUBSET Keys, Open(selected) PROVE IInv'
<1>0. TypeOK /\ NothingOrphaned /\ LateIsSafe
  BY DEF IInv
<1> DEFINE held == {k \in Keys : Found(k) /\ (selected = {} \/ k \in selected)}
           S == {k \in held : Deletable(entry[k])}
<1>1. /\ selected = {} \/ Selectable(selected)
      /\ pending' = Sorted(S) /\ out' = [k \in {k \in held : ~Deletable(entry[k])} |-> "outstanding"]
      /\ pc' = "pass" /\ at' = 1 /\ next' = << >> /\ progress' = FALSE
      /\ journal' = {} /\ listed' = entry /\ UNCHANGED <<entry, object, late>>
  BY DEF Open
<1>2. /\ S \in SUBSET Keys /\ \A k \in S : Deletable(entry[k]) /\ Found(k)
      /\ held \in SUBSET Keys /\ \A k \in held : Found(k)
  OBVIOUS
<1>3. pending' \in Seq(Keys) /\ ToSet(pending') = S /\ IsInjective(pending')
  BY <1>1, <1>2 DEF Instance, Sorting
<1>4. DOMAIN out' = {k \in held : ~Deletable(entry[k])} /\ \A k \in DOMAIN out' : out'[k] = "outstanding"
  BY <1>1
<1>5. TypeOK'
  <2>1. at' \in 1 .. Len(pending') + 1 /\ next' \in Seq(Keys)
    BY <1>1, <1>3
  <2> QED
    BY <1>0, <1>1, <1>2, <1>3, <1>4, <2>1 DEF TypeOK
<1>6. Taken' = {} /\ ToCome' = S /\ ToSet(next)' = {} /\ ToSet(pending)' = S
  <2>1. Taken' = {}
    BY <1>1 DEF Taken
  <2>2. ToCome' = {pending'[i] : i \in 1 .. Len(pending')}
    BY <1>1 DEF ToCome
  <2>3. ToSet(pending') = {pending'[i] : i \in 1 .. Len(pending')}
    BY <1>3 DEF ToSet
  <2>4. ToSet(next') = {}
    BY <1>1 DEF ToSet
  <2> HIDE DEF S
  <2> QED
    BY <1>3, <2>1, <2>2, <2>3, <2>4
<1>7. Once(pending)' /\ Once(next)'
  <2>1. DOMAIN pending' = 1 .. Len(pending')
    BY <1>3
  <2>2. Once(pending)'
    BY <1>3, <2>1 DEF Once, IsInjective
  <2>3. Once(next)'
    BY <1>1 DEF Once
  <2> QED
    BY <2>2, <2>3
<1>8. Accounted'
  <2>1. \A k \in S : entry'[k].phase # "Gone" /\ k \notin DOMAIN out'
    BY <1>1, <1>2, <1>4 DEF Found
  <2>2. \A k \in DOMAIN out' : ~Target(k)'
    BY <1>1, <1>4 DEF Target
  <2> HIDE DEF S, held
  <2> QED
    BY <1>1, <1>6, <1>7, <2>1, <2>2 DEF Accounted, Found
<1>9. Reasons'
  BY <1>6 DEF Reasons
<1>10. ASSUME NEW k \in S, NEW o \in Keys, ReadsFrom(o, k)
       PROVE  o \in S
  <2>1. Found(o) /\ Deletable(entry[o]) /\ k \in DependsIn(entry[o], o)
    BY <1>10 DEF ReadsFrom, Deletable, Found
  <2>2. selected = {} \/ o \in selected
    BY <1>1, <1>10, <2>1 DEF Selectable
  <2> QED
    BY <2>1, <2>2
<1>11. ReadersInPass' /\ LateIsSafe'
  <2>1. \A o, k \in Keys : ReadsFrom(o, k)' <=> ReadsFrom(o, k)
    BY <1>1 DEF ReadsFrom
  <2>2. \A o, k \in Keys : ReadsFrom(o, k) => k \in DependsOn(o)'
    BY <1>1 DEF ReadsFrom, DependsOn
  <2>3. LateIsSafe'
    BY <1>0, <1>1, <2>1 DEF LateIsSafe, TypeOK
  <2> HIDE DEF S
  <2>4. ReadersInPass'
    BY <1>2, <1>6, <1>10, <2>1, <2>2 DEF ReadersInPass
  <2> QED
    BY <2>3, <2>4
<1>12. NothingOrphaned' /\ Sending'
  BY <1>0, <1>1 DEF NothingOrphaned, Sending, Found
<1>13. Reported'
  BY <1>1, <1>2, <1>4 DEF Reported, Found
<1> QED
  BY <1>1, <1>5, <1>8, <1>9, <1>11, <1>12, <1>13 DEF IInv, Busy

\* Every step keeps the invariant, those of a destroy cut short too.
LEMMA NextKeeps == ASSUME Instance, IInv, [Next]_vars PROVE IInv'
<1>0. TypeOK /\ NothingOrphaned /\ Sending /\ Reported /\ LateIsSafe
  BY DEF IInv
<1>1. ASSUME NEW selected \in SUBSET Keys, Open(selected) PROVE IInv'
  BY <1>1, OpenKeeps
<1>2. CASE Skip
  BY <1>2, LeftOver DEF Skip, InPass, Busy
<1>3. CASE RecordFails \/ Refused \/ Unanswered \/ ForgetFails
  <2>1. Busy /\ at <= Len(pending) /\ Key \in Keys
    BY <1>0, <1>3, Split DEF RecordFails, Refused, Unanswered, ForgetFails, InPass, Busy, Sending
  <2>2. Keep /\ UNCHANGED journal
    BY <1>3 DEF RecordFails, Refused, Unanswered, ForgetFails
  <2>3. object' \subseteq object
    BY <1>3 DEF RecordFails, Refused, Unanswered, ForgetFails
  <2>4. late' \subseteq late \cup {Key} /\ (Key \in late' => Key \in late \/ ~Held)
    BY <1>0, <1>3 DEF RecordFails, Refused, Unanswered, ForgetFails, Sending
  <2>5. \/ entry' = entry
        \/ Key \notin object /\ Key \in refusedWith' /\ entry' = [entry EXCEPT ![Key] = GoneEntry]
    BY <1>0, <1>3 DEF RecordFails, Refused, Unanswered, ForgetFails, Sending, Keep
  <2> QED
    BY <2>1, <2>2, <2>3, <2>4, <2>5, LeftOver DEF Keep
<1>4. CASE Record
  <2>1. /\ pc = "pass" /\ at <= Len(pending) /\ ~Held /\ pc' = "send" /\ journal' = journal \cup {Key}
        /\ UNCHANGED <<entry, object, outside, listed, late, runs, pass>>
    BY <1>4 DEF Record, InPass
  <2>2. Key \in ToSet(pending) /\ Key \in Keys
    BY <1>0, <2>1, Split
  <2>3. TypeOK'
    BY <1>0, <2>1, <2>2 DEF TypeOK, pass
  <2>4. Sending'
    BY <2>1 DEF Sending, Held, Key, DependsOn, pass
  <2> QED
    BY <2>1, <2>2, <2>3, <2>4, InPlace DEF Busy
<1>5. CASE Landed
  <2>1. /\ pc = "send" /\ pc' = "forget" /\ object' = object \ {Key}
        /\ UNCHANGED <<entry, outside, journal, listed, late, runs, pass>>
    BY <1>5 DEF Landed
  <2>2. TypeOK'
    BY <1>0, <2>1 DEF TypeOK, pass
  <2>3. Sending'
    BY <1>0, <2>1 DEF Sending, Held, Key, DependsOn, pass
  <2> QED
    BY <2>1, <2>2, <2>3, InPlace DEF Busy
<1>6. CASE Forget
  BY <1>6, ForgetKeeps
<1>7. CASE EndPass
  BY <1>7, EndPassKeeps
<1>8. CASE Crash
  <2>1. /\ pc' = "idle" /\ pending' = << >> /\ at' = 1 /\ next' = << >> /\ progress' = FALSE
        /\ out' = << >> /\ UNCHANGED <<entry, object, journal, listed>> /\ Busy
        /\ late' = IF pc = "send" THEN late \cup {Key} ELSE late
    BY <1>8 DEF Crash
  <2>2. DOMAIN out' = {} /\ pending' \in Seq(Keys) /\ next' \in Seq(Keys) /\ at' \in 1 .. Len(pending') + 1
    BY <2>1
  <2>3. pc = "send" => Key \in Keys /\ Key \in ToSet(pending) /\ ~Held
    BY <1>0, Split DEF Sending
  <2>4. TypeOK'
    BY <1>0, <2>1, <2>2, <2>3 DEF TypeOK
  <2>5. NothingOrphaned' /\ Sending' /\ Reported'
    BY <1>0, <2>1, <2>2 DEF NothingOrphaned, Sending, Reported, Found
  <2>6. ASSUME pc = "send", NEW o \in object, o # Key PROVE ~ReadsFrom(o, Key)
    <3>1. ReadersInPass /\ o \in Keys
      BY <1>0, <2>1 DEF IInv, TypeOK
    <3> QED
      BY <2>3, <2>6, <3>1 DEF ReadersInPass, Held
  <2>7. LateIsSafe'
    BY <1>0, <2>1, <2>6 DEF LateIsSafe, ReadsFrom, Deletable, DependsIn
  <2> QED
    BY <2>1, <2>4, <2>5, <2>7 DEF IInv, Busy
<1>9. CASE UNCHANGED vars \/ \E k \in Keys : Freed(k) \/ LandsLate(k)
  <2>1. /\ UNCHANGED <<entry, journal, listed, pc, runs, pass>> /\ object' \subseteq object
        /\ late' \subseteq late
    BY <1>9 DEF Freed, LandsLate, vars, pass
  <2>2. TypeOK'
    BY <1>0, <2>1 DEF TypeOK, pass
  <2>3. Sending'
    BY <1>0, <2>1 DEF Sending, Held, Key, DependsOn, pass
  <2> QED
    BY <2>1, <2>2, <2>3, InPlace DEF Busy
<1> QED
  BY <1>1, <1>2, <1>3, <1>4, <1>5, <1>6, <1>7, <1>8, <1>9 DEF Next, Pass

\* For any keys and any record of their uses, a destroy accounts for every key.
THEOREM Invariant == ASSUME Instance PROVE Spec => []IInv
<1>1. Init => IInv
  BY InitEstablishes
<1>2. IInv /\ [Next]_vars => IInv'
  BY NextKeeps
<1> QED
  BY <1>1, <1>2, PTL DEF Spec

\* However many destroys are run, refused or cut short, an object that exists
\* has its entry.
THEOREM EntriesOutlive == ASSUME Instance PROVE Spec => []NothingOrphaned
<1>1. IInv => NothingOrphaned
  BY DEF IInv
<1> QED
  BY <1>1, Invariant, PTL

\* What an ended destroy reports is as it is.
LEMMA Truthful == ASSUME IInv PROVE ReportIsTrue
BY DEF IInv, ReportIsTrue, Ended, Reported, NothingOrphaned

\* The report of a destroy that ended is true, key by key, and leaves out
\* none a delete was recorded for, with a Forget that fails before or after
\* its tombstone is written (delete, destroy.go).
THEOREM TrueReport == ASSUME Instance PROVE Spec => []ReportIsTrue
<1>1. ASSUME IInv PROVE ReportIsTrue
  BY <1>1, Truthful
<1> QED
  BY <1>1, Invariant, PTL

\* What an ended destroy left over has its reason.
LEMMA Reasoned == ASSUME IInv PROVE GivenUpForAReason
<1>1. CASE pc = "done"
  BY <1>1 DEF IInv, Ended
<1>2. CASE pc # "done"
  BY <1>2 DEF GivenUpForAReason
<1> QED
  BY <1>1, <1>2

\* The passes end only when what is left was refused or is read from by what
\* is left.
THEOREM NoEarlyEnd == ASSUME Instance PROVE Spec => []GivenUpForAReason
<1>1. ASSUME IInv PROVE GivenUpForAReason
  BY <1>1, Reasoned
<1> QED
  BY <1>1, Invariant, PTL

\* A key is deleted when nothing that reads from it is left.
LEMMA ReadersGoFirst == ASSUME Instance, IInv, Next PROVE DependentsFirst
<1>0. TypeOK /\ Sending /\ (Busy => ReadersInPass) /\ LateIsSafe
  BY DEF IInv
<1> SUFFICES ASSUME NEW k \in object \ object', NEW o \in object', ReadsFrom(o, k) PROVE FALSE
  BY DEF DependentsFirst
<1>1. CASE Landed \/ Unanswered
  <2>1. pc = "send" /\ object' \in {object, object \ {Key}}
    BY <1>1 DEF Landed, Unanswered
  <2>2. k = Key /\ o # Key /\ o \in Keys
    BY <1>0, <2>1 DEF TypeOK
  <2>3. at <= Len(pending) /\ ~Held
    BY <1>0, <2>1 DEF Sending
  <2>4. Key \in ToSet(pending)
    BY <1>0, <2>3, Split
  <2>5. o \in ToSet(pending) /\ k \in DependsOn(o)
    BY <1>0, <2>1, <2>2, <2>4 DEF Busy, ReadersInPass
  <2> QED
    BY <2>2, <2>3, <2>5 DEF Held
<1>2. ASSUME NEW d \in Keys, LandsLate(d) PROVE FALSE
  <2>1. d \in late /\ object' \in {object, object \ {d}}
    BY <1>2 DEF LandsLate
  <2>2. k = d /\ o # d /\ o \in object
    BY <2>1
  <2> QED
    BY <1>0, <2>1, <2>2 DEF LateIsSafe
<1>3. CASE ~(Landed \/ Unanswered) /\ \A d \in Keys : ~LandsLate(d)
  BY <1>3 DEF Next, Pass, Open, Skip, Record, RecordFails, Refused, Forget, ForgetFails,
                    EndPass, Crash, Freed
<1> QED
  BY <1>1, <1>2, <1>3

\* Whatever phases the entries are in, and whenever a delete is done, no object
\* is deleted before one that is confirmed made and recorded as reading from
\* it (Open, destroy.go).  A reader never confirmed made is in no pass, and
\* what it reads from may go first.
THEOREM ReadersFirst == ASSUME Instance PROVE Spec => [][DependentsFirst]_vars
<1>1. ASSUME IInv, Next PROVE DependentsFirst
  BY <1>1, ReadersGoFirst
<1> QED
  BY <1>1, Invariant, PTL DEF Spec
=============================================================================
