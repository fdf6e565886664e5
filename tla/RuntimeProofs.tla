--------------------------- MODULE RuntimeProofs ---------------------------
(***************************************************************************)
(* Theorems about Runtime, for every value of its constants.  A section    *)
(* for each part proves its inductive invariant and what follows from it;  *)
(* a join, a section, a destroy and a graph are proved about in their own  *)
(* modules.  The last section puts the parts together.                     *)
(***************************************************************************)
EXTENDS Runtime, TLAPS

-----------------------------------------------------------------------------
(***************************************************************************)
(* A sink, for any producers, closers and queue.                           *)
(***************************************************************************)

\* An empty sink.
LEMMA SinkInitEstablishes == ASSUME Snk!Instance, Snk!Init PROVE Snk!IInv
<1>1. Snk!TypeOK /\ Snk!Positions
  <2>1. \A x \in Producers \cup Closers : pc[x] = "idle"
    BY DEF Snk!Init
  <2>2. next \in [Producers -> 1 .. PerProducer + 1]
    BY DEF Snk!Init, Snk!Instance
  <2>3. ch \in Seq(Snk!Records) /\ disk \in Seq(Snk!Records) /\ Len(ch) <= QueueCap
    BY DEF Snk!Init, Snk!Instance
  <2>4. Snk!TypeOK
    BY <2>1, <2>2, <2>3 DEF Snk!Init, Snk!TypeOK
  <2> QED
    BY <2>1, <2>4 DEF Snk!Init, Snk!Positions, Snk!Places
<1>2. Snk!Ordered /\ Snk!Kept
  BY DEF Snk!Init, Snk!Ordered, Snk!Past, Snk!InOrder, Snk!Follows, Snk!Kept, Snk!Written, Snk!Queued
<1>3. Snk!Closed
  BY DEF Snk!Init, Snk!Closed
<1> QED
  BY <1>1, <1>2, <1>3 DEF Snk!IInv

\* A step that leaves the records where they are.
LEMMA SinkElsewhere ==
  ASSUME Snk!Instance, Snk!IInv, UNCHANGED <<ch, err, disk, acked, early>>,
         Snk!TypeOK', Snk!Positions', Snk!Closed',
         \A p \in Producers : next[p] <= next'[p],
         owner' = "done" => owner = "done" \/ ch = << >>
  PROVE  Snk!IInv'
<1>0. Snk!TypeOK /\ Snk!Ordered /\ Snk!Kept
  BY DEF Snk!IInv
<1>1. \A p \in Producers : next[p] \in Nat /\ next'[p] \in Nat
  BY <1>0, Snk!TypeOK' DEF Snk!TypeOK
<1>2. disk \in Seq(Snk!Records) /\ ch \in Seq(Snk!Records)
  BY <1>0 DEF Snk!TypeOK
<1>3. \A i \in 1 .. Len(disk) : disk[i] \in Snk!Records
  BY <1>2
<1>4. \A i \in 1 .. Len(ch) : ch[i] \in Snk!Records
  BY <1>2
<1>5. \A r \in Snk!Records : r[1] \in Producers /\ r[2] \in Nat
  BY DEF Snk!Records
<1>6. Snk!Past'
  BY <1>0, <1>1, <1>3, <1>4, <1>5 DEF Snk!Ordered, Snk!Past
<1>7. Snk!Ordered'
  BY <1>0, <1>6 DEF Snk!Ordered, Snk!InOrder, Snk!Follows
<1>8. Snk!Kept'
  BY <1>0 DEF Snk!Kept, Snk!Written, Snk!Queued
<1> QED
  BY <1>7, <1>8 DEF Snk!IInv

\* A record acknowledged is queued behind all that its producer wrote.
LEMMA SinkSendKeeps == ASSUME Snk!Instance, Snk!IInv, NEW p \in Producers, Snk!Send(p) PROVE Snk!IInv'
<1>0. Snk!TypeOK /\ Snk!Ordered /\ Snk!Kept /\ Snk!Closed
  BY DEF Snk!IInv
<1>1. /\ pc[p] = "sending" /\ Len(ch) < QueueCap /\ ch' = Append(ch, Snk!Current(p))
      /\ acked' = acked \cup {Snk!Current(p)}
      /\ early' = IF closing THEN early ELSE early \cup {Snk!Current(p)}
      /\ next' = [next EXCEPT ![p] = @ + 1] /\ pc' = [pc EXCEPT ![p] = "idle"]
      /\ UNCHANGED <<closing, owner, err, disk, refused>>
  BY DEF Snk!Send
<1> DEFINE r == Snk!Current(p)
<1>2. next[p] \in Nat
  BY <1>0 DEF Snk!TypeOK
<1>3. r = <<p, next[p]>> /\ r[1] = p /\ r[2] = next[p]
  BY DEF Snk!Current
<1>4. /\ Len(ch) \in Nat /\ Len(ch') = Len(ch) + 1 /\ ch'[Len(ch) + 1] = r
      /\ \A i \in 1 .. Len(ch) : ch'[i] = ch[i] /\ ch[i] \in Snk!Records
  BY <1>0, <1>1 DEF Snk!TypeOK
<1>5. \A i \in 1 .. Len(disk) : disk[i] \in Snk!Records
  BY <1>0 DEF Snk!TypeOK
<1>6. \A x \in Snk!Records : x[1] \in Producers /\ x[2] \in Nat
  BY DEF Snk!Records
<1>7. \A q \in Producers : /\ next[q] \in Nat
                           /\ next'[q] = IF q = p THEN next[q] + 1 ELSE next[q]
  BY <1>0, <1>1 DEF Snk!TypeOK
<1>8. r \in Snk!Records
  BY <1>0, <1>1, <1>2, <1>3 DEF Snk!IInv, Snk!Positions, Snk!TypeOK, Snk!Records
<1> HIDE DEF r
<1>9. Snk!TypeOK'
  <2>1. ch' \in Seq(Snk!Records) /\ Len(ch') <= QueueCap
    BY <1>0, <1>1, <1>4, <1>8 DEF Snk!TypeOK, Snk!Instance, r
  <2>2. next' \in [Producers -> 1 .. PerProducer + 1]
    BY <1>0, <1>1, <1>2 DEF Snk!TypeOK, Snk!IInv, Snk!Positions, Snk!Instance
  <2>3. /\ \A q \in Producers : pc'[q] \in {"idle", "entered", "sending"}
        /\ \A c \in Closers : pc'[c] \in {"idle", "waiting", "closed", "failed"}
    BY <1>0, <1>1 DEF Snk!TypeOK, Snk!IInv, Snk!Positions
  <2>4. acked' \subseteq Snk!Records /\ refused' \subseteq Snk!Records /\ early' \subseteq acked'
    BY <1>0, <1>1, <1>8 DEF Snk!TypeOK, r
  <2> QED
    BY <1>0, <1>1, <2>1, <2>2, <2>3, <2>4 DEF Snk!TypeOK
<1>10. Snk!Positions' /\ Snk!Closed'
  <2>1. \A x \in Producers \cup Closers : pc'[x] = IF x = p THEN "idle" ELSE pc[x]
    BY <1>1 DEF Snk!IInv, Snk!Positions
  <2>2. Snk!Positions'
    BY <1>1, <1>7, <2>1 DEF Snk!IInv, Snk!Positions, Snk!Places
  <2> QED
    BY <1>0, <1>1, <2>1, <2>2 DEF Snk!Closed
<1>11. Snk!Ordered'
  <2>1. Snk!Past'
    BY <1>0, <1>1, <1>3, <1>4, <1>5, <1>6, <1>7 DEF Snk!Ordered, Snk!Past
  <2>2. Snk!InOrder(disk)'
    BY <1>0, <1>1 DEF Snk!Ordered, Snk!InOrder
  <2>3. Snk!InOrder(ch)'
    <3> SUFFICES ASSUME NEW i \in 1 .. Len(ch'), NEW j \in 1 .. Len(ch'),
                        i < j, ch'[i][1] = ch'[j][1]
                 PROVE  ch'[i][2] < ch'[j][2]
      BY DEF Snk!InOrder
    <3>1. i \in 1 .. Len(ch) /\ ch'[i] = ch[i]
      BY <1>4
    <3>2. CASE j \in 1 .. Len(ch)
      BY <1>0, <1>4, <3>1, <3>2 DEF Snk!Ordered, Snk!InOrder
    <3>3. CASE j = Len(ch) + 1
      BY <1>0, <1>3, <1>4, <3>1, <3>3 DEF Snk!Ordered, Snk!Past
    <3> QED
      BY <1>4, <3>2, <3>3
  <2>4. Snk!Follows'
    BY <1>0, <1>1, <1>3, <1>4, <1>5, <1>6 DEF Snk!Ordered, Snk!Follows, Snk!Past
  <2> QED
    BY <2>1, <2>2, <2>3, <2>4 DEF Snk!Ordered
<1>12. Snk!Kept'
  <2>1. \A x : Snk!Written(x)' <=> Snk!Written(x)
    BY <1>1 DEF Snk!Written
  <2>2. \A x : Snk!Queued(x)' <=> Snk!Queued(x) \/ x = r
    BY <1>4 DEF Snk!Queued
  <2>3. early' \subseteq early \cup {r} /\ acked' = acked \cup {r}
    BY <1>1 DEF r
  <2>4. owner = "done" => early' = early
    BY <1>0, <1>1 DEF Snk!Closed
  <2> QED
    BY <1>0, <1>1, <2>1, <2>2, <2>3, <2>4 DEF Snk!Kept
<1> QED
  BY <1>9, <1>10, <1>11, <1>12 DEF Snk!IInv

\* The head of the queue goes to the destination, behind all that is there.
LEMMA SinkWriteKeeps ==
  ASSUME Snk!Instance, Snk!IInv, NEW fails \in BOOLEAN, Snk!WriteHead(fails),
         owner \in {"serve", "flush"}, owner' = owner
  PROVE  Snk!IInv'
<1>0. Snk!TypeOK /\ Snk!Positions /\ Snk!Ordered /\ Snk!Kept /\ Snk!Closed
  BY DEF Snk!IInv
<1>1. /\ ch # << >> /\ ch' = Tail(ch)
      /\ UNCHANGED <<closing, pc, next, acked, refused, early>>
      /\ \/ UNCHANGED disk /\ err'
         \/ disk' = Append(disk, Head(ch)) /\ err' = FALSE /\ ~err
      /\ err' \in BOOLEAN /\ (err => err')
  BY <1>0 DEF Snk!WriteHead, Snk!TypeOK
<1>2. ch \in Seq(Snk!Records) /\ disk \in Seq(Snk!Records)
  BY <1>0 DEF Snk!TypeOK
<1>3. /\ Len(ch) \in Nat /\ Len(ch) > 0 /\ Len(ch') = Len(ch) - 1 /\ Head(ch) = ch[1]
      /\ \A i \in 1 .. Len(ch) - 1 : ch'[i] = ch[i + 1]
      /\ \A i \in 1 .. Len(ch) : ch[i] \in Snk!Records
      /\ ch' \in Seq(Snk!Records)
  BY <1>1, <1>2
<1>4. \A x \in Snk!Records : x[1] \in Producers /\ x[2] \in Nat
  BY DEF Snk!Records
<1>5. \A i \in 1 .. Len(disk) : disk[i] \in Snk!Records
  BY <1>2
<1>6. Snk!InOrder(ch)' /\ \A i \in 1 .. Len(ch') : i + 1 \in 1 .. Len(ch) /\ ch'[i] = ch[i + 1]
  <2>1. \A i \in 1 .. Len(ch') : i + 1 \in 1 .. Len(ch) /\ ch'[i] = ch[i + 1]
    BY <1>3
  <2> SUFFICES ASSUME NEW i \in 1 .. Len(ch'), NEW j \in 1 .. Len(ch'),
                      i < j, ch'[i][1] = ch'[j][1]
               PROVE  ch'[i][2] < ch'[j][2]
    BY <2>1 DEF Snk!InOrder
  <2>2. /\ i + 1 \in 1 .. Len(ch) /\ j + 1 \in 1 .. Len(ch) /\ i + 1 < j + 1
        /\ ch'[i] = ch[i + 1] /\ ch'[j] = ch[j + 1]
    BY <2>1
  <2> QED
    BY <1>0, <2>2 DEF Snk!Ordered, Snk!InOrder
<1>7. \A x : Snk!Queued(x)' => Snk!Queued(x)
  BY <1>6 DEF Snk!Queued
<1>8. \A x : Snk!Queued(x) => Snk!Queued(x)' \/ x = Head(ch)
  <2> SUFFICES ASSUME NEW x, Snk!Queued(x) PROVE Snk!Queued(x)' \/ x = Head(ch)
    OBVIOUS
  <2>0. PICK i \in 1 .. Len(ch) : ch[i] = x
    BY DEF Snk!Queued
  <2>1. CASE i = 1
    BY <1>3, <2>0, <2>1
  <2>2. CASE i # 1
    <3>1. i - 1 \in 1 .. Len(ch') /\ ch'[i - 1] = x
      BY <1>3, <2>0, <2>2
    <3> QED
      BY <3>1 DEF Snk!Queued
  <2> QED
    BY <2>1, <2>2
<1>9. Snk!Positions' /\ Snk!Closed'
  BY <1>0, <1>1 DEF Snk!Positions, Snk!Closed
<1>10. CASE UNCHANGED disk /\ err'
  <2>1. Snk!TypeOK'
    BY <1>0, <1>1, <1>3, <1>10 DEF Snk!TypeOK, Snk!Instance
  <2>2. Snk!Ordered'
    <3>1. Snk!Past'
      BY <1>0, <1>1, <1>6, <1>10 DEF Snk!Ordered, Snk!Past
    <3>2. Snk!Follows' /\ Snk!InOrder(disk)'
      BY <1>0, <1>6, <1>10 DEF Snk!Ordered, Snk!Follows, Snk!InOrder
    <3> QED
      BY <1>6, <3>1, <3>2 DEF Snk!Ordered
  <2>3. Snk!Kept'
    BY <1>0, <1>1, <1>7, <1>10 DEF Snk!Kept, Snk!Written
  <2> QED
    BY <1>9, <2>1, <2>2, <2>3 DEF Snk!IInv
<1>11. CASE disk' = Append(disk, Head(ch)) /\ err' = FALSE /\ ~err
  <2>1. /\ disk' \in Seq(Snk!Records) /\ Len(disk) \in Nat /\ Len(disk') = Len(disk) + 1
        /\ disk'[Len(disk) + 1] = ch[1]
        /\ \A i \in 1 .. Len(disk) : disk'[i] = disk[i]
    BY <1>2, <1>3, <1>11
  <2>2. Snk!TypeOK'
    BY <1>0, <1>1, <1>3, <1>11, <2>1 DEF Snk!TypeOK, Snk!Instance
  <2>3. Snk!Ordered'
    <3>1. Snk!Past'
      <4>1. ASSUME NEW p \in Producers, NEW i \in 1 .. Len(ch'), ch'[i][1] = p
            PROVE  ch'[i][2] < next[p]
        BY <1>0, <1>6, <4>1 DEF Snk!Ordered, Snk!Past
      <4>2. ASSUME NEW p \in Producers, NEW i \in 1 .. Len(disk'), disk'[i][1] = p
            PROVE  disk'[i][2] < next[p]
        <5>1. CASE i \in 1 .. Len(disk)
          BY <1>0, <2>1, <4>2, <5>1 DEF Snk!Ordered, Snk!Past
        <5>2. CASE i = Len(disk) + 1
          BY <1>0, <1>3, <2>1, <4>2, <5>2 DEF Snk!Ordered, Snk!Past
        <5> QED
          BY <2>1, <5>1, <5>2
      <4> QED
        BY <1>1, <4>1, <4>2 DEF Snk!Past
    <3>2. Snk!InOrder(disk)'
      <4> SUFFICES ASSUME NEW i \in 1 .. Len(disk'), NEW j \in 1 .. Len(disk'),
                          i < j, disk'[i][1] = disk'[j][1]
                   PROVE  disk'[i][2] < disk'[j][2]
        BY DEF Snk!InOrder
      <4>1. i \in 1 .. Len(disk) /\ disk'[i] = disk[i]
        BY <2>1
      <4>2. CASE j \in 1 .. Len(disk)
        BY <1>0, <2>1, <4>1, <4>2 DEF Snk!Ordered, Snk!InOrder
      <4>3. CASE j = Len(disk) + 1
        BY <1>0, <1>3, <2>1, <4>1, <4>3 DEF Snk!Ordered, Snk!Follows
      <4> QED
        BY <2>1, <4>2, <4>3
    <3>3. Snk!Follows'
      <4> SUFFICES ASSUME NEW i \in 1 .. Len(disk'), NEW j \in 1 .. Len(ch'),
                          disk'[i][1] = ch'[j][1]
                   PROVE  disk'[i][2] < ch'[j][2]
        BY DEF Snk!Follows
      <4>1. j + 1 \in 1 .. Len(ch) /\ ch'[j] = ch[j + 1]
        BY <1>6
      <4>2. CASE i \in 1 .. Len(disk)
        BY <1>0, <2>1, <4>1, <4>2 DEF Snk!Ordered, Snk!Follows
      <4>3. CASE i = Len(disk) + 1
        BY <1>0, <1>3, <2>1, <4>1, <4>3 DEF Snk!Ordered, Snk!InOrder
      <4> QED
        BY <2>1, <4>2, <4>3
    <3> QED
      BY <1>6, <3>1, <3>2, <3>3 DEF Snk!Ordered
  <2>4. Snk!Kept'
    <3>1. \A x : Snk!Written(x)' <=> Snk!Written(x) \/ x = Head(ch)
      BY <1>3, <2>1 DEF Snk!Written
    <3>2. Snk!Queued(Head(ch))
      BY <1>3 DEF Snk!Queued
    <3> QED
      BY <1>0, <1>1, <1>7, <1>8, <1>11, <3>1, <3>2 DEF Snk!Kept
  <2> QED
    BY <1>9, <2>2, <2>3, <2>4 DEF Snk!IInv
<1> QED
  BY <1>1, <1>10, <1>11

\* Every step keeps the invariant.
LEMMA SinkNextKeeps == ASSUME Snk!Instance, Snk!IInv, [Snk!Next]_(Snk!vars) PROVE Snk!IInv'
<1>0. Snk!TypeOK /\ Snk!Positions /\ Snk!Ordered /\ Snk!Kept /\ Snk!Closed
  BY DEF Snk!IInv
<1>1. \A p \in Producers : next[p] \in Nat
  BY <1>0 DEF Snk!TypeOK
<1>2. ASSUME NEW p \in Producers, pc[p] # "idle" \/ next[p] <= PerProducer, Snk!Refuse(p) PROVE Snk!IInv'
  <2>1. next[p] <= PerProducer
    BY <1>0, <1>2 DEF Snk!Positions
  <2>2. /\ UNCHANGED <<ch, closing, owner, err, disk, acked, early>>
        /\ refused' = refused \cup {<<p, next[p]>>}
        /\ next' = [next EXCEPT ![p] = @ + 1] /\ pc' = [pc EXCEPT ![p] = "idle"]
    BY <1>2 DEF Snk!Refuse, Snk!Current
  <2>3. <<p, next[p]>> \in Snk!Records
    BY <1>0, <2>1 DEF Snk!TypeOK, Snk!Records
  <2>4. \A x \in Producers \cup Closers : pc'[x] = IF x = p THEN "idle" ELSE pc[x]
    BY <1>0, <2>2 DEF Snk!Positions
  <2>5. \A q \in Producers : next'[q] = IF q = p THEN next[q] + 1 ELSE next[q]
    BY <1>0, <2>2 DEF Snk!TypeOK
  <2>6. Snk!TypeOK'
    <3>1. next' \in [Producers -> 1 .. PerProducer + 1]
      BY <1>0, <1>1, <2>1, <2>2 DEF Snk!TypeOK, Snk!Instance
    <3>2. refused' \subseteq Snk!Records
      BY <1>0, <2>2, <2>3 DEF Snk!TypeOK
    <3>3. /\ \A q \in Producers : pc'[q] \in {"idle", "entered", "sending"}
          /\ \A c \in Closers : pc'[c] \in {"idle", "waiting", "closed", "failed"}
      BY <1>0, <2>4 DEF Snk!TypeOK
    <3> QED
      BY <1>0, <2>2, <3>1, <3>2, <3>3 DEF Snk!TypeOK
  <2>7. Snk!Positions'
    BY <1>0, <2>2, <2>4, <2>5 DEF Snk!Positions, Snk!Places
  <2>8. Snk!Closed'
    BY <1>0, <2>2, <2>4 DEF Snk!Closed
  <2>9. \A q \in Producers : next[q] <= next'[q]
    BY <1>1, <2>5
  <2> QED
    BY <2>2, <2>6, <2>7, <2>8, <2>9, SinkElsewhere
<1>3. ASSUME NEW p \in Producers, NEW to \in {"entered", "sending"}, next[p] <= PerProducer,
             pc' = [pc EXCEPT ![p] = to],
             UNCHANGED <<ch, closing, owner, err, disk, next, acked, refused, early>>
      PROVE  Snk!IInv'
  <2>1. \A x \in Producers \cup Closers : pc'[x] = IF x = p THEN to ELSE pc[x]
    BY <1>0, <1>3 DEF Snk!Positions
  <2>2. Snk!TypeOK'
    BY <1>0, <1>3, <2>1 DEF Snk!TypeOK, Snk!Instance
  <2>3. Snk!Positions'
    BY <1>0, <1>3, <2>1 DEF Snk!Positions, Snk!Places
  <2>4. Snk!Closed'
    BY <1>0, <1>3, <2>1 DEF Snk!Closed, Snk!Instance
  <2>5. \A q \in Producers : next[q] <= next'[q]
    BY <1>1, <1>3
  <2> QED
    BY <1>3, <2>2, <2>3, <2>4, <2>5, SinkElsewhere
<1>4. ASSUME NEW p \in Producers, Snk!ProducerStep(p) PROVE Snk!IInv'
  <2>1. CASE Snk!Enter(p)
    BY <1>2, <1>3, <2>1 DEF Snk!Enter
  <2>2. CASE Snk!CheckClosed(p)
    BY <1>0, <1>2, <1>3, <2>2 DEF Snk!CheckClosed, Snk!Positions
  <2>3. CASE Snk!Send(p)
    BY <2>3, SinkSendKeeps
  <2>4. CASE Snk!SendRefused(p)
    BY <1>2, <2>4 DEF Snk!SendRefused
  <2> QED
    BY <1>4, <2>1, <2>2, <2>3, <2>4 DEF Snk!ProducerStep
<1>5. ASSUME NEW c \in Closers, Snk!CloserStep(c) PROVE Snk!IInv'
  <2>1. PICK to \in {"waiting", "closed", "failed"} :
           /\ pc' = [pc EXCEPT ![c] = to] /\ (to = "closed" => ~err /\ owner = "done")
           /\ UNCHANGED <<ch, owner, err, disk, next, acked, refused, early>>
           /\ closing' \in BOOLEAN /\ (closing => closing')
    BY <1>0, <1>5 DEF Snk!CloserStep, Snk!Close, Snk!CloseReturns, Snk!TypeOK
  <2>2. \A x \in Producers \cup Closers : pc'[x] = IF x = c THEN to ELSE pc[x]
    BY <1>0, <2>1 DEF Snk!Positions
  <2>3. Snk!TypeOK'
    <3>1. /\ \A q \in Producers : pc'[q] \in {"idle", "entered", "sending"}
          /\ \A d \in Closers : pc'[d] \in {"idle", "waiting", "closed", "failed"}
      BY <1>0, <2>2 DEF Snk!TypeOK, Snk!Instance
    <3> QED
      BY <1>0, <2>1, <3>1 DEF Snk!TypeOK
  <2>4. Snk!Positions'
    BY <1>0, <2>1, <2>2 DEF Snk!Positions, Snk!Places, Snk!Instance
  <2>5. Snk!Closed'
    BY <1>0, <2>1, <2>2 DEF Snk!Closed
  <2>6. \A q \in Producers : next[q] <= next'[q]
    BY <1>1, <2>1
  <2> QED
    BY <2>1, <2>3, <2>4, <2>5, <2>6, SinkElsewhere
<1>6. CASE Snk!OwnerStep
  <2>1. ASSUME NEW fails \in BOOLEAN, Snk!Serve(fails) \/ Snk!Flush(fails) PROVE Snk!IInv'
    BY <2>1, SinkWriteKeeps DEF Snk!Serve, Snk!Flush
  <2>2. CASE Snk!StartFlush \/ Snk!StopFlush
    <3>1. /\ UNCHANGED <<ch, closing, err, disk, pc, next, acked, refused, early>>
          /\ closing /\ owner \in {"serve", "flush"} /\ owner' \in {"flush", "done"}
          /\ owner' = "done" => ch = << >>
      BY <1>0, <2>2 DEF Snk!StartFlush, Snk!StopFlush, Snk!Closed
    <3>2. Snk!TypeOK' /\ Snk!Positions' /\ Snk!Closed'
      BY <1>0, <3>1 DEF Snk!TypeOK, Snk!Positions, Snk!Closed
    <3>3. \A q \in Producers : next[q] <= next'[q]
      BY <1>1, <3>1
    <3> QED
      BY <3>1, <3>2, <3>3, SinkElsewhere
  <2> QED
    BY <1>6, <2>1, <2>2 DEF Snk!OwnerStep
<1>7. CASE UNCHANGED Snk!vars
  <2>1. /\ UNCHANGED <<ch, closing, owner, err, disk, pc, next, acked, refused, early>>
    BY <1>7 DEF Snk!vars
  <2>2. Snk!TypeOK' /\ Snk!Positions' /\ Snk!Closed'
    BY <1>0, <2>1 DEF Snk!TypeOK, Snk!Positions, Snk!Closed
  <2>3. \A q \in Producers : next[q] <= next'[q]
    BY <1>1, <2>1
  <2> QED
    BY <2>1, <2>2, <2>3, SinkElsewhere
<1> QED
  BY <1>4, <1>5, <1>6, <1>7 DEF Snk!Next, Snk!Finished

\* For any producers and closers, what is queued and written is in order,
\* acknowledged, and none of it lost before an error.
THEOREM SinkInvariant == ASSUME Snk!Instance PROVE Snk!Spec => []Snk!IInv
<1>1. Snk!Init => Snk!IInv
  BY SinkInitEstablishes
<1>2. Snk!IInv /\ [Snk!Next]_(Snk!vars) => Snk!IInv'
  BY SinkNextKeeps
<1> QED
  BY <1>1, <1>2, PTL DEF Snk!Spec

\* What is written is in order and was acknowledged.
LEMMA SinkOrderly == ASSUME Snk!IInv PROVE Snk!DiskInOrder
<1>1. disk \in Seq(Snk!Records) /\ DOMAIN disk = 1 .. Len(disk)
  BY DEF Snk!IInv, Snk!TypeOK
<1> QED
  BY <1>1 DEF Snk!DiskInOrder, Snk!Range, Snk!IInv, Snk!Ordered, Snk!InOrder, Snk!Kept, Snk!Written

\* The destination holds each producer's records once and in order, and none
\* that no Write acknowledged, whatever the schedule of producers, owner and
\* closers.
THEOREM SinkFanIn == ASSUME Snk!Instance PROVE Snk!Spec => []Snk!DiskInOrder
<1>1. ASSUME Snk!IInv PROVE Snk!DiskInOrder
  BY <1>1, SinkOrderly
<1> QED
  BY <1>1, SinkInvariant, PTL

\* What was acknowledged in time is written when the owner has stopped.
LEMMA SinkFlushed == ASSUME Snk!IInv PROVE Snk!CleanCloseKeepsEarly
<1>1. disk \in Seq(Snk!Records) /\ DOMAIN disk = 1 .. Len(disk)
  BY DEF Snk!IInv, Snk!TypeOK
<1> QED
  BY <1>1 DEF Snk!CleanCloseKeepsEarly, Snk!Range, Snk!IInv, Snk!Closed, Snk!Kept, Snk!Written

\* A Close that returns without an error has flushed every record that was
\* acknowledged before the first Close.
THEOREM SinkCleanClose == ASSUME Snk!Instance PROVE Snk!Spec => []Snk!CleanCloseKeepsEarly
<1>1. ASSUME Snk!IInv PROVE Snk!CleanCloseKeepsEarly
  BY <1>1, SinkFlushed
<1> QED
  BY <1>1, SinkInvariant, PTL

\* The owner drops and a Write refuses what comes after the error.
LEMMA SinkSticks == ASSUME Snk!Instance, Snk!IInv, Snk!Next PROVE Snk!ErrorSticks
<1> SUFFICES ASSUME err
             PROVE  /\ err' /\ disk' = disk
                    /\ \A p \in Producers : pc[p] = "idle" => pc'[p] = "idle"
  BY DEF Snk!ErrorSticks
<1>1. Snk!Positions
  BY DEF Snk!IInv
<1>2. CASE Snk!OwnerStep
  BY <1>2 DEF Snk!OwnerStep, Snk!Serve, Snk!Flush, Snk!WriteHead, Snk!StartFlush, Snk!StopFlush
<1>3. ASSUME NEW c \in Closers, Snk!CloserStep(c)
      PROVE  /\ err' /\ disk' = disk
             /\ \A p \in Producers : pc[p] = "idle" => pc'[p] = "idle"
  BY <1>1, <1>3 DEF Snk!CloserStep, Snk!Close, Snk!CloseReturns, Snk!Positions, Snk!Instance
<1>4. ASSUME NEW p \in Producers, Snk!ProducerStep(p)
      PROVE  /\ err' /\ disk' = disk
             /\ \A q \in Producers : pc[q] = "idle" => pc'[q] = "idle"
  BY <1>1, <1>4 DEF Snk!ProducerStep, Snk!Enter, Snk!CheckClosed, Snk!Send, Snk!SendRefused, Snk!Refuse, Snk!Positions
<1> QED
  BY <1>2, <1>3, <1>4 DEF Snk!Next, Snk!Finished, Snk!vars

\* After the destination's first error nothing more reaches it and every new
\* Write is refused.
THEOREM SinkSticky == ASSUME Snk!Instance PROVE Snk!Spec => [][Snk!ErrorSticks]_(Snk!vars)
<1>1. ASSUME Snk!IInv, Snk!Next PROVE Snk!ErrorSticks
  BY <1>1, SinkSticks
<1> QED
  BY <1>1, SinkInvariant, PTL DEF Snk!Spec

-----------------------------------------------------------------------------
(***************************************************************************)
(* A schedule, for any finite set of nodes and slots.                      *)
(***************************************************************************)

\* What a node waits for is finite and can be counted.
LEMMA ScheduleWaiting ==
  ASSUME Sch!Instance, Sch!TypeOK, NEW n \in Nodes
  PROVE  /\ Sch!IsFiniteSet(Sch!Waits(n)) /\ Sch!Cardinality(Sch!Waits(n)) \in 0 .. Sch!Cardinality(Nodes)
         /\ Sch!Cardinality(Sch!Waits(n)) = 0 <=> Sch!Waits(n) = {}
<1>1. Sch!Waits(n) \in SUBSET Nodes
  BY DEF Sch!TypeOK, Sch!Waits
<1>2. Sch!IsFiniteSet(Sch!Waits(n)) /\ Sch!Cardinality(Sch!Waits(n)) <= Sch!Cardinality(Nodes)
  BY <1>1, Sch!FS_Subset DEF Sch!Instance
<1>3. Sch!Cardinality(Sch!Waits(n)) \in Nat /\ Sch!Cardinality(Nodes) \in Nat
  BY <1>2, Sch!FS_CardinalityType DEF Sch!Instance
<1>4. Sch!Cardinality(Sch!Waits(n)) = 0 <=> Sch!Waits(n) = {}
  BY <1>2, Sch!FS_EmptySet
<1> QED
  BY <1>2, <1>3, <1>4

\* Before Run nothing is done and every count is of all dependencies.
LEMMA ScheduleInitEstablishes == ASSUME Sch!Instance, Sch!Init PROVE Sch!IInv
<1>1. \A n \in Nodes : deps[n] \in SUBSET Nodes /\ Sch!Waits(n) = deps[n]
  BY DEF Sch!Init, Sch!Waits
<1>2. \A n \in Nodes : Sch!Cardinality(deps[n]) \in 0 .. Sch!Cardinality(Nodes)
  <2> TAKE n \in Nodes
  <2>1. Sch!IsFiniteSet(deps[n]) /\ Sch!Cardinality(deps[n]) <= Sch!Cardinality(Nodes)
    BY <1>1, Sch!FS_Subset DEF Sch!Instance
  <2> QED
    BY <2>1, Sch!FS_CardinalityType
<1>3. Sch!TypeOK
  BY <1>2 DEF Sch!Init, Sch!TypeOK
<1> QED
  BY <1>1, <1>3 DEF Sch!Init, Sch!IInv, Sch!Counted, Sch!Launched, Sch!Causes, Sch!Left

\* A result taken off doneCh takes its node from every count it is in.
LEMMA ScheduleReceiveCounts ==
  ASSUME Sch!Instance, Sch!IInv, NEW n \in Nodes, Sch!Receive(n)
  PROVE  /\ node' \in [Nodes -> {"none", "done"} \cup Sch!Live]
         /\ indeg' \in [Nodes -> 0 .. Sch!Cardinality(Nodes)]
         /\ firstErr' = "nil" => \A m \in Nodes : indeg'[m] = Sch!Cardinality(Sch!Waits(m)')
<1>0. Sch!TypeOK /\ Sch!Counted /\ Sch!Launched
  BY DEF Sch!IInv
<1>1. /\ stage = "loop" /\ node[n] \in Sch!Reporting /\ node[n] # "done" /\ deps' = deps
      /\ firstErr' = IF node[n] # "ok" /\ firstErr = "nil" THEN node[n] ELSE firstErr
      /\ indeg' = IF node[n] = "ok" /\ firstErr = "nil" THEN Sch!Satisfied(n) ELSE indeg
      /\ node' = [m \in Nodes |->
            IF m = n THEN "done"
            ELSE IF indeg'[m] = 0 /\ indeg[m] # 0 THEN "acquire" ELSE node[m]]
  BY DEF Sch!Receive, Sch!Reporting
<1>2. node' \in [Nodes -> {"none", "done"} \cup Sch!Live]
  BY <1>0, <1>1 DEF Sch!TypeOK, Sch!Live
<1>3. CASE node[n] = "ok" /\ firstErr = "nil"
  <2> SUFFICES ASSUME NEW m \in Nodes
               PROVE  /\ indeg'[m] = Sch!Cardinality(Sch!Waits(m)')
                      /\ indeg'[m] \in 0 .. Sch!Cardinality(Nodes)
    BY <1>1, <1>2, <1>3 DEF Sch!Satisfied
  <2>1. indeg'[m] = IF n \in deps[m] THEN indeg[m] - 1 ELSE indeg[m]
    BY <1>1, <1>3 DEF Sch!Satisfied, Sch!Dependents
  <2>2. Sch!Waits(m)' = Sch!Waits(m) \ {n}
    <3>1. \A d \in Nodes : node[d] = "none" <=> indeg[d] # 0
      BY <1>0, <1>1, <1>3 DEF Sch!Launched
    <3>2. \A d \in Nodes : node'[d] # "done" <=> d # n /\ node[d] # "done"
      BY <1>1, <3>1
    <3>3. deps[m] \in SUBSET Nodes /\ deps'[m] = deps[m]
      BY <1>0, <1>1 DEF Sch!TypeOK
    <3>4. Sch!Waits(m)' = {d \in deps[m] : node'[d] # "done"}
      BY <3>3 DEF Sch!Waits
    <3> QED
      BY <3>2, <3>3, <3>4 DEF Sch!Waits
  <2>3. n \in Sch!Waits(m) <=> n \in deps[m]
    BY <1>1 DEF Sch!Waits
  <2>4. /\ Sch!IsFiniteSet(Sch!Waits(m)) /\ indeg[m] = Sch!Cardinality(Sch!Waits(m))
        /\ Sch!Cardinality(Sch!Waits(m)) \in 0 .. Sch!Cardinality(Nodes)
    BY <1>0, <1>3, ScheduleWaiting DEF Sch!Counted
  <2>5. /\ Sch!IsFiniteSet(Sch!Waits(m) \ {n})
        /\ Sch!Cardinality(Sch!Waits(m) \ {n}) =
              IF n \in Sch!Waits(m) THEN Sch!Cardinality(Sch!Waits(m)) - 1 ELSE Sch!Cardinality(Sch!Waits(m))
    BY <2>4, Sch!FS_RemoveElement
  <2>6. Sch!Cardinality(Sch!Waits(m) \ {n}) \in Nat /\ Sch!Cardinality(Nodes) \in Nat
    BY <2>5, Sch!FS_CardinalityType DEF Sch!Instance
  <2> QED
    BY <2>1, <2>2, <2>3, <2>4, <2>5, <2>6
<1>4. CASE ~(node[n] = "ok" /\ firstErr = "nil")
  BY <1>0, <1>1, <1>2, <1>4 DEF Sch!TypeOK, Sch!Reporting
<1> QED
  BY <1>3, <1>4

\* Every step keeps the invariant.
LEMMA ScheduleNextKeeps == ASSUME Sch!Instance, Sch!IInv, [Sch!Next]_(Sch!vars) PROVE Sch!IInv'
<1>0. Sch!TypeOK /\ Sch!Counted /\ Sch!Launched /\ Sch!Causes /\ Sch!Left
  BY DEF Sch!IInv
<1>1. CASE Sch!Start
  <2>1. UNCHANGED <<deps, indeg, cancelled, byCaller, firstErr>> /\ stage = "new"
    BY <1>1 DEF Sch!Start
  <2>2. \A n \in Nodes : node[n] = "none"
    BY <1>0, <2>1 DEF Sch!Launched
  <2>3. \A n \in Nodes : node'[n] # "done" /\ node'[n] # "ctx"
    BY <1>1, <2>2 DEF Sch!Start
  <2>4. Sch!TypeOK'
    BY <1>0, <1>1, <2>1 DEF Sch!TypeOK, Sch!Start, Sch!Live
  <2>5. Sch!Counted'
    <3>1. \A n \in Nodes : Sch!Waits(n)' = Sch!Waits(n)
      BY <1>0, <2>1, <2>2, <2>3 DEF Sch!Waits, Sch!TypeOK
    <3> QED
      BY <1>0, <2>1, <3>1 DEF Sch!Counted
  <2>6. Sch!Launched'
    BY <1>0, <1>1, <2>1, <2>2 DEF Sch!Launched, Sch!Start
  <2>7. Sch!Causes' /\ Sch!Left'
    BY <1>0, <1>1, <2>1, <2>3 DEF Sch!Causes, Sch!Left, Sch!Start
  <2> QED
    BY <2>4, <2>5, <2>6, <2>7 DEF Sch!IInv
<1>2. ASSUME NEW n \in Nodes, Sch!NodeStep(n) PROVE Sch!IInv'
  <2>1. /\ UNCHANGED <<deps, indeg, stage, cancelled, byCaller, firstErr>>
        /\ node[n] \in {"acquire", "running"}
        /\ \E to \in {"running"} \cup Sch!Reporting : /\ node' = [node EXCEPT ![n] = to]
                                                      /\ to = "ctx" => cancelled
    BY <1>2 DEF Sch!NodeStep, Sch!Acquire, Sch!AcquireRefused, Sch!Finish, Sch!Reporting
  <2>2. /\ node'[n] \in {"running"} \cup Sch!Reporting /\ node'[n] = "ctx" => cancelled
        /\ \A m \in Nodes : m # n => node'[m] = node[m]
        /\ node' \in [Nodes -> {"none", "done"} \cup Sch!Live]
    BY <1>0, <2>1 DEF Sch!TypeOK, Sch!Live
  <2>3. \A m \in Nodes : Sch!Waits(m)' = Sch!Waits(m)
    BY <1>0, <2>1, <2>2 DEF Sch!Waits, Sch!TypeOK, Sch!Reporting
  <2>4. stage \in {"loop"}
    BY <1>0, <2>1 DEF Sch!TypeOK, Sch!Launched, Sch!Left, Sch!At, Sch!Live
  <2>5. Sch!TypeOK' /\ Sch!Counted'
    BY <1>0, <2>1, <2>2, <2>3 DEF Sch!TypeOK, Sch!Counted
  <2>6. Sch!Launched'
    BY <1>0, <2>1, <2>2, <2>4 DEF Sch!Launched, Sch!Reporting
  <2>7. Sch!Causes' /\ Sch!Left'
    BY <1>0, <2>1, <2>2, <2>4 DEF Sch!Causes, Sch!Left
  <2> QED
    BY <2>5, <2>6, <2>7 DEF Sch!IInv
<1>3. ASSUME NEW n \in Nodes, Sch!Receive(n) PROVE Sch!IInv'
  <2>1. /\ stage = "loop" /\ node[n] \in Sch!Reporting /\ UNCHANGED <<deps, stage, byCaller>>
        /\ firstErr' = IF node[n] # "ok" /\ firstErr = "nil" THEN node[n] ELSE firstErr
        /\ cancelled' = (cancelled \/ node[n] # "ok")
        /\ indeg' = IF node[n] = "ok" /\ firstErr = "nil" THEN Sch!Satisfied(n) ELSE indeg
        /\ node' = [m \in Nodes |->
              IF m = n THEN "done"
              ELSE IF indeg'[m] = 0 /\ indeg[m] # 0 THEN "acquire" ELSE node[m]]
    BY <1>3 DEF Sch!Receive
  <2>2. Sch!TypeOK'
    BY <1>0, <1>3, <2>1, ScheduleReceiveCounts DEF Sch!TypeOK, Sch!Reporting
  <2>3. Sch!Counted'
    BY <1>3, ScheduleReceiveCounts DEF Sch!Counted
  <2>4. Sch!Launched'
    <3> SUFFICES ASSUME firstErr' = "nil", NEW m \in Nodes
                 PROVE  node'[m] = "none" <=> indeg'[m] # 0
      BY <2>1 DEF Sch!Launched
    <3>1. firstErr = "nil" /\ node[n] = "ok" /\ indeg' = Sch!Satisfied(n)
      BY <2>1, <1>0 DEF Sch!Reporting
    <3>2. indeg[m] \in Nat /\ indeg'[m] \in Nat /\ indeg'[m] <= indeg[m]
      BY <1>0, <2>1, <2>2, <3>1 DEF Sch!TypeOK, Sch!Satisfied
    <3>3. node[m] = "none" <=> indeg[m] # 0
      BY <1>0, <2>1, <3>1 DEF Sch!Launched
    <3> QED
      BY <2>1, <3>1, <3>2, <3>3 DEF Sch!Reporting
  <2>5. Sch!Causes'
    BY <1>0, <2>1 DEF Sch!Causes, Sch!Reporting
  <2>6. Sch!Left'
    BY <2>1 DEF Sch!Left
  <2> QED
    BY <2>2, <2>3, <2>4, <2>5, <2>6 DEF Sch!IInv
<1>4. CASE Sch!Return
  <2>1. \A n \in Nodes : Sch!Waits(n)' = Sch!Waits(n)
    BY <1>4 DEF Sch!Return, Sch!Waits
  <2> QED
    BY <1>0, <1>4, <2>1 DEF Sch!Return, Sch!IInv, Sch!TypeOK, Sch!Counted, Sch!Launched, Sch!Causes, Sch!Left, Sch!At
<1>5. CASE Sch!CallerCancels
  <2>1. /\ UNCHANGED <<deps, indeg, stage, node, firstErr>>
        /\ byCaller' = TRUE /\ cancelled' = TRUE
    BY <1>5 DEF Sch!CallerCancels
  <2>2. \A n \in Nodes : Sch!Waits(n)' = Sch!Waits(n)
    BY <2>1 DEF Sch!Waits
  <2>3. Sch!TypeOK' /\ Sch!Counted'
    BY <1>0, <2>1, <2>2 DEF Sch!TypeOK, Sch!Counted
  <2>4. Sch!Launched' /\ Sch!Causes' /\ Sch!Left'
    BY <1>0, <2>1 DEF Sch!Launched, Sch!Causes, Sch!Left, Sch!At
  <2> QED
    BY <2>3, <2>4 DEF Sch!IInv
<1>6. CASE UNCHANGED Sch!vars
  BY <1>0, <1>6 DEF Sch!vars, Sch!IInv, Sch!TypeOK, Sch!Counted, Sch!Waits, Sch!Launched, Sch!Causes, Sch!Left, Sch!At
<1> QED
  BY <1>1, <1>2, <1>3, <1>4, <1>5, <1>6 DEF Sch!Next, Sch!Coordinate

\* In any finite graph the counts are of what is still waited for, and what
\* has been launched is what had nothing to wait for.
THEOREM ScheduleInvariant == ASSUME Sch!Instance PROVE Sch!Spec => []Sch!IInv
<1>1. Sch!Init => Sch!IInv
  BY ScheduleInitEstablishes
<1>2. Sch!IInv /\ [Sch!Next]_(Sch!vars) => Sch!IInv'
  BY ScheduleNextKeeps
<1> QED
  BY <1>1, <1>2, PTL DEF Sch!Spec

\* A count reaches zero when all it counts has succeeded.
LEMMA ScheduleOrdered == ASSUME Sch!Instance, Sch!IInv, Sch!Next PROVE Sch!AfterDependencies
<1>0. Sch!TypeOK /\ Sch!Counted /\ Sch!Launched
  BY DEF Sch!IInv
<1> SUFFICES ASSUME NEW n \in Nodes, node[n] # node'[n]
             PROVE  /\ node'[n] = "acquire" =>
                          /\ node[n] = "none"
                          /\ \A d \in deps[n] : node[d] \in {"ok", "done"} /\ indeg'[n] = 0
                    /\ node'[n] = "running" => node[n] = "acquire"
  BY DEF Sch!AfterDependencies
<1>1. CASE Sch!Start
  <2>1. stage = "new" /\ deps' = deps /\ indeg' = indeg /\ node[n] = "none"
    BY <1>0, <1>1 DEF Sch!Start, Sch!Launched
  <2>2. node'[n] = "acquire" /\ indeg[n] = 0
    BY <1>1, <2>1 DEF Sch!Start
  <2>3. indeg[n] = Sch!Cardinality(Sch!Waits(n))
    BY <1>0, <2>1 DEF Sch!Counted, Sch!Launched
  <2>4. Sch!Waits(n) = {}
    BY <1>0, <2>2, <2>3, ScheduleWaiting
  <2>5. deps[n] \in SUBSET Nodes /\ \A d \in Nodes : node[d] = "none"
    BY <1>0, <2>1 DEF Sch!TypeOK, Sch!Launched
  <2>6. deps[n] = {}
    BY <2>4, <2>5 DEF Sch!Waits
  <2> QED
    BY <2>1, <2>2, <2>6
<1>2. ASSUME NEW m \in Nodes, Sch!NodeStep(m) PROVE node'[n] # "acquire" /\ (node'[n] = "running" => node[n] = "acquire")
  BY <1>0, <1>2 DEF Sch!NodeStep, Sch!Acquire, Sch!AcquireRefused, Sch!Finish, Sch!Reporting, Sch!TypeOK
<1>3. ASSUME NEW m \in Nodes, Sch!Receive(m)
      PROVE  /\ node'[n] # "running"
             /\ node'[n] = "acquire" =>
                   /\ node[n] = "none" /\ indeg'[n] = 0
                   /\ \A d \in deps[n] : node[d] \in {"ok", "done"}
  <2>1. /\ stage = "loop" /\ deps' = deps
        /\ indeg' = IF node[m] = "ok" /\ firstErr = "nil" THEN Sch!Satisfied(m) ELSE indeg
        /\ firstErr' = IF node[m] # "ok" /\ firstErr = "nil" THEN node[m] ELSE firstErr
        /\ node' = [x \in Nodes |->
              IF x = m THEN "done"
              ELSE IF indeg'[x] = 0 /\ indeg[x] # 0 THEN "acquire" ELSE node[x]]
    BY <1>3 DEF Sch!Receive
  <2> SUFFICES ASSUME node'[n] = "acquire"
               PROVE  /\ node[n] = "none" /\ indeg'[n] = 0
                      /\ \A d \in deps[n] : node[d] \in {"ok", "done"}
    BY <2>1
  <2>2. indeg'[n] = 0 /\ indeg[n] # 0 /\ n # m
    BY <2>1
  <2>3. node[m] = "ok" /\ firstErr = "nil" /\ firstErr' = "nil"
    BY <2>1, <2>2
  <2>4. node[n] = "none"
    BY <1>0, <2>1, <2>2, <2>3 DEF Sch!Launched
  <2>5. indeg'[n] = Sch!Cardinality(Sch!Waits(n)')
    BY <1>3, <2>3, ScheduleReceiveCounts
  <2>6. Sch!Waits(n)' = Sch!Waits(n) \ {m}
    <3>1. \A d \in Nodes : node[d] = "none" <=> indeg[d] # 0
      BY <1>0, <2>1, <2>3 DEF Sch!Launched
    <3>2. \A d \in Nodes : node'[d] # "done" <=> d # m /\ node[d] # "done"
      BY <2>1, <3>1
    <3>3. deps[n] \in SUBSET Nodes /\ deps'[n] = deps[n]
      BY <1>0, <2>1 DEF Sch!TypeOK
    <3>4. Sch!Waits(n)' = {d \in deps[n] : node'[d] # "done"}
      BY <3>3 DEF Sch!Waits
    <3> QED
      BY <3>2, <3>3, <3>4 DEF Sch!Waits
  <2>7. Sch!IsFiniteSet(Sch!Waits(n) \ {m})
    BY <1>0, ScheduleWaiting, Sch!FS_RemoveElement
  <2>8. Sch!Waits(n) \ {m} = {}
    BY <2>2, <2>5, <2>6, <2>7, Sch!FS_EmptySet
  <2> QED
    BY <2>2, <2>3, <2>4, <2>8 DEF Sch!Waits
<1>4. ~Sch!Return /\ ~Sch!CallerCancels
  BY DEF Sch!Return, Sch!CallerCancels
<1> QED
  BY <1>1, <1>2, <1>3, <1>4 DEF Sch!Next, Sch!Coordinate

\* A node is launched once, when all it depends on has succeeded, in any
\* graph and whatever order the results arrive in.
THEOREM ScheduleInOrder == ASSUME Sch!Instance PROVE Sch!Spec => [][Sch!AfterDependencies]_(Sch!vars)
<1>1. ASSUME Sch!IInv, Sch!Next PROVE Sch!AfterDependencies
  BY <1>1, ScheduleOrdered
<1> QED
  BY <1>1, ScheduleInvariant, PTL DEF Sch!Spec

\* After an error no count moves.
LEMMA ScheduleStopped == ASSUME Sch!Instance, Sch!IInv, Sch!Next PROVE Sch!StopsLaunching
<1> SUFFICES ASSUME firstErr # "nil", NEW n \in Nodes, node[n] = "none"
             PROVE  node'[n] = "none"
  BY DEF Sch!StopsLaunching
<1>0. Sch!TypeOK
  BY DEF Sch!IInv
<1>1. ~Sch!Start
  BY DEF Sch!IInv, Sch!Launched, Sch!Start
<1> QED
  BY <1>0, <1>1 DEF Sch!Next, Sch!Coordinate, Sch!Receive, Sch!Return, Sch!CallerCancels, Sch!NodeStep, Sch!Acquire,
                              Sch!AcquireRefused, Sch!Finish, Sch!Reporting, Sch!TypeOK

\* After the first error no node is launched any more.
THEOREM ScheduleStops == ASSUME Sch!Instance PROVE Sch!Spec => [][Sch!StopsLaunching]_(Sch!vars)
<1>1. ASSUME Sch!IInv, Sch!Next PROVE Sch!StopsLaunching
  BY <1>1, ScheduleStopped
<1> QED
  BY <1>1, ScheduleInvariant, PTL DEF Sch!Spec

\* The error returned is a node's own unless the caller cancelled.
THEOREM ScheduleCause == ASSUME Sch!Instance PROVE Sch!Spec => []Sch!ErrorIsACause
<1>1. Sch!IInv => Sch!ErrorIsACause
  BY DEF Sch!IInv, Sch!Causes, Sch!ErrorIsACause
<1> QED
  BY <1>1, ScheduleInvariant, PTL

\* Given that cycles are rejected, a run that returns without an error has
\* run every node: what is left over would be a cycle.
THEOREM ScheduleAllRun ==
  ASSUME Sch!Instance PROVE Sch!Spec /\ []Sch!RejectsCycles => []Sch!NothingDropped
<1>1. ASSUME Sch!IInv, Sch!RejectsCycles PROVE Sch!NothingDropped
  <2>0. Sch!TypeOK /\ Sch!Counted /\ Sch!Launched /\ Sch!Left
    BY <1>1 DEF Sch!IInv
  <2> SUFFICES ASSUME stage = "returned", firstErr = "nil"
               PROVE  \A n \in Nodes : node[n] = "done"
    BY <2>0 DEF Sch!NothingDropped, Sch!Left
  <2> DEFINE S == {n \in Nodes : node[n] # "done"}
  <2>1. \A n \in S : node[n] = "none"
    BY <2>0 DEF Sch!Left, Sch!At, Sch!TypeOK
  <2>2. ASSUME NEW n \in S PROVE deps[n] \cap S # {}
    <3>1. indeg[n] # 0
      BY <2>0, <2>1 DEF Sch!Launched
    <3>2. Sch!Waits(n) # {}
      BY <2>0, <3>1, ScheduleWaiting DEF Sch!Counted
    <3> QED
      BY <2>0, <3>2 DEF Sch!Waits, Sch!TypeOK
  <2>3. S = {}
    <3>1. ~\E T \in SUBSET Nodes \ {{}} : \A n \in T : deps[n] \cap T # {}
      BY <1>1 DEF Sch!RejectsCycles
    <3> QED
      BY <2>2, <3>1
  <2> QED
    BY <2>3
<1> QED
  BY <1>1, ScheduleInvariant, PTL

-----------------------------------------------------------------------------
(***************************************************************************)
(* What leaves a cycle, whatever its members answer.                       *)
(***************************************************************************)

\* A sequence over a set is one over any larger set.
LEMMA CycleWidened == ASSUME NEW S, NEW T, S \subseteq T, NEW s \in Seq(S) PROVE s \in Seq(T)
  OBVIOUS

\* A sequence of one.
LEMMA CycleSingle == ASSUME NEW S, NEW x \in S PROVE <<x>> \in Seq(S) /\ Len(<<x>>) = 1
  OBVIOUS

\* Nothing has left the cycle.
LEMMA CycleInitEstablishes == ASSUME Clo!Init PROVE Clo!IInv
  BY DEF Clo!Init, Clo!IInv, Clo!Sound, Clo!Left, Clo!Once

\* Every step sends outward what is new, and only that.
LEMMA CycleNextKeeps == ASSUME Clo!IInv, [Clo!Next]_(Clo!vars) PROVE Clo!IInv'
<1>0. Clo!Sound /\ Clo!Left /\ Clo!Once
  BY DEF Clo!IInv
<1>1. ASSUME UNCHANGED <<emitted, seen, fresh>>, phase' # "plan" \/ phase' = phase,
             phase' = "round" => fresh = {}, phase = "ended" => phase' = "ended"
      PROVE  Clo!IInv'
  BY <1>0, <1>1 DEF Clo!IInv, Clo!Sound, Clo!Left, Clo!Once, Clo!Emitted
<1>2. CASE Clo!Refuse \/ Clo!SeedFails \/ Clo!Closed \/ Clo!Expire \/ Clo!Check
  <2>1. UNCHANGED <<emitted, seen, fresh>>
    BY <1>2 DEF Clo!Refuse, Clo!SeedFails, Clo!Closed, Clo!Expire, Clo!Check
  <2>2. \/ phase' = "ended"
        \/ phase' = phase
        \/ phase = "emit" /\ fresh = {} /\ phase' = "round"
    BY <1>2 DEF Clo!Refuse, Clo!SeedFails, Clo!Closed, Clo!Expire, Clo!Check, Clo!End
  <2> QED
    BY <1>0, <1>1, <2>1, <2>2 DEF Clo!Sound
<1>3. CASE Clo!Seed
  <2>1. /\ phase = "plan" /\ phase' = "emit" /\ seen' = fresh' /\ emitted' = emitted
    BY <1>3 DEF Clo!Seed
  <2>2. emitted = << >>
    BY <1>0, <2>1 DEF Clo!Sound
  <2> QED
    BY <2>1, <2>2 DEF Clo!IInv, Clo!Sound, Clo!Left, Clo!Once
<1>4. ASSUME NEW r \in fresh, Clo!Emit(r) PROVE Clo!IInv'
  <2>1. /\ phase = "emit" /\ phase' = "emit" /\ emitted' = Append(emitted, r)
        /\ fresh' = fresh \ {r} /\ seen' = seen
    BY <1>4 DEF Clo!Emit
  <2>2. r \in seen /\ r \in Clo!Emitted /\ emitted \in Seq(Clo!Emitted) /\ Clo!Emitted' = Clo!Emitted
    BY <1>0, <2>1 DEF Clo!Sound, Clo!Emitted
  <2>3. /\ Len(emitted) \in Nat /\ Len(emitted') = Len(emitted) + 1 /\ emitted' \in Seq(Clo!Emitted)
        /\ emitted'[Len(emitted) + 1] = r
        /\ \A i \in 1 .. Len(emitted) : emitted'[i] = emitted[i]
    BY <2>1, <2>2
  <2>4. \A i \in 1 .. Len(emitted) : emitted[i] \in seen /\ emitted[i] # r /\ emitted[i] \notin fresh
    BY <1>0, <1>4, <2>1 DEF Clo!Left
  <2>5. Clo!Sound'
    BY <1>0, <2>1, <2>2, <2>3 DEF Clo!Sound
  <2>6. Clo!Left'
    BY <2>1, <2>2, <2>3, <2>4 DEF Clo!Left
  <2>7. Clo!Once'
    <3> SUFFICES ASSUME NEW i \in 1 .. Len(emitted'), NEW j \in 1 .. Len(emitted'), emitted'[i] = emitted'[j]
                 PROVE  i = j
      BY DEF Clo!Once
    <3>1. CASE i \in 1 .. Len(emitted) /\ j \in 1 .. Len(emitted)
      BY <1>0, <2>3, <3>1 DEF Clo!Once
    <3>2. CASE i = Len(emitted) + 1 \/ j = Len(emitted) + 1
      BY <2>3, <2>4, <3>2
    <3> QED
      BY <2>3, <3>1, <3>2
  <2> QED
    BY <2>5, <2>6, <2>7 DEF Clo!IInv
<1>5. CASE Clo!Empty
  <2>1. /\ phase' = "ended" /\ UNCHANGED <<seen, fresh>>
        /\ emitted' = << >> \/ emitted' = <<Clo!Upstream>>
    BY <1>5 DEF Clo!Empty, Clo!End
  <2>2. Clo!Upstream \in Clo!Emitted'
    BY DEF Clo!Emitted
  <2>3. emitted' \in Seq(Clo!Emitted') /\ Len(emitted') \in {0, 1}
    <3>1. CASE emitted' = <<Clo!Upstream>>
      BY <2>2, <3>1, CycleSingle
    <3>2. CASE emitted' = << >>
      BY <3>2
    <3> QED
      BY <2>1, <3>1, <3>2
  <2> QED
    <3>1. Clo!Sound' /\ Clo!Left'
      <4>1. (fresh \subseteq seen)' /\ phase' # "round" /\ phase' # "plan"
        BY <1>0, <2>1 DEF Clo!Sound
      <4> QED
        BY <2>1, <2>3, <4>1 DEF Clo!Sound, Clo!Left
    <3>2. Clo!Once'
      BY <2>3 DEF Clo!Once
    <3> QED
      BY <3>1, <3>2 DEF Clo!IInv
<1>6. ASSUME NEW p \in pending, Clo!Return(p) \/ Clo!ReturnsError(p) PROVE Clo!IInv'
  BY <1>0, <1>1, <1>6 DEF Clo!Return, Clo!ReturnsError, Clo!Sound
<1>7. CASE Clo!RoundEnds
  <2>1. CASE phase' = "ended"
    <3>1. UNCHANGED <<emitted, seen, fresh>>
      BY <1>7, <2>1 DEF Clo!RoundEnds, Clo!End
    <3> QED
      BY <1>1, <2>1, <3>1
  <2>2. CASE phase' # "ended"
    <3>1. /\ phase = "round" /\ phase' = "emit" /\ emitted' = emitted
          /\ fresh' = derived \ seen /\ seen' = seen \cup derived
      BY <1>7, <2>2 DEF Clo!RoundEnds, Clo!End
    <3>2. Clo!Emitted \subseteq Clo!Emitted'
      BY <3>1 DEF Clo!Emitted
    <3>3. emitted' \in Seq(Clo!Emitted')
      BY <1>0, <3>1, <3>2, CycleWidened DEF Clo!Sound
    <3>4. Clo!Sound'
      BY <3>1, <3>3 DEF Clo!Sound
    <3>5. Clo!Left' /\ Clo!Once'
      BY <1>0, <3>1 DEF Clo!Left, Clo!Once
    <3> QED
      BY <3>4, <3>5 DEF Clo!IInv
  <2> QED
    BY <2>1, <2>2
<1>8. CASE UNCHANGED Clo!vars
  BY <1>0, <1>1, <1>8 DEF Clo!vars, Clo!Sound
<1> QED
  BY <1>2, <1>3, <1>4, <1>5, <1>6, <1>7, <1>8 DEF Clo!Next, Clo!Step, Clo!Returns

\* Whatever the members answer and however the rounds end, what has left the
\* cycle is what was reached and is not waiting to leave.
THEOREM CycleInvariant == Clo!Spec => []Clo!IInv
<1>1. Clo!Init => Clo!IInv
  BY CycleInitEstablishes
<1>2. Clo!IInv /\ [Clo!Next]_(Clo!vars) => Clo!IInv'
  BY CycleNextKeeps
<1> QED
  BY <1>1, <1>2, PTL DEF Clo!Spec

\* What leaves only while it is new leaves once.
LEMMA CycleLeaves == ASSUME Clo!IInv PROVE Clo!EmittedOnce
<1>1. DOMAIN emitted = 1 .. Len(emitted)
  BY DEF Clo!IInv, Clo!Sound
<1> QED
  BY <1>1 DEF Clo!IInv, Clo!Once, Clo!EmittedOnce, Clo!IsInjective

\* For any members, edges, answers and termination: no record leaves a cycle
\* twice, however many paths reach it.
THEOREM CycleLeavesOnce == Clo!Spec => []Clo!EmittedOnce
<1>1. Clo!IInv => Clo!EmittedOnce
  BY CycleLeaves
<1> QED
  BY <1>1, CycleInvariant, PTL

-----------------------------------------------------------------------------
(***************************************************************************)
(* An exchange of many pages, whatever the server answers.                 *)
(***************************************************************************)

\* Nothing has been asked for.
LEMMA PagingInitEstablishes == ASSUME Pag!Instance, Pag!Init PROVE Pag!IInv
<1>1. /\ kind \in Kinds /\ limit \in Nat /\ fetch = "ask" /\ result # "eof" /\ page = 0 /\ unread = 0
      /\ asked = << >>
  BY DEF Pag!Init, Pag!Instance
<1>2. Pag!TypeOK
  <2>1. token \in Pag!Askable /\ (kind = "page_number" => token \in Nat)
    BY DEF Pag!Init, Pag!Askable, Pag!Start
  <2> QED
    BY <1>1, <2>1 DEF Pag!TypeOK
<1>3. Pag!NeverTooFarAhead
  BY <1>1 DEF Pag!NeverTooFarAhead, Pag!Fetched, Pag!Instance
<1>4. Pag!Asked
  <2>1. token = Pag!Start /\ known = {}
    BY DEF Pag!Init
  <2> QED
    BY <1>1, <2>1 DEF Pag!Asked, Pag!Named
<1>5. Pag!Unasked /\ Pag!NoPageTwice /\ Pag!Counted /\ Pag!Ends
  BY <1>1 DEF Pag!Unasked, Pag!NoPageTwice, Pag!Counted, Pag!Ends, Pag!CleanEndIsTheServersEnd
<1> QED
  BY <1>2, <1>3, <1>4, <1>5 DEF Pag!IInv

\* A request sent is a new one.
LEMMA PagingSent ==
  ASSUME Pag!Instance, Pag!IInv, fetch = "ask", asked' = Append(asked, token),
         UNCHANGED <<kind, token, known>>, fetch' # "ask"
  PROVE  asked' \in Seq(Pag!Askable) /\ Pag!Asked' /\ Pag!Unasked' /\ Pag!NoPageTwice'
<1>0. Pag!TypeOK /\ Pag!Asked /\ Pag!Unasked /\ Pag!NoPageTwice
  BY DEF Pag!IInv
<1>1. asked \in Seq(Pag!Askable) /\ token \in Pag!Askable
  BY <1>0 DEF Pag!TypeOK
<1>2. /\ asked' \in Seq(Pag!Askable) /\ Len(asked) \in Nat /\ Len(asked') = Len(asked) + 1
      /\ asked'[Len(asked) + 1] = token
      /\ \A i \in 1 .. Len(asked) : asked'[i] = asked[i]
  BY <1>1
<1>3. Pag!Asked'
  <2>1. Pag!Named' = Pag!Named /\ Pag!Start' = Pag!Start
    BY DEF Pag!Named, Pag!Start, Pag!ByURL
  <2>2. Pag!Named => \A i \in 2 .. Len(asked') : asked'[i] \in known
    <3> SUFFICES ASSUME Pag!Named, NEW i \in 2 .. Len(asked') PROVE asked'[i] \in known
      OBVIOUS
    <3>1. CASE i \in 2 .. Len(asked)
      BY <1>0, <1>2, <3>1 DEF Pag!Asked
    <3>2. CASE i = Len(asked) + 1
      <4>1. asked # << >>
        BY <1>1, <1>2, <3>2
      <4> QED
        BY <1>0, <1>2, <3>2, <4>1 DEF Pag!Asked
    <3> QED
      BY <1>2, <3>1, <3>2
  <2>4. asked' # << >> /\ asked'[1] = Pag!Start
    <3>1. CASE asked = << >>
      BY <1>0, <1>1, <1>2, <3>1 DEF Pag!Asked
    <3>2. CASE asked # << >>
      <4>1. 1 \in 1 .. Len(asked)
        BY <1>1, <3>2
      <4> QED
        BY <1>0, <1>1, <1>2, <3>2, <4>1 DEF Pag!Asked
    <3> QED
      BY <3>1, <3>2
  <2>3. kind = "page_number" => \A i \in 1 .. Len(asked') : asked'[i] \in Nat /\ asked'[i] <= token
    BY <1>0, <1>2 DEF Pag!Asked, Pag!TypeOK
  <2> QED
    BY <1>0, <2>1, <2>2, <2>3, <2>4 DEF Pag!Asked
<1>4. Pag!NoPageTwice'
  <2> SUFFICES ASSUME kind # "poll", NEW i \in 1 .. Len(asked'), NEW j \in 1 .. Len(asked'),
                      i < j, asked'[i] = asked'[j]
               PROVE  Pag!ByURL /\ i = 1
    BY DEF Pag!NoPageTwice, Pag!ByURL
  <2>1. CASE i \in 1 .. Len(asked) /\ j \in 1 .. Len(asked)
    BY <1>0, <1>2, <2>1 DEF Pag!NoPageTwice
  <2>2. CASE i \in 1 .. Len(asked) /\ j = Len(asked) + 1
    BY <1>0, <1>2, <2>2 DEF Pag!Unasked
  <2> QED
    BY <1>2, <2>1, <2>2
<1> QED
  BY <1>2, <1>3, <1>4 DEF Pag!Unasked

\* Every step asks for something new or asks for nothing.
LEMMA PagingNextKeeps == ASSUME Pag!Instance, Pag!IInv, [Pag!Next]_(Pag!vars) PROVE Pag!IInv'
<1>0. Pag!TypeOK /\ Pag!Asked /\ Pag!Unasked /\ Pag!NoPageTwice /\ Pag!Counted /\ Pag!Ends /\ Pag!NeverTooFarAhead
  BY DEF Pag!IInv
<1>1. CASE Pag!Ask
  <2>1. fetch = "ask" /\ UNCHANGED <<kind, limit, token, known, unread, reader>> /\ Pag!Answers' = Pag!Answers
    BY <1>1 DEF Pag!Ask, Pag!Answers, Pag!Named
  <2>2. CASE ~Pag!WithinPageLimit
    <3>1. fetch' = "ended" /\ result' = "eof" /\ UNCHANGED <<answer, asked, page>>
      BY <1>1, <2>2 DEF Pag!Ask, Pag!End
    <3>2. kind \notin {"poll", "none"} /\ limit # 0 /\ page = limit
      BY <1>0, <2>2 DEF Pag!WithinPageLimit, Pag!Counted, Pag!TypeOK
    <3>3. Pag!TypeOK' /\ Pag!Asked' /\ Pag!Unasked' /\ Pag!NoPageTwice'
      BY <1>0, <2>1, <3>1 DEF Pag!TypeOK, Pag!Asked, Pag!Unasked, Pag!NoPageTwice, Pag!Named, Pag!Start, Pag!ByURL
    <3>4. Pag!Counted' /\ Pag!Ends' /\ Pag!NeverTooFarAhead'
      BY <1>0, <2>1, <3>1, <3>2 DEF Pag!Counted, Pag!Ends, Pag!CleanEndIsTheServersEnd, Pag!NeverTooFarAhead, Pag!Fetched, Pag!TypeOK
    <3> QED
      BY <3>3, <3>4 DEF Pag!IInv
  <2>3. CASE Pag!WithinPageLimit
    <3>1. /\ asked' = Append(asked, token) /\ page' = page + 1 /\ answer' \in Pag!Answers
          /\ fetch' \in {"next", "emit"} /\ result' = result
      BY <1>1, <2>3 DEF Pag!Ask
    <3>2. asked' \in Seq(Pag!Askable) /\ Pag!Asked' /\ Pag!Unasked' /\ Pag!NoPageTwice'
      BY <2>1, <3>1, PagingSent
    <3>3. Pag!TypeOK'
      BY <1>0, <2>1, <3>1, <3>2 DEF Pag!TypeOK
    <3>4. Pag!Counted'
      BY <1>0, <2>1, <2>3, <3>1 DEF Pag!Counted, Pag!TypeOK, Pag!WithinPageLimit
    <3>5. Pag!Ends'
      BY <1>0, <2>1, <3>1 DEF Pag!Ends, Pag!CleanEndIsTheServersEnd
    <3>6. Pag!NeverTooFarAhead'
      BY <1>0, <2>1, <3>1 DEF Pag!NeverTooFarAhead, Pag!Fetched, Pag!TypeOK, Pag!Instance
    <3> QED
      BY <3>2, <3>3, <3>4, <3>5, <3>6 DEF Pag!IInv
  <2> QED
    BY <2>2, <2>3
<1>2. CASE Pag!AskFails
  <2>1. /\ fetch = "ask" /\ UNCHANGED <<kind, limit, token, known, page, answer, unread, reader>>
        /\ asked' = Append(asked, token) /\ fetch' = "ended"
        /\ result' = "error" \/ (Ignorable /\ result' = "eof")
    BY <1>2 DEF Pag!AskFails, Pag!End
  <2>2. asked' \in Seq(Pag!Askable) /\ Pag!Asked' /\ Pag!Unasked' /\ Pag!NoPageTwice'
    BY <2>1, PagingSent
  <2>3. Pag!TypeOK'
    BY <1>0, <2>1, <2>2 DEF Pag!TypeOK
  <2>4. Pag!Counted' /\ Pag!Ends' /\ Pag!NeverTooFarAhead'
    BY <1>0, <2>1 DEF Pag!Counted, Pag!Ends, Pag!CleanEndIsTheServersEnd, Pag!NeverTooFarAhead, Pag!Fetched
  <2> QED
    BY <2>2, <2>3, <2>4 DEF Pag!IInv
<1>3. CASE Pag!Emit
  <2>1. /\ fetch = "emit" /\ fetch' = "next" /\ (reader => unread < Ahead)
        /\ unread' = (IF reader THEN unread + 1 ELSE unread)
        /\ UNCHANGED <<kind, limit, token, known, page, answer, asked, reader, result>>
    BY <1>3 DEF Pag!Emit
  <2>2. Pag!TypeOK' /\ Pag!NeverTooFarAhead'
    BY <1>0, <2>1 DEF Pag!TypeOK, Pag!NeverTooFarAhead, Pag!Fetched, Pag!Answers, Pag!Named, Pag!Instance
  <2>3. Pag!Asked' /\ Pag!Unasked' /\ Pag!NoPageTwice' /\ Pag!Counted'
    BY <1>0, <2>1 DEF Pag!Asked, Pag!Unasked, Pag!NoPageTwice, Pag!Counted, Pag!Named, Pag!Start, Pag!ByURL
  <2>4. Pag!Ends'
    BY <1>0, <2>1 DEF Pag!Ends, Pag!CleanEndIsTheServersEnd
  <2> QED
    BY <2>2, <2>3, <2>4 DEF Pag!IInv
<1>4. CASE Pag!Continue
  <2>1. /\ fetch = "next" /\ UNCHANGED <<kind, limit, page, answer, asked, unread, reader>>
        /\ result # "eof" /\ answer \in Pag!Answers
    BY <1>0, <1>4 DEF Pag!Continue, Pag!Ends, Pag!TypeOK
  <2>2. CASE Pag!Named /\ Pag!NextToken
    <3>1. kind # "page_number" /\ kind # "none" /\ kind # "poll" /\ answer.next \in Tokens \cup {Pag!None}
      BY <2>1, <2>2 DEF Pag!Named, Pag!Answers
    <3>2. CASE fetch' = "ended"
      <4>1. /\ UNCHANGED <<token, known>>
            /\ (result' = "eof" /\ answer.next = Pag!None) \/ result' = "error"
        BY <2>2, <3>2 DEF Pag!NextToken, Pag!End
      <4>2. Pag!TypeOK' /\ Pag!Asked' /\ Pag!Unasked' /\ Pag!NoPageTwice'
        BY <1>0, <2>1, <3>2, <4>1 DEF Pag!TypeOK, Pag!Asked, Pag!Unasked, Pag!NoPageTwice, Pag!Named, Pag!Start, Pag!ByURL
      <4>3. Pag!Counted' /\ Pag!Ends' /\ Pag!NeverTooFarAhead'
        BY <1>0, <2>1, <2>2, <3>1, <3>2, <4>1
        DEF Pag!Counted, Pag!Ends, Pag!CleanEndIsTheServersEnd, Pag!NeverTooFarAhead, Pag!Fetched, Pag!Named
      <4> QED
        BY <4>2, <4>3 DEF Pag!IInv
    <3>3. CASE fetch' # "ended"
      <4>1. /\ answer.next # Pag!None /\ answer.next \notin known /\ fetch' = "ask"
            /\ token' = answer.next /\ known' = known \cup {answer.next} /\ result' = result
        BY <2>2, <3>3 DEF Pag!NextToken, Pag!End
      <4>2. Pag!TypeOK'
        BY <1>0, <2>1, <3>1, <4>1 DEF Pag!TypeOK, Pag!Askable
      <4>0. /\ Pag!Named' /\ Pag!Start' = Pag!Start /\ Pag!ByURL' = Pag!ByURL
            /\ asked # << >> /\ asked \in Seq(Pag!Askable)
        BY <1>0, <2>1, <2>2 DEF Pag!Named, Pag!Start, Pag!ByURL, Pag!Asked, Pag!TypeOK
      <4>5. Pag!Asked'
        BY <1>0, <2>1, <2>2, <3>1, <4>0, <4>1 DEF Pag!Asked
      <4>6. Pag!Unasked'
        <5>1. asked[1] = Pag!Start /\ \A i \in 2 .. Len(asked) : asked[i] \in known
          BY <1>0, <2>2, <4>0 DEF Pag!Asked
        <5>2. ~Pag!ByURL => asked[1] # token'
          BY <2>2, <3>1, <4>1, <5>1 DEF Pag!Start, Pag!ByURL
        <5>3. \A i \in 1 .. Len(asked) : i = 1 \/ i \in 2 .. Len(asked)
          BY <4>0
        <5> QED
          BY <2>1, <4>0, <4>1, <5>1, <5>2, <5>3 DEF Pag!Unasked
      <4>7. Pag!NoPageTwice'
        BY <1>0, <2>1, <4>0 DEF Pag!NoPageTwice
      <4>4. Pag!Counted' /\ Pag!Ends' /\ Pag!NeverTooFarAhead'
        BY <1>0, <2>1, <3>1, <4>1 DEF Pag!Counted, Pag!Ends, Pag!CleanEndIsTheServersEnd, Pag!NeverTooFarAhead, Pag!Fetched
      <4> QED
        BY <4>2, <4>4, <4>5, <4>6, <4>7 DEF Pag!IInv
    <3> QED
      BY <3>2, <3>3
  <2>3. CASE kind = "page_number" /\ Pag!NextPage /\ UNCHANGED known
    <3>1. answer.next \in 0 .. Pages /\ token \in Nat /\ ~Pag!Named
      BY <1>0, <2>1, <2>3 DEF Pag!Answers, Pag!Named, Pag!TypeOK
    <3>2. CASE fetch' = "ended"
      <4>1. /\ UNCHANGED token
            /\ \/ result' = "eof" /\ (answer.next = 0 \/ answer.next >= answer.total)
               \/ result' = "error"
        BY <2>3, <3>2 DEF Pag!NextPage, Pag!End
      <4>2. Pag!TypeOK' /\ Pag!Asked' /\ Pag!Unasked' /\ Pag!NoPageTwice'
        BY <1>0, <2>1, <2>3, <3>2, <4>1 DEF Pag!TypeOK, Pag!Asked, Pag!Unasked, Pag!NoPageTwice, Pag!Named, Pag!Start, Pag!ByURL
      <4>3. Pag!Counted' /\ Pag!Ends' /\ Pag!NeverTooFarAhead'
        BY <1>0, <2>1, <2>3, <3>1, <3>2, <4>1
        DEF Pag!Counted, Pag!Ends, Pag!CleanEndIsTheServersEnd, Pag!NeverTooFarAhead, Pag!Fetched, Pag!Named
      <4> QED
        BY <4>2, <4>3 DEF Pag!IInv
    <3>3. CASE fetch' # "ended"
      <4>1. /\ answer.next # 0 /\ ~(answer.next < token) /\ fetch' = "ask"
            /\ token' = answer.next + 1 /\ result' = result
        BY <2>3, <3>3 DEF Pag!NextPage, Pag!End
      <4>2. Pag!TypeOK' /\ token' > token /\ token' \in Nat
        BY <1>0, <2>1, <2>3, <3>1, <4>1 DEF Pag!TypeOK, Pag!Askable, Pag!Instance
      <4>3. Pag!Asked' /\ Pag!Unasked' /\ Pag!NoPageTwice'
        BY <1>0, <2>1, <2>3, <3>1, <4>1, <4>2 DEF Pag!Asked, Pag!Unasked, Pag!NoPageTwice, Pag!Named, Pag!Start, Pag!ByURL
      <4>4. Pag!Counted' /\ Pag!Ends' /\ Pag!NeverTooFarAhead'
        BY <1>0, <2>1, <2>3, <4>1 DEF Pag!Counted, Pag!Ends, Pag!CleanEndIsTheServersEnd, Pag!NeverTooFarAhead, Pag!Fetched
      <4> QED
        BY <4>2, <4>3, <4>4 DEF Pag!IInv
    <3> QED
      BY <3>2, <3>3
  <2>4. CASE kind = "poll" /\ Pag!NextPoll /\ UNCHANGED <<token, known>>
    <3>1. /\ fetch' \in {"ask", "ended"} /\ (result' = result \/ fetch' = "ended")
          /\ result' = "eof" => answer.next = "done"
      BY <2>1, <2>4 DEF Pag!NextPoll, Pag!End
    <3>2. Pag!TypeOK' /\ Pag!Asked' /\ Pag!Unasked' /\ Pag!NoPageTwice'
      BY <1>0, <2>1, <2>4, <3>1 DEF Pag!TypeOK, Pag!Asked, Pag!Unasked, Pag!NoPageTwice, Pag!Named, Pag!Start, Pag!ByURL
    <3>3. Pag!Counted' /\ Pag!Ends' /\ Pag!NeverTooFarAhead'
      BY <1>0, <2>1, <2>4, <3>1 DEF Pag!Counted, Pag!Ends, Pag!CleanEndIsTheServersEnd, Pag!NeverTooFarAhead, Pag!Fetched
    <3> QED
      BY <3>2, <3>3 DEF Pag!IInv
  <2>5. CASE kind = "none" /\ Pag!End("eof") /\ UNCHANGED <<token, known>>
    <3>1. fetch' = "ended" /\ result' = "eof" /\ page = 1
      BY <1>0, <2>1, <2>5 DEF Pag!End, Pag!Counted
    <3>2. Pag!TypeOK' /\ Pag!Asked' /\ Pag!Unasked' /\ Pag!NoPageTwice'
      BY <1>0, <2>1, <2>5, <3>1 DEF Pag!TypeOK, Pag!Asked, Pag!Unasked, Pag!NoPageTwice, Pag!Named, Pag!Start, Pag!ByURL
    <3>3. Pag!Counted' /\ Pag!Ends' /\ Pag!NeverTooFarAhead'
      BY <1>0, <2>1, <2>5, <3>1 DEF Pag!Counted, Pag!Ends, Pag!CleanEndIsTheServersEnd, Pag!NeverTooFarAhead, Pag!Fetched
    <3> QED
      BY <3>2, <3>3 DEF Pag!IInv
  <2> QED
    BY <1>4, <2>2, <2>3, <2>4, <2>5 DEF Pag!Continue
<1>5. CASE Pag!Read \/ Pag!Close \/ UNCHANGED Pag!vars
  <2>1. /\ UNCHANGED <<kind, limit, fetch, token, known, page, answer, asked, result>>
        /\ unread' = unread \/ (unread > 0 /\ unread' = unread - 1)
        /\ reader' = reader \/ reader' = FALSE
    BY <1>5 DEF Pag!Read, Pag!Close, Pag!vars
  <2>2. Pag!TypeOK' /\ Pag!NeverTooFarAhead'
    <3>1. unread' \in Nat /\ unread' <= Ahead /\ Pag!NeverTooFarAhead'
      BY <1>0, <2>1 DEF Pag!TypeOK, Pag!NeverTooFarAhead, Pag!Fetched, Pag!Instance
    <3> QED
      BY <1>0, <2>1, <3>1 DEF Pag!TypeOK, Pag!Answers, Pag!Named
  <2>3. Pag!Asked' /\ Pag!Unasked' /\ Pag!NoPageTwice' /\ Pag!Counted'
    BY <1>0, <2>1 DEF Pag!Asked, Pag!Unasked, Pag!NoPageTwice, Pag!Counted, Pag!Named, Pag!Start, Pag!ByURL
  <2>4. Pag!Ends'
    BY <1>0, <2>1 DEF Pag!Ends, Pag!CleanEndIsTheServersEnd, Pag!Named
  <2> QED
    BY <2>2, <2>3, <2>4 DEF Pag!IInv
<1>6. CASE Pag!Stopped
  <2>1. /\ fetch' = "ended" /\ result' = "error"
        /\ UNCHANGED <<kind, limit, token, known, page, answer, asked, unread, reader>>
    BY <1>6 DEF Pag!Stopped, Pag!End
  <2>2. Pag!TypeOK' /\ Pag!Asked' /\ Pag!Unasked' /\ Pag!NoPageTwice'
    BY <1>0, <2>1 DEF Pag!TypeOK, Pag!Asked, Pag!Unasked, Pag!NoPageTwice, Pag!Named, Pag!Start, Pag!ByURL
  <2>3. Pag!Counted' /\ Pag!Ends' /\ Pag!NeverTooFarAhead'
    BY <1>0, <2>1
    DEF Pag!TypeOK, Pag!Instance, Pag!Counted, Pag!Ends, Pag!CleanEndIsTheServersEnd, Pag!NeverTooFarAhead, Pag!Fetched
  <2> QED
    BY <2>2, <2>3 DEF Pag!IInv
<1> QED
  BY <1>1, <1>2, <1>3, <1>4, <1>5, <1>6 DEF Pag!Next

\* Whatever the server answers, what is asked for next has not been asked for, but the first URL.
THEOREM PagingInvariant == ASSUME Pag!Instance PROVE Pag!Spec => []Pag!IInv
<1>1. Pag!Init => Pag!IInv
  BY PagingInitEstablishes
<1>2. Pag!IInv /\ [Pag!Next]_(Pag!vars) => Pag!IInv'
  BY PagingNextKeeps
<1> QED
  BY <1>1, <1>2, PTL DEF Pag!Spec

\* What is distinct, counted and ended as it should be is what was promised.
LEMMA PagingPasses == ASSUME Pag!IInv PROVE Pag!NoPageTwice /\ Pag!NeverTooFarAhead /\ Pag!CleanEndIsTheServersEnd
BY DEF Pag!IInv, Pag!Ends

\* Whatever a server names next, the first URL included: no page but the first of a
\* continuation by URL is asked for twice, no more than one response beyond the buffer
\* is fetched ahead of the reader, and a clean end is the server's own or the limit's.
THEOREM PagingOnePass ==
  ASSUME Pag!Instance PROVE Pag!Spec => [](Pag!NoPageTwice /\ Pag!NeverTooFarAhead /\ Pag!CleanEndIsTheServersEnd)
<1>1. Pag!IInv => Pag!NoPageTwice /\ Pag!NeverTooFarAhead /\ Pag!CleanEndIsTheServersEnd
  BY PagingPasses
<1> QED
  BY <1>1, PagingInvariant, PTL

-----------------------------------------------------------------------------
(***************************************************************************)
(* Requests to one host, for any slots and delays.                         *)
(***************************************************************************)

\* The longest delay is one of them, and no other is longer.
LEMMA RetryLongestIs ==
  ASSUME Ret!Instance
  PROVE  Ret!Longest \in Nat /\ \A d \in Delays \cup RetryAfters : d <= Ret!Longest
<1> DEFINE S == Delays \cup RetryAfters
<1>1. PICK m \in S : \A d \in S : d <= m
  BY DEF Ret!Instance
<1>2. S \subseteq Int
  BY DEF Ret!Instance
<1>3. m \in S /\ \A d \in S : m >= d
  BY <1>1, <1>2
<1>4. Ret!Longest = CHOOSE x \in S : \A y \in S : x >= y
  BY DEF Ret!Longest, Ret!Max
<1> HIDE DEF S
<1>5. Ret!Longest \in S /\ \A y \in S : Ret!Longest >= y
  BY <1>3, <1>4
<1> QED
  BY <1>5 DEF S, Ret!Instance

\* A request that moves on takes, keeps or gives back exactly its own slot.
LEMMA RetryHolders ==
  ASSUME Ret!Instance, Ret!IInv, NEW r \in Requests, NEW to \in Ret!States,
         state' = [state EXCEPT ![r] = to],
         held' = held + (IF to \in {"send", "wait"} THEN 1 ELSE 0)
                      - (IF state[r] \in {"send", "wait"} THEN 1 ELSE 0),
         held' <= Slots
  PROVE  Ret!AdmissionHolds' /\ held' \in Nat
<1>1. Ret!IsFiniteSet(Ret!Holding) /\ Ret!Cardinality(Ret!Holding) \in Nat /\ held = Ret!Cardinality(Ret!Holding)
  BY Ret!FS_Subset, Ret!FS_CardinalityType DEF Ret!Instance, Ret!Holding, Ret!IInv, Ret!AdmissionHolds
<1>2. \A q \in Requests : state'[q] = IF q = r THEN to ELSE state[q]
  BY DEF Ret!IInv, Ret!TypeOK
<1>3. CASE to \in {"send", "wait"}
  <2>1. Ret!Holding' = Ret!Holding \cup {r}
    BY <1>2, <1>3 DEF Ret!Holding
  <2>2. Ret!Cardinality(Ret!Holding \cup {r}) = IF r \in Ret!Holding THEN Ret!Cardinality(Ret!Holding) ELSE Ret!Cardinality(Ret!Holding) + 1
    BY <1>1, Ret!FS_AddElement
  <2>3. r \in Ret!Holding <=> state[r] \in {"send", "wait"}
    BY DEF Ret!Holding
  <2>4. held' = Ret!Cardinality(Ret!Holding \cup {r})
    BY <1>1, <1>3, <2>2, <2>3
  <2> QED
    BY <1>1, <2>1, <2>2, <2>4 DEF Ret!AdmissionHolds
<1>4. CASE to \notin {"send", "wait"}
  <2>1. Ret!Holding' = Ret!Holding \ {r}
    BY <1>2, <1>4 DEF Ret!Holding
  <2>2. /\ Ret!Cardinality(Ret!Holding \ {r}) = IF r \in Ret!Holding THEN Ret!Cardinality(Ret!Holding) - 1 ELSE Ret!Cardinality(Ret!Holding)
        /\ Ret!IsFiniteSet(Ret!Holding \ {r})
    BY <1>1, Ret!FS_RemoveElement
  <2>3. r \in Ret!Holding <=> state[r] \in {"send", "wait"}
    BY DEF Ret!Holding
  <2>4. held' = Ret!Cardinality(Ret!Holding \ {r}) /\ Ret!Cardinality(Ret!Holding \ {r}) \in Nat
    BY <1>1, <1>4, <2>2, <2>3, Ret!FS_CardinalityType
  <2> QED
    BY <1>1, <2>1, <2>4 DEF Ret!AdmissionHolds
<1> QED
  BY <1>3, <1>4

\* No request has begun and every slot is free.
LEMMA RetryInitEstablishes == ASSUME Ret!Instance, Ret!Init PROVE Ret!IInv
<1>1. Ret!Holding = {} /\ Ret!Cardinality({}) = 0
  BY Ret!FS_EmptySet DEF Ret!Init, Ret!Holding
<1>2. Ret!TypeOK /\ Ret!AdmissionHolds
  BY <1>1 DEF Ret!Init, Ret!TypeOK, Ret!States, Ret!AdmissionHolds, Ret!Instance
<1>3. Ret!Capped
  BY RetryLongestIs DEF Ret!Init, Ret!Capped, Ret!Instance
<1> QED
  BY <1>2, <1>3 DEF Ret!IInv

\* Every step keeps the slots counted and the waits capped.
LEMMA RetryNextKeeps == ASSUME Ret!Instance, Ret!IInv, [Ret!Next]_(Ret!vars) PROVE Ret!IInv'
<1>0. Ret!TypeOK /\ Ret!AdmissionHolds /\ Ret!Capped /\ held <= Slots /\ Slots \in Nat /\ Burst \in Nat /\ Ret!Longest \in Nat
  BY RetryLongestIs DEF Ret!IInv, Ret!AdmissionHolds, Ret!Instance
<1>1. ASSUME NEW r \in Requests, NEW to \in Ret!States, state' = [state EXCEPT ![r] = to],
             held' = held + (IF to \in {"send", "wait"} THEN 1 ELSE 0)
                          - (IF state[r] \in {"send", "wait"} THEN 1 ELSE 0),
             held' <= Slots, UNCHANGED <<ahead, wait>>
      PROVE  Ret!IInv'
  <2>1. Ret!AdmissionHolds' /\ held' \in Nat
    BY <1>1, RetryHolders
  <2>2. Ret!TypeOK'
    BY <1>0, <1>1, <2>1 DEF Ret!TypeOK
  <2>3. Ret!Capped'
    BY <1>0, <1>1 DEF Ret!Capped
  <2> QED
    BY <2>1, <2>2, <2>3 DEF Ret!IInv
<1>2. ASSUME NEW r \in Requests, Ret!Begin(r) \/ Ret!Acquire(r) \/ Ret!Succeeds(r) \/ Ret!GivesUp(r) \/ Ret!Fire(r) \/ Ret!Cancelled(r)
      PROVE  Ret!IInv'
  <2>1. \E to \in Ret!States :
          /\ state' = [state EXCEPT ![r] = to]
          /\ held' = held + (IF to \in {"send", "wait"} THEN 1 ELSE 0)
                          - (IF state[r] \in {"send", "wait"} THEN 1 ELSE 0)
          /\ held' <= Slots /\ UNCHANGED <<ahead, wait>>
    <3>0. held \in Nat /\ Slots \in Nat /\ held <= Slots
      BY <1>0 DEF Ret!TypeOK
    <3>1. CASE Ret!Begin(r)
      BY <3>0, <3>1 DEF Ret!Begin, Ret!States
    <3>2. CASE Ret!Acquire(r)
      BY <3>0, <3>2 DEF Ret!Acquire, Ret!States
    <3>3. CASE Ret!Succeeds(r)
      BY <3>0, <3>3 DEF Ret!Succeeds, Ret!Leave, Ret!States
    <3>4. CASE Ret!GivesUp(r)
      BY <3>0, <3>4 DEF Ret!GivesUp, Ret!Leave, Ret!States
    <3>5. CASE Ret!Fire(r)
      BY <3>0, <3>5 DEF Ret!Fire, Ret!States
    <3>6. CASE Ret!Cancelled(r)
      BY <3>0, <3>6 DEF Ret!Cancelled, Ret!Leave, Ret!States
    <3> QED
      BY <1>2, <3>1, <3>2, <3>3, <3>4, <3>5, <3>6
  <2> QED
    BY <1>1, <2>1
<1>3. ASSUME NEW r \in Requests, NEW d \in Delays, NEW a \in RetryAfters, Ret!Recover(r, d, a) PROVE Ret!IInv'
  <2>1. /\ state[r] = "send" /\ ahead' = ahead + 1 /\ held' = held
        /\ wait' = [wait EXCEPT ![r] = Ret!Wait + (IF a > 0 THEN a ELSE d)]
        /\ state' = [state EXCEPT ![r] = "wait"]
    BY <1>3 DEF Ret!Recover
  <2>2. Ret!AdmissionHolds' /\ held' \in Nat
    <3>1. /\ "wait" \in Ret!States /\ held' <= Slots
          /\ held' = held + (IF "wait" \in {"send", "wait"} THEN 1 ELSE 0)
                          - (IF state[r] \in {"send", "wait"} THEN 1 ELSE 0)
      BY <1>0, <2>1 DEF Ret!States, Ret!TypeOK
    <3> QED
      BY <2>1, <3>1, RetryHolders
  <2>3. Ret!Wait \in Nat /\ Ret!Wait <= Burst
    BY <1>0 DEF Ret!Wait, Ret!TypeOK
  <2>4. d \in Nat /\ a \in Nat /\ d <= Ret!Longest /\ a <= Ret!Longest
    BY RetryLongestIs DEF Ret!Instance
  <2>5. wait' \in [Requests -> Nat] /\ \A q \in Requests : wait'[q] <= Burst + Ret!Longest
    BY <1>0, <2>1, <2>3, <2>4 DEF Ret!TypeOK, Ret!Capped
  <2>6. Ret!TypeOK'
    BY <1>0, <2>1, <2>2, <2>5 DEF Ret!TypeOK, Ret!States
  <2> QED
    BY <2>2, <2>5, <2>6 DEF Ret!IInv, Ret!Capped
<1>4. CASE Ret!Tick
  <2>1. /\ ahead' = Ret!Less(ahead) /\ wait' = [r \in Requests |-> Ret!Less(wait[r])]
        /\ UNCHANGED <<state, held>>
    BY <1>4 DEF Ret!Tick
  <2>2. \A n \in Nat : Ret!Less(n) \in Nat /\ Ret!Less(n) <= n
    BY DEF Ret!Less
  <2>3. Ret!TypeOK'
    BY <1>0, <2>1, <2>2 DEF Ret!TypeOK
  <2>4. Ret!Capped'
    BY <1>0, <2>1, <2>2 DEF Ret!Capped, Ret!TypeOK
  <2>5. Ret!AdmissionHolds'
    BY <1>0, <2>1 DEF Ret!AdmissionHolds, Ret!Holding
  <2> QED
    BY <2>3, <2>4, <2>5 DEF Ret!IInv
<1>5. CASE UNCHANGED Ret!vars
  BY <1>0, <1>5 DEF Ret!vars, Ret!IInv, Ret!TypeOK, Ret!AdmissionHolds, Ret!Holding, Ret!Capped
<1> QED
  BY <1>2, <1>3, <1>4, <1>5 DEF Ret!Next, Ret!Moves, Ret!Answered, Ret!Retries

\* However requests overlap, fail and are cancelled, slots are counted and waits capped.
THEOREM RetryInvariant == ASSUME Ret!Instance PROVE Ret!Spec => []Ret!IInv
<1>1. Ret!Init => Ret!IInv
  BY RetryInitEstablishes
<1>2. Ret!IInv /\ [Ret!Next]_(Ret!vars) => Ret!IInv'
  BY RetryNextKeeps
<1> QED
  BY <1>1, <1>2, PTL DEF Ret!Spec

\* Slots counted and waits capped are what was promised.
LEMMA RetryLimits == ASSUME Ret!IInv PROVE Ret!AdmissionHolds /\ Ret!WaitIsCapped
  BY DEF Ret!IInv, Ret!Capped, Ret!WaitIsCapped, Ret!Longest

\* For any requests, slots and delays: a host sees no more requests at once than
\* it admits, and none is told to wait longer than the burst and its own delay.
THEOREM RetryAdmission == ASSUME Ret!Instance PROVE Ret!Spec => [](Ret!AdmissionHolds /\ Ret!WaitIsCapped)
<1>1. Ret!IInv => Ret!AdmissionHolds /\ Ret!WaitIsCapped
  BY RetryLimits
<1> QED
  BY <1>1, RetryInvariant, PTL

-----------------------------------------------------------------------------
(***************************************************************************)
(* Outputs that share a limit.                                             *)
(***************************************************************************)

\* A terminal that moves on takes a row in hand, or lets go of one.
LEMMA OutputCarried ==
  ASSUME Lim!Instance, NEW o \in Outputs, NEW to \in {"pull", "sink", "last", "done"},
         Lim!Terminals, term' = [term EXCEPT ![o] = to]
  PROVE  /\ Lim!Cardinality(Lim!Carrying) \in Nat /\ Lim!Cardinality(Lim!Carrying') \in Nat
         /\ term' \in [Outputs -> {"pull", "sink", "last", "done"}]
         /\ to \in {"sink", "last"} /\ term[o] = "pull"
               => Lim!Cardinality(Lim!Carrying') = Lim!Cardinality(Lim!Carrying) + 1
         /\ to \in {"pull", "done"} /\ term[o] \in {"sink", "last"}
               => Lim!Cardinality(Lim!Carrying') = Lim!Cardinality(Lim!Carrying) - 1
         /\ to = "done" /\ term[o] = "pull" => Lim!Cardinality(Lim!Carrying') = Lim!Cardinality(Lim!Carrying)
<1>1. Lim!IsFiniteSet(Lim!Carrying) /\ Lim!Cardinality(Lim!Carrying) \in Nat
  BY Lim!FS_Subset, Lim!FS_CardinalityType DEF Lim!Instance, Lim!Carrying
<1>2. /\ term' \in [Outputs -> {"pull", "sink", "last", "done"}]
      /\ \A q \in Outputs : term'[q] = IF q = o THEN to ELSE term[q]
  BY DEF Lim!Terminals
<1>3. o \in Lim!Carrying <=> term[o] \in {"sink", "last"}
  BY DEF Lim!Carrying
<1>4. CASE to \in {"sink", "last"}
  <2>1. Lim!Carrying' = Lim!Carrying \cup {o}
    BY <1>2, <1>4 DEF Lim!Carrying
  <2>2. Lim!Cardinality(Lim!Carrying \cup {o}) = IF o \in Lim!Carrying THEN Lim!Cardinality(Lim!Carrying) ELSE Lim!Cardinality(Lim!Carrying) + 1
    BY <1>1, Lim!FS_AddElement
  <2> QED
    BY <1>1, <1>2, <1>3, <1>4, <2>1, <2>2
<1>5. CASE to \notin {"sink", "last"}
  <2>1. Lim!Carrying' = Lim!Carrying \ {o}
    BY <1>2, <1>5 DEF Lim!Carrying
  <2>2. /\ Lim!Cardinality(Lim!Carrying \ {o}) = IF o \in Lim!Carrying THEN Lim!Cardinality(Lim!Carrying) - 1 ELSE Lim!Cardinality(Lim!Carrying)
        /\ Lim!IsFiniteSet(Lim!Carrying \ {o})
    BY <1>1, Lim!FS_RemoveElement
  <2>3. Lim!Cardinality(Lim!Carrying \ {o}) \in Nat
    BY <2>2, Lim!FS_CardinalityType
  <2> QED
    BY <1>1, <1>2, <1>3, <1>5, <2>1, <2>2, <2>3
<1> QED
  BY <1>4, <1>5

\* No row is in hand and no place taken.
LEMMA OutputInitEstablishes == ASSUME Lim!Instance, Lim!Init PROVE Lim!IInv
<1>1. Lim!Carrying = {} /\ Lim!Cardinality({}) = 0
  BY Lim!FS_EmptySet DEF Lim!Init, Lim!Carrying
<1> QED
  BY <1>1 DEF Lim!Init, Lim!IInv, Lim!Terminals, Lim!Budgeted, Lim!Instance

\* A row is taken with its place, and delivered or dropped with it.
LEMMA OutputTerminalKeeps == ASSUME Lim!Instance, Lim!IInv, NEW o \in Outputs, Lim!TerminalStep(o) PROVE Lim!IInv'
<1>0. Lim!Terminals /\ Lim!Budgeted /\ Limit \in Nat
  BY DEF Lim!IInv, Lim!Instance
<1>1. CASE Lim!TerminalTakes(o)
  <2>1. CASE Limit = 0
    <3>1. term' = [term EXCEPT ![o] = "sink"] /\ UNCHANGED <<taken, delivered>>
      BY <1>1, <2>1 DEF Lim!TerminalTakes
    <3> QED
      BY <1>0, <2>1, <3>1 DEF Lim!IInv, Lim!Terminals, Lim!Budgeted
  <2>2. CASE Limit # 0
    <3>1. /\ term[o] = "pull" /\ taken' = taken + 1 /\ delivered' = delivered
          /\ \E to \in {"sink", "last", "done"} :
                term' = [term EXCEPT ![o] = to] /\ (to # "done" => taken + 1 <= Limit)
      BY <1>1, <2>2 DEF Lim!TerminalTakes, Lim!Take, Lim!Finish
    <3>2. PICK to \in {"sink", "last", "done"} :
             term' = [term EXCEPT ![o] = to] /\ (to # "done" => taken + 1 <= Limit)
      BY <3>1
    <3>3. /\ Lim!Cardinality(Lim!Carrying) \in Nat /\ Lim!Cardinality(Lim!Carrying') \in Nat
          /\ term' \in [Outputs -> {"pull", "sink", "last", "done"}]
          /\ to = "done" => Lim!Cardinality(Lim!Carrying') = Lim!Cardinality(Lim!Carrying)
          /\ to # "done" => Lim!Cardinality(Lim!Carrying') = Lim!Cardinality(Lim!Carrying) + 1
      BY <1>0, <3>1, <3>2, OutputCarried
    <3>4. Lim!Terminals'
      BY <1>0, <3>1, <3>3 DEF Lim!Terminals
    <3>5. Lim!Budgeted'
      <4>1. /\ delivered + Lim!Cardinality(Lim!Carrying) <= taken /\ delivered + Lim!Cardinality(Lim!Carrying) <= Limit
            /\ taken \in Nat /\ delivered \in Nat
        BY <1>0, <2>2 DEF Lim!Budgeted, Lim!Terminals
      <4> HIDE DEF Lim!Carrying
      <4> QED
        BY <1>0, <3>1, <3>2, <3>3, <4>1 DEF Lim!Budgeted
    <3> QED
      BY <3>4, <3>5 DEF Lim!IInv
  <2> QED
    BY <2>1, <2>2
<1>2. CASE Lim!TerminalSinks(o)
  <2>1. /\ term[o] \in {"sink", "last"} /\ taken' = taken
        /\ \E to \in {"pull", "done"} : term' = [term EXCEPT ![o] = to]
        /\ delivered' \in {delivered, delivered + 1}
    BY <1>2 DEF Lim!TerminalSinks, Lim!Finish
  <2>2. PICK to \in {"pull", "done"} : term' = [term EXCEPT ![o] = to]
    BY <2>1
  <2>3. /\ Lim!Cardinality(Lim!Carrying) \in Nat /\ Lim!Cardinality(Lim!Carrying') \in Nat
        /\ term' \in [Outputs -> {"pull", "sink", "last", "done"}]
        /\ Lim!Cardinality(Lim!Carrying') = Lim!Cardinality(Lim!Carrying) - 1
    BY <1>0, <2>1, <2>2, OutputCarried
  <2>4. Lim!Terminals'
    BY <1>0, <2>1, <2>3 DEF Lim!Terminals
  <2>5. Lim!Budgeted'
    BY <1>0, <2>1, <2>3 DEF Lim!Budgeted, Lim!Terminals
  <2> QED
    BY <2>4, <2>5 DEF Lim!IInv
<1>3. CASE Lim!TerminalEnds(o)
  <2>1. term[o] = "pull" /\ term' = [term EXCEPT ![o] = "done"] /\ UNCHANGED <<taken, delivered>>
    BY <1>3 DEF Lim!TerminalEnds, Lim!Finish
  <2>2. /\ Lim!Cardinality(Lim!Carrying') = Lim!Cardinality(Lim!Carrying) /\ Lim!Cardinality(Lim!Carrying) \in Nat
        /\ term' \in [Outputs -> {"pull", "sink", "last", "done"}]
    BY <1>0, <2>1, OutputCarried
  <2> QED
    BY <1>0, <2>1, <2>2 DEF Lim!IInv, Lim!Terminals, Lim!Budgeted
<1> QED
  BY <1>1, <1>2, <1>3 DEF Lim!TerminalStep

\* Legs, merges and the caller take no places.
LEMMA OutputNextKeeps == ASSUME Lim!Instance, Lim!IInv, [Lim!Next]_(Lim!vars) PROVE Lim!IInv'
<1>1. ASSUME UNCHANGED <<taken, term, delivered>> PROVE Lim!IInv'
  BY <1>1 DEF Lim!IInv, Lim!Terminals, Lim!Budgeted, Lim!Carrying
<1>2. ASSUME NEW l \in Legs, Lim!LegStep(l) \/ Lim!LegFails(l) PROVE Lim!IInv'
  <2>1. UNCHANGED Lim!terminal
    BY <1>2 DEF Lim!LegStep, Lim!LegEmits, Lim!LegEnds, Lim!LegStops, Lim!LegFails
  <2> QED
    BY <1>1, <2>1 DEF Lim!terminal
<1>3. ASSUME NEW o \in Outputs, Lim!MergeCompletes(o) PROVE Lim!IInv'
  BY <1>1, <1>3 DEF Lim!MergeCompletes, Lim!terminal
<1>4. CASE Lim!CallerEnds \/ Lim!CallerCloses \/ Lim!TimesOut
  BY <1>1, <1>4 DEF Lim!CallerEnds, Lim!CallerCloses, Lim!TimesOut, Lim!terminal
<1>5. CASE UNCHANGED Lim!vars
  BY <1>1, <1>5 DEF Lim!vars
<1> QED
  BY <1>2, <1>3, <1>4, <1>5, OutputTerminalKeeps DEF Lim!Next

\* Places are as many as the limit.
LEMMA OutputBudget == ASSUME Lim!Instance, Lim!IInv PROVE Lim!NeverOverTheLimit
<1>1. Lim!Cardinality(Lim!Carrying) \in Nat
  BY Lim!FS_Subset, Lim!FS_CardinalityType DEF Lim!Instance, Lim!Carrying
<1> QED
  BY <1>1 DEF Lim!IInv, Lim!Terminals, Lim!Budgeted, Lim!NeverOverTheLimit, Lim!Instance

\* However outputs overlap, a row delivered or in hand has a place of its own.
THEOREM OutputInvariant == ASSUME Lim!Instance PROVE Lim!Spec => []Lim!IInv
<1>1. Lim!Init => Lim!IInv
  BY OutputInitEstablishes
<1>2. Lim!IInv /\ [Lim!Next]_(Lim!vars) => Lim!IInv'
  BY OutputNextKeeps
<1> QED
  BY <1>1, <1>2, PTL DEF Lim!Spec

\* For any outputs, legs and limit: the outputs of a run deliver no more rows
\* between them than its limit, whichever of them take its last places.
THEOREM OutputWithinBudget == ASSUME Lim!Instance PROVE Lim!Spec => []Lim!NeverOverTheLimit
<1>1. Lim!IInv => Lim!NeverOverTheLimit
  BY OutputBudget
<1> QED
  BY <1>1, OutputInvariant, PTL

-----------------------------------------------------------------------------
(***************************************************************************)
(* The parts together.  A behaviour is of one part, so what its steps keep *)
(* the run's steps keep.                                                   *)
(***************************************************************************)

\* Each part that moves is where its own invariant allows.
RInv ==
  /\ part = "sink" => Snk!IInv
  /\ part = "schedule" => Sch!IInv
  /\ part = "join" => Join!IInv
  /\ part = "section" => Sect!IInv
  /\ part = "limit" => Lim!IInv
  /\ part = "closure" => Clo!IInv
  /\ part = "paging" => Pag!IInv
  /\ part = "retry" => Ret!IInv
  /\ part = "destroy" => Des!IInv
  /\ part = "graph" => Gra!IInv

\* No step changes the part.
LEMMA PartStays == ASSUME [Next]_vars PROVE part' = part
BY DEF Next, vars, SinkStep, ScheduleStep, JoinStep, SectionStep, MergeStep, LimitStep,
       ClosureStep, BoundStep, PollStep, PagingStep, RetryStep, DestroyStep, GraphStep,
       NotSink, NotSchedule, NotOutput, NotCycle, NotPaging, NotRetry, NotShared

\* A step of the run is one of the part that moves.
LEMMA OwnStep ==
  ASSUME Next
  PROVE  /\ part = "sink" => Snk!Next
         /\ part = "schedule" => Sch!Next
         /\ part = "join" => Join!Next
         /\ part = "section" => Sect!Next
         /\ part = "limit" => Lim!Next
         /\ part = "closure" => Clo!Next
         /\ part = "paging" => Pag!Next
         /\ part = "retry" => Ret!Next
         /\ part = "destroy" => Des!Next
         /\ part = "graph" => Gra!Next
<1>1. part = "sink" => Snk!Next
  BY DEF Next, SinkStep, ScheduleStep, JoinStep, SectionStep, MergeStep, LimitStep, ClosureStep,
         BoundStep, PollStep, PagingStep, RetryStep, DestroyStep, GraphStep
<1>2. part = "schedule" => Sch!Next
  BY DEF Next, SinkStep, ScheduleStep, JoinStep, SectionStep, MergeStep, LimitStep, ClosureStep,
         BoundStep, PollStep, PagingStep, RetryStep, DestroyStep, GraphStep
<1>3. part = "join" => Join!Next
  BY DEF Next, SinkStep, ScheduleStep, JoinStep, SectionStep, MergeStep, LimitStep, ClosureStep,
         BoundStep, PollStep, PagingStep, RetryStep, DestroyStep, GraphStep
<1>4. part = "section" => Sect!Next
  BY DEF Next, SinkStep, ScheduleStep, JoinStep, SectionStep, MergeStep, LimitStep, ClosureStep,
         BoundStep, PollStep, PagingStep, RetryStep, DestroyStep, GraphStep
<1>5. part = "limit" => Lim!Next
  BY DEF Next, SinkStep, ScheduleStep, JoinStep, SectionStep, MergeStep, LimitStep, ClosureStep,
         BoundStep, PollStep, PagingStep, RetryStep, DestroyStep, GraphStep
<1>6. part = "closure" => Clo!Next
  BY DEF Next, SinkStep, ScheduleStep, JoinStep, SectionStep, MergeStep, LimitStep, ClosureStep,
         BoundStep, PollStep, PagingStep, RetryStep, DestroyStep, GraphStep
<1>7. part = "paging" => Pag!Next
  BY DEF Next, SinkStep, ScheduleStep, JoinStep, SectionStep, MergeStep, LimitStep, ClosureStep,
         BoundStep, PollStep, PagingStep, RetryStep, DestroyStep, GraphStep
<1>8. part = "retry" => Ret!Next
  BY DEF Next, SinkStep, ScheduleStep, JoinStep, SectionStep, MergeStep, LimitStep, ClosureStep,
         BoundStep, PollStep, PagingStep, RetryStep, DestroyStep, GraphStep
<1>9. part = "destroy" => Des!Next
  BY DEF Next, SinkStep, ScheduleStep, JoinStep, SectionStep, MergeStep, LimitStep, ClosureStep,
         BoundStep, PollStep, PagingStep, RetryStep, DestroyStep, GraphStep
<1>10. part = "graph" => Gra!Next
  BY DEF Next, SinkStep, ScheduleStep, JoinStep, SectionStep, MergeStep, LimitStep, ClosureStep,
         BoundStep, PollStep, PagingStep, RetryStep, DestroyStep, GraphStep
<1> QED
  BY <1>1, <1>2, <1>3, <1>4, <1>5, <1>6, <1>7, <1>8, <1>9, <1>10

\* When the run stands still its parts do.
LEMMA AllStill ==
  ASSUME UNCHANGED vars
  PROVE  /\ UNCHANGED Snk!vars
         /\ UNCHANGED Sch!vars
         /\ UNCHANGED Join!vars
         /\ UNCHANGED Sect!vars
         /\ UNCHANGED Lim!vars
         /\ UNCHANGED Clo!vars
         /\ UNCHANGED Pag!vars
         /\ UNCHANGED Ret!vars
         /\ UNCHANGED Des!vars
         /\ UNCHANGED Gra!vars
<1>1. /\ UNCHANGED sink /\ UNCHANGED schedule /\ UNCHANGED output /\ UNCHANGED cycle
      /\ UNCHANGED paging /\ UNCHANGED retry /\ UNCHANGED shared
  BY DEF vars
<1>2. UNCHANGED Snk!vars
  BY <1>1 DEF sink, Snk!vars
<1>3. UNCHANGED Sch!vars
  BY <1>1 DEF schedule, Sch!vars
<1>4. UNCHANGED Join!vars
  BY <1>1 DEF shared, Join!vars
<1>5. UNCHANGED Sect!vars
  BY <1>1 DEF shared, Sect!vars
<1>6. UNCHANGED Lim!vars
  BY <1>1 DEF output, Lim!vars
<1>7. UNCHANGED Clo!vars
  BY <1>1 DEF cycle, Clo!vars
<1>8. UNCHANGED Pag!vars
  BY <1>1 DEF paging, Pag!vars
<1>9. UNCHANGED Ret!vars
  BY <1>1 DEF retry, Ret!vars
<1>10. UNCHANGED Des!vars
  BY <1>1 DEF shared, Des!vars
<1>11. UNCHANGED Gra!vars
  BY <1>1 DEF shared, Gra!vars
<1> QED
  BY <1>2, <1>3, <1>4, <1>5, <1>6, <1>7, <1>8, <1>9, <1>10, <1>11

\* Every part starts where its invariant allows.
LEMMA RunStarts == ASSUME Init PROVE RInv
<1>1. part = "sink" => Snk!IInv
  <2>1. part = "sink" => Snk!Init
    BY DEF Init
  <2> QED
    BY <2>1, SinkInitEstablishes, Instances
<1>2. part = "schedule" => Sch!IInv
  <2>1. part = "schedule" => Sch!Init
    BY DEF Init
  <2> QED
    BY <2>1, ScheduleInitEstablishes, Instances
<1>3. part = "join" => Join!IInv
  <2>1. part = "join" => Join!Init
    BY DEF Init
  <2> QED
    BY <2>1, Join!InitEstablishes, Instances
<1>4. part = "section" => Sect!IInv
  <2>1. part = "section" => Sect!Init
    BY DEF Init
  <2> QED
    BY <2>1, Sect!InitEstablishes, Instances
<1>5. part = "limit" => Lim!IInv
  <2>1. part = "limit" => Lim!Init
    BY DEF Init
  <2> QED
    BY <2>1, OutputInitEstablishes, Instances
<1>6. part = "closure" => Clo!IInv
  <2>1. part = "closure" => Clo!Init
    BY DEF Init
  <2> QED
    BY <2>1, CycleInitEstablishes
<1>7. part = "paging" => Pag!IInv
  <2>1. part = "paging" => Pag!Init
    BY DEF Init
  <2> QED
    BY <2>1, PagingInitEstablishes, Instances
<1>8. part = "retry" => Ret!IInv
  <2>1. part = "retry" => Ret!Init
    BY DEF Init
  <2> QED
    BY <2>1, RetryInitEstablishes, Instances
<1>9. part = "destroy" => Des!IInv
  <2>1. part = "destroy" => Des!Init
    BY DEF Init
  <2> QED
    BY <2>1, Des!InitEstablishes, Instances
<1>10. part = "graph" => Gra!IInv
  <2>1. part = "graph" => Gra!Init
    BY DEF Init
  <2> QED
    BY <2>1, Gra!InitEstablishes, Instances
<1> QED
  BY <1>1, <1>2, <1>3, <1>4, <1>5, <1>6, <1>7, <1>8, <1>9, <1>10 DEF RInv

\* Every step keeps the part that moves there.
LEMMA RunKeeps == ASSUME RInv, [Next]_vars PROVE RInv'
<1>0. part' = part
  BY PartStays
<1>1. ASSUME part' = "sink" PROVE Snk!IInv'
  <2>1. Snk!IInv
    BY <1>0, <1>1 DEF RInv
  <2>2. [Snk!Next]_(Snk!vars)
    BY <1>0, <1>1, OwnStep, AllStill
  <2> QED
    BY <2>1, <2>2, SinkNextKeeps, Instances
<1>2. ASSUME part' = "schedule" PROVE Sch!IInv'
  <2>1. Sch!IInv
    BY <1>0, <1>2 DEF RInv
  <2>2. [Sch!Next]_(Sch!vars)
    BY <1>0, <1>2, OwnStep, AllStill
  <2> QED
    BY <2>1, <2>2, ScheduleNextKeeps, Instances
<1>3. ASSUME part' = "join" PROVE Join!IInv'
  <2>1. Join!IInv
    BY <1>0, <1>3 DEF RInv
  <2>2. [Join!Next]_(Join!vars)
    BY <1>0, <1>3, OwnStep, AllStill
  <2> QED
    BY <2>1, <2>2, Join!NextKeeps, Instances
<1>4. ASSUME part' = "section" PROVE Sect!IInv'
  <2>1. Sect!IInv
    BY <1>0, <1>4 DEF RInv
  <2>2. [Sect!Next]_(Sect!vars)
    BY <1>0, <1>4, OwnStep, AllStill
  <2> QED
    BY <2>1, <2>2, Sect!NextKeeps, Instances
<1>5. ASSUME part' = "limit" PROVE Lim!IInv'
  <2>1. Lim!IInv
    BY <1>0, <1>5 DEF RInv
  <2>2. [Lim!Next]_(Lim!vars)
    BY <1>0, <1>5, OwnStep, AllStill
  <2> QED
    BY <2>1, <2>2, OutputNextKeeps, Instances
<1>6. ASSUME part' = "closure" PROVE Clo!IInv'
  <2>1. Clo!IInv
    BY <1>0, <1>6 DEF RInv
  <2>2. [Clo!Next]_(Clo!vars)
    BY <1>0, <1>6, OwnStep, AllStill
  <2> QED
    BY <2>1, <2>2, CycleNextKeeps
<1>7. ASSUME part' = "paging" PROVE Pag!IInv'
  <2>1. Pag!IInv
    BY <1>0, <1>7 DEF RInv
  <2>2. [Pag!Next]_(Pag!vars)
    BY <1>0, <1>7, OwnStep, AllStill
  <2> QED
    BY <2>1, <2>2, PagingNextKeeps, Instances
<1>8. ASSUME part' = "retry" PROVE Ret!IInv'
  <2>1. Ret!IInv
    BY <1>0, <1>8 DEF RInv
  <2>2. [Ret!Next]_(Ret!vars)
    BY <1>0, <1>8, OwnStep, AllStill
  <2> QED
    BY <2>1, <2>2, RetryNextKeeps, Instances
<1>9. ASSUME part' = "destroy" PROVE Des!IInv'
  <2>1. Des!IInv
    BY <1>0, <1>9 DEF RInv
  <2>2. [Des!Next]_(Des!vars)
    BY <1>0, <1>9, OwnStep, AllStill
  <2> QED
    BY <2>1, <2>2, Des!NextKeeps, Instances
<1>10. ASSUME part' = "graph" PROVE Gra!IInv'
  <2>1. Gra!IInv
    BY <1>0, <1>10 DEF RInv
  <2>2. [Gra!Next]_(Gra!vars)
    BY <1>0, <1>10, OwnStep, AllStill
  <2> QED
    BY <2>1, <2>2, Gra!NextKeeps, Instances
<1> QED
  BY <1>1, <1>2, <1>3, <1>4, <1>5, <1>6, <1>7, <1>8, <1>9, <1>10 DEF RInv

\* Whichever part moves, for any instance of it, its own invariant holds throughout.
THEOREM RunInvariant == Spec => []RInv
<1>1. Init => RInv
  BY RunStarts
<1>2. RInv /\ [Next]_vars => RInv'
  BY RunKeeps
<1> QED
  BY <1>1, <1>2, PTL DEF Spec

\* For every instance of the parts: no record, row or page is lost or comes twice in an
\* answer that ended cleanly, whatever interleaves, fails or is answered, but for the first
\* page of a continuation by URL, which a server may link back to.
THEOREM EachExactlyOnce == Spec => []ExactlyOnce
<1>1. ASSUME RInv PROVE ExactlyOnce
  <2>1. part = "sink" => Snk!DiskInOrder /\ Snk!CleanCloseKeepsEarly
    BY <1>1, SinkOrderly, SinkFlushed DEF RInv
  <2>2. part = "join" => Join!CleanEndIsComplete
    BY <1>1, Instances, Join!Complete DEF RInv
  <2>3. part = "section" => Sect!CleanEndIsComplete
    BY <1>1, Instances, Sect!Complete DEF RInv
  <2>4. part = "closure" => Clo!EmittedOnce
    BY <1>1, CycleLeaves DEF RInv
  <2>5. part = "paging" => Pag!NoPageTwice /\ Pag!CleanEndIsTheServersEnd
    BY <1>1, PagingPasses DEF RInv
  <2> QED
    BY <2>1, <2>2, <2>3, <2>4, <2>5 DEF ExactlyOnce
<1> QED
  BY <1>1, RunInvariant, PTL

\* For every instance of the parts: the run's limit, a host's slots, the cap on waits and the
\* pages ahead of a reader, with the one that waits for room, are never passed.
THEOREM EveryLimitHolds == Spec => []LimitsHold
<1>1. ASSUME RInv PROVE LimitsHold
  <2>1. part = "limit" => Lim!NeverOverTheLimit
    BY <1>1, Instances, OutputBudget DEF RInv
  <2>2. part = "retry" => Ret!AdmissionHolds /\ Ret!WaitIsCapped
    BY <1>1, RetryLimits DEF RInv
  <2>3. part = "paging" => Pag!NeverTooFarAhead
    BY <1>1, PagingPasses DEF RInv
  <2> QED
    BY <2>1, <2>2, <2>3 DEF LimitsHold
<1> QED
  BY <1>1, RunInvariant, PTL

\* For every set of keys and dependencies: no object that a destroy or a failed graph leaves
\* behind is without its ledger entry, and the reports say so.
THEOREM NoneOrphaned == Spec => []NothingOrphaned
<1>1. ASSUME RInv PROVE NothingOrphaned
  <2>1. part = "destroy" => Des!NothingOrphaned
    BY <1>1 DEF RInv, Des!IInv
  <2>2. part = "destroy" => Des!ReportIsTrue /\ Des!GivenUpForAReason
    BY <1>1, Des!Truthful, Des!Reasoned DEF RInv
  <2>3. part = "graph" => Gra!OnlyOwnRemoved
    BY <1>1 DEF RInv, Gra!IInv
  <2>4. part = "graph" => Gra!NothingOrphaned
    BY <1>1, Gra!Entries DEF RInv
  <2> QED
    BY <2>1, <2>2, <2>3, <2>4 DEF NothingOrphaned
<1> QED
  BY <1>1, RunInvariant, PTL

\* For every instance of the parts: nodes start after what they depend on, nothing starts
\* after a failure, and a delete comes after those of its confirmed dependents.
THEOREM InStepOrder == Spec => StepsInOrder
<1>1. ASSUME RInv, Next PROVE InOrder
  <2>1. part = "sink" => Snk!ErrorSticks
    BY <1>1, OwnStep, Instances, SinkSticks DEF RInv
  <2>2. part = "schedule" => Sch!AfterDependencies /\ Sch!StopsLaunching
    BY <1>1, OwnStep, Instances, ScheduleOrdered, ScheduleStopped DEF RInv
  <2>3. part = "section" => Sect!FailureStartsNothing
    BY <1>1, OwnStep, Sect!Stopped DEF RInv
  <2>4. part = "destroy" => Des!DependentsFirst
    BY <1>1, OwnStep, Instances, Des!ReadersGoFirst DEF RInv
  <2>5. part = "graph" => Gra!LatestFirst
    BY <1>1, OwnStep, Instances, Gra!LatestGoes DEF RInv
  <2> QED
    BY <2>1, <2>2, <2>3, <2>4, <2>5 DEF InOrder
<1>2. RInv /\ [Next]_vars => [InOrder]_vars
  BY <1>1
<1> QED
  BY <1>2, RunInvariant, PTL DEF Spec, StepsInOrder
=============================================================================
