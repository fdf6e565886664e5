----------------------------- MODULE RegexColor -----------------------------
(* The colour map of the regular expression compiler (pkg/sqlfn/pg_regex_color.go): characters *)
(* that no part of the pattern tells apart share a colour, and arcs name colours.  Each item of *)
(* a bracket expression moves its characters to subcolours of the colours they had; when the    *)
(* atom ends the subcolours become colours, and arcs drawn earlier on the parent are copied.    *)
(* Low characters have a colour each; high ones are found by a sorted list of ranges that picks *)
(* a row and by the classes a character is in, which pick a column.                             *)
EXTENDS Integers, Sequences, SequencesExt, FiniteSets, FiniteSetsExt

CONSTANTS MaxLow,     \* reMAX_SIMPLE_CHR: the last low character
          MaxChr,     \* the last character
          Members,    \* the characters of each class with a cclasscode
          Items,      \* what brackpart reads: a character or range, a class, a complemented class
          MaxColor,   \* colours the array of descriptors holds
          MaxAtoms, MaxParts

VARIABLES cm,         \* the colour map
          arcs,       \* [at, co]: an arc of atom at on colour co
          atom,       \* atoms finished
          wants,      \* the characters each atom, finished or open, is meant to match
          parts,      \* items of the open atom
          later       \* its complemented classes, which wait for the end of the bracket

vars == <<cm, arcs, atom, wants, parts, later>>

Chars == 0..MaxChr
WHITE == 0
NOSUB == -1
RAINBOW == -2
Desc == [ns |-> 0, nu |-> 0, sub |-> NOSUB, free |-> FALSE]

\* The colour map and the arcs, which most operations change together.
St == [cm |-> cm, arcs |-> arcs]

initcm == [cd |-> [co \in 0..MaxColor |-> IF co = WHITE THEN [Desc EXCEPT !.ns = MaxLow + 1, !.nu = 1] ELSE Desc],
           max |-> 0, free |-> 0, lo |-> [c \in 0..MaxLow |-> WHITE], ranges |-> <<>>, hi |-> << <<WHITE>> >>,
           bits |-> [k \in DOMAIN Members |-> 0]]

Cols(m) == Len(m.hi[1])
Bit(c, b) == b # 0 /\ (c \div b) % 2 = 1
RowOf(m, c) == LET at == {i \in DOMAIN m.ranges : m.ranges[i].min <= c /\ c <= m.ranges[i].max} IN
               IF at = {} THEN 0 ELSE m.ranges[CHOOSE i \in at : TRUE].row
Column(m, c) == MapThenSumSet(LAMBDA k : IF c \in Members[k] THEN m.bits[k] ELSE 0, DOMAIN Members)
getcolor(m, c) == IF c <= MaxLow THEN m.lo[c] ELSE m.hi[RowOf(m, c) + 1][Column(m, c) + 1]

\* A new colour, from the free list before from the end of the array.
newcolor(m) ==
  LET co == IF m.free # 0 THEN m.free ELSE m.max + 1 IN
  [m |-> [m EXCEPT !.free = IF m.free # 0 THEN m.cd[co].sub ELSE @,
                   !.max = IF m.free # 0 THEN @ ELSE co, !.cd[co] = Desc], co |-> co]

\* The list from head without the colours above top.
RECURSIVE Unlink(_, _, _)
Unlink(cd, head, top) ==
  IF head <= 0 THEN [head |-> head, cd |-> cd]
  ELSE LET r == Unlink(cd, cd[head].sub, top) IN
       IF head > top THEN r ELSE [head |-> head, cd |-> [r.cd EXCEPT ![head].sub = r.head]]

freecolor(m, co) ==
  LET f == [m EXCEPT !.cd[co].free = TRUE]
      top == CHOOSE k \in 0..m.max : (k = 0 \/ ~f.cd[k].free) /\ \A j \in (k + 1)..m.max : f.cd[j].free
      list == Unlink(f.cd, m.free, top)
  IN CASE co = WHITE -> m
       [] co = m.max -> [f EXCEPT !.max = top, !.free = list.head, !.cd = list.cd]
       [] OTHER -> [f EXCEPT !.cd[co].sub = m.free, !.free = co]

\* The subcolour co's characters move to: the open one, co itself when it has one member, or new.
newsub(m, co) ==
  LET n == newcolor(m) IN
  CASE m.cd[co].sub # NOSUB -> [m |-> m, co |-> m.cd[co].sub]
    [] m.cd[co].ns + m.cd[co].nu = 1 -> [m |-> m, co |-> co]
    [] OTHER -> [m |-> [n.m EXCEPT !.cd[co].sub = n.co, !.cd[n.co].sub = n.co], co |-> n.co]

Arc(s, at, co) == [s EXCEPT !.arcs = @ \union {[at |-> at, co |-> co]}]

subcolor(s, at, c) ==
  LET co == s.cm.lo[c]  n == newsub(s.cm, co) IN
  Arc([s EXCEPT !.cm = IF n.co = co THEN n.m
                       ELSE [n.m EXCEPT !.cd[co].ns = @ - 1, !.cd[n.co].ns = @ + 1, !.lo[c] = n.co]], at, n.co)

subcolorhi(s, at, r, k) ==
  LET co == s.cm.hi[r + 1][k + 1]  n == newsub(s.cm, co) IN
  Arc([s EXCEPT !.cm = IF n.co = co THEN n.m
                       ELSE [n.m EXCEPT !.cd[co].nu = @ - 1, !.cd[n.co].nu = @ + 1, !.hi[r + 1][k + 1] = n.co]], at, n.co)

subcoloronerow(s, at, r) == FoldLeft(LAMBDA acc, k : subcolorhi(acc, at, r, k - 1), s, [k \in 1..Cols(s.cm) |-> k])

\* nu counts the entries of the high map, so a copied entry counts again.
Recount(m, entries) == FoldLeft(LAMBDA acc, co : [acc EXCEPT !.cd[co].nu = @ + 1], m, entries)
newhicolorrow(s, old) == [s EXCEPT !.cm = Recount([@ EXCEPT !.hi = Append(@, @[old + 1])], s.cm.hi[old + 1])]
newhicolorcols(m) == Recount([m EXCEPT !.hi = FoldLeft(LAMBDA acc, row : Append(acc, row \o row), <<>>, @)], FlattenSeq(m.hi))

\* The old range o, overlapped in part, in up to three: the middle gets a row of its own, and so
\* does the tail when the head keeps the old row.
SplitRange(acc, o, at, to) ==
  LET s1 == newhicolorrow(acc.s, o.row)
      row == Len(s1.cm.hi) - 1
      both == to < o.max /\ acc.from > o.min
      s2 == IF both THEN newhicolorrow(s1, o.row) ELSE s1
      hi == Min({to, o.max})
  IN [s |-> subcoloronerow(s2, at, row), from |-> o.max + 1,
      out |-> acc.out \o (IF acc.from > o.min THEN << [o EXCEPT !.max = acc.from - 1] >> ELSE <<>>)
              \o << [min |-> acc.from, max |-> hi, row |-> row] >>
              \o (IF to < o.max THEN << [min |-> to + 1, max |-> o.max, row |-> IF both THEN row + 1 ELSE o.row] >> ELSE <<>>)]

\* The gap from acc.from to upto, which no old range covers, in a row cloned from row 0.
Gap(acc, at, upto) ==
  IF acc.from > upto THEN acc
  ELSE LET s1 == newhicolorrow(acc.s, 0)  row == Len(s1.cm.hi) - 1 IN
       [s |-> subcoloronerow(s1, at, row), from |-> upto + 1,
        out |-> Append(acc.out, [min |-> acc.from, max |-> upto, row |-> row])]

\* subcoloronechr for a high character is the case from = to.
subcoloronerange(s, at, from, to) ==
  LET OneOld(acc, o) ==
        IF o.max < from THEN [acc EXCEPT !.out = Append(@, o)]
        ELSE LET g == Gap(acc, at, Min({to, o.min - 1})) IN
             CASE o.min > to -> [g EXCEPT !.out = Append(@, o)]
               [] o.min <= to /\ g.from <= o.min /\ to >= o.max ->
                    [g EXCEPT !.out = Append(@, o), !.from = o.max + 1, !.s = subcoloronerow(@, at, o.row)]
               [] OTHER -> SplitRange(g, o, at, to)
      all == Gap(FoldLeft(OneOld, [s |-> s, from |-> from, out |-> <<>>], s.cm.ranges), at, to)
  IN [all.s EXCEPT !.cm.ranges = all.out]

Range_(s, at, from, to) ==
  LET low == FoldLeft(LAMBDA acc, c : subcolor(acc, at, c), s, SelectSeq([i \in 1..(MaxLow + 1) |-> i - 1], LAMBDA c : from <= c /\ c <= to))
      hi == IF from > MaxLow THEN from ELSE MaxLow + 1
  IN IF hi <= to THEN subcoloronerange(low, at, hi, to) ELSE low

\* The high columns of class k, which the first use of the class adds.
ClassCells(s, at, k) ==
  LET new == s.cm.bits[k] = 0
      s1 == IF new THEN [s EXCEPT !.cm = [newhicolorcols(@) EXCEPT !.bits[k] = Cols(s.cm)]] ELSE s
      bit == s1.cm.bits[k]
      n == Cols(s1.cm)
      cells == SelectSeq([i \in 1..(Len(s1.cm.hi) * n) |-> i - 1], LAMBDA i : Bit(i % n, bit))
  IN FoldLeft(LAMBDA acc, i : subcolorhi(acc, at, i \div n, i % n), s1, cells)

ClassCvec(s, at, k) ==
  ClassCells(FoldLeft(LAMBDA acc, c : subcolor(acc, at, c), s, SelectSeq([i \in 1..(MaxLow + 1) |-> i - 1], LAMBDA c : c \in Members[k])), at, k)

subcolorcvec(s, at, i) ==
  IF i.k = "class" THEN ClassCvec(s, at, i.class) ELSE Range_(s, at, i.from, i.to)

\* One colour's turn in okcolors: its open subcolour takes its arcs over, or shares them.
Promote(s, co) ==
  LET d == s.cm.cd[co]
      done == [s EXCEPT !.cm.cd[co].sub = NOSUB, !.cm.cd[d.sub].sub = NOSUB]
  IN IF d.free \/ d.sub \in {NOSUB, co} THEN s
     ELSE IF d.ns = 0 /\ d.nu = 0
     THEN [cm |-> freecolor(done.cm, co), arcs |-> {[a EXCEPT !.co = IF @ = co THEN d.sub ELSE @] : a \in s.arcs}]
     ELSE [done EXCEPT !.arcs = @ \union {[a EXCEPT !.co = d.sub] : a \in {b \in s.arcs : b.co = co}}]

okcolors(s) == FoldLeft(Promote, s, [i \in 1..(s.cm.max + 1) |-> i - 1])

\* Arcs of atom `to` on every live colour that `of` has no arc on.
colorcomplement(s, of, to) ==
  IF [at |-> of, co |-> RAINBOW] \in s.arcs THEN s
  ELSE [s EXCEPT !.arcs = @ \union {[at |-> to, co |-> co] : co \in {c \in 0..s.cm.max :
                           ~s.cm.cd[c].free /\ [at |-> of, co |-> c] \notin s.arcs}}]
Drop(s, at) == [s EXCEPT !.arcs = {a \in @ : a.at # at}]

\* charclasscomplement: a scratch state takes the class, and the atom what is left.
charclasscomplement(s, at, k) == Drop(colorcomplement(okcolors(ClassCvec(s, 0, k)), 0, at), 0)

\* A bracket that came to hold every colour is one RAINBOW arc.
optimizebracket(s, at) ==
  IF \E co \in 0..s.cm.max : ~s.cm.cd[co].free /\ [at |-> at, co |-> co] \notin s.arcs THEN s
  ELSE Arc(Drop(s, at), at, RAINBOW)

bracketEnd(s, at, classes) ==
  LET c == FoldLeft(LAMBDA acc, k : charclasscomplement(acc, at, k), okcolors(s), SetToSeq(classes)) IN
  IF classes = {} THEN c ELSE optimizebracket(c, at)

-----------------------------------------------------------------------------
Init == /\ cm = initcm /\ arcs = {} /\ atom = 0 /\ wants = <<{}>> /\ parts = 0 /\ later = {}

\* The characters of item i.
Means(i) == CASE i.k = "range" -> i.from..i.to [] i.k = "class" -> Members[i.class]
              [] i.k = "not" -> Chars \ Members[i.class]

\* brackpart: a complemented class is only noted, to be added when the bracket ends.
brackpart(i) ==
  /\ atom < MaxAtoms /\ parts < MaxParts
  /\ LET s == subcolorcvec(St, atom + 1, i) IN
     IF i.k = "not" THEN later' = later \union {i.class} /\ UNCHANGED <<cm, arcs>>
     ELSE cm' = s.cm /\ arcs' = s.arcs /\ UNCHANGED later
  /\ wants' = [wants EXCEPT ![atom + 1] = @ \union Means(i)]
  /\ parts' = parts + 1 /\ UNCHANGED atom

Finish(s, want) ==
  /\ cm' = s.cm /\ arcs' = s.arcs
  /\ atom' = atom + 1 /\ wants' = Append([wants EXCEPT ![atom + 1] = want], {}) /\ parts' = 0 /\ later' = {}

bracket == /\ parts > 0
           /\ Finish(bracketEnd(St, atom + 1, later), wants[atom + 1])

\* [^...]: the bracket between scratch states, and the atom is the complement of its arcs.
cbracket ==
  /\ parts > 0
  /\ LET b == bracketEnd([St EXCEPT !.arcs = {[a EXCEPT !.at = IF @ = atom + 1 THEN -1 ELSE @] : a \in arcs}], -1, later) IN
     Finish(Drop(colorcomplement(b, -1, atom + 1), -1), Chars \ wants[atom + 1])

Next == (\E i \in Items : brackpart(i)) \/ bracket \/ cbracket

Spec == Init /\ [][Next]_vars

-----------------------------------------------------------------------------
Colors(at) == {a.co : a \in {b \in arcs : b.at = at}}

\* Between atoms, whatever later ones split, every finished atom matches exactly the characters it was written
\* for: each of them still has one of its colours (or the atom any colour), and no other does.
AtomsKeepTheirCharacters ==
  parts = 0 =>
  \A k \in 1..atom : {c \in Chars : RAINBOW \in Colors(k) \/ getcolor(cm, c) \in Colors(k)} = wants[k]

RECURSIVE FreeList(_)
FreeList(co) == IF co <= 0 THEN <<>> ELSE <<co>> \o FreeList(cm.cd[co].sub)

\* The books balance: a colour's counts are the map entries that name it, and no arc or entry
\* names a colour on the free list or above the top, so a colour handed out again is nobody's.
ColorsAccounted ==
  /\ \A co \in 0..cm.max :
       /\ cm.cd[co].ns = Cardinality({c \in 0..MaxLow : cm.lo[c] = co})
       /\ cm.cd[co].nu = Cardinality({<<r, k>> \in (DOMAIN cm.hi) \X (1..Cols(cm)) : cm.hi[r][k] = co})
  /\ LET list == ToSet(FreeList(cm.free))
         used == {a.co : a \in arcs} \union {getcolor(cm, c) : c \in Chars}
     IN /\ list = {co \in 0..cm.max : cm.cd[co].free}
        /\ used \subseteq (0..cm.max \union {RAINBOW}) \ list

\* Between atoms no colour is half split.
TypeOK ==
  /\ cm.max \in 0..MaxColor /\ cm.free \in 0..MaxColor /\ atom \in 0..MaxAtoms /\ parts \in 0..MaxParts
  /\ later \subseteq DOMAIN Members
  /\ parts = 0 => \A co \in 0..cm.max : cm.cd[co].free \/ cm.cd[co].sub = NOSUB

-----------------------------------------------------------------------------
\* Two low and four high characters and two classes that cut across them: items that split a
\* range at its head, tail and middle, cover it, and fill the gaps between ranges.

Rg(a, b) == [k |-> "range", from |-> a, to |-> b]
=============================================================================
