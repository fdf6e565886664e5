------------------------------ MODULE RegexNFA ------------------------------
(* The automaton of the regular expression compiler (pkg/sqlfn/pg_regex_nfa.go): a set of arcs *)
(* between numbered states.  An arc consumes a character of a colour, or consumes nothing:      *)
(* EMPTY, the anchors ^ and $, AHEAD and BEHIND a colour, and LACON, a look-around that runs an *)
(* automaton of its own.  pre consumes the character before the match and post the one after,  *)
(* or the pseudocolours that stand for the ends of the text.                                    *)
EXTENDS Integers, Sequences, SequencesExt, FiniteSets, FiniteSetsExt

CONSTANTS Colors,     \* the colours of characters
          Word,       \* those of word characters
          NL,         \* that of the newline
          DUPINF      \* reDUPINF, one more than the largest count of a bound

POST == 0
PRE == 1
INIT == 2
FINAL == 3
RAINBOW == "rainbow"
bos == <<"bos0", "bos1">>
eos == <<"eos0", "eos1">>
Pseudo == {"bos0", "bos1", "eos0", "eos1"}
Constraint == {"^", "$", "ahead", "behind", "lacon"}

Arc(t, co, f, to) == [t |-> t, co |-> co, f |-> f, to |-> to]
newarc(N, t, co, f, to) == [N EXCEPT !.arcs = @ \union {Arc(t, co, f, to)}]
emptyarc(N, f, to) == newarc(N, "empty", "", f, to)
newstate(N) == [N EXCEPT !.next = @ + 1]
freearc(N, a) == [N EXCEPT !.arcs = @ \ {a}]
dropstate(N, s) == [N EXCEPT !.arcs = {a \in @ : a.f # s /\ a.to # s}]
Ins(N, s) == {a \in N.arcs : a.to = s}
Outs(N, s) == {a \in N.arcs : a.f = s}

\* pre and post carry a flag, which keeps them and keeps constraints from moving past them.
Flagged(s) == s \in {PRE, POST}
States(N) == {a.f : a \in N.arcs} \union {a.to : a \in N.arcs} \union {PRE, POST}

newnfa == [next |-> 4,
           arcs |-> {Arc("plain", RAINBOW, PRE, INIT), Arc("plain", RAINBOW, FINAL, POST)}
                    \union {Arc("^", k, PRE, INIT) : k \in {"0", "1"}} \union {Arc("$", k, FINAL, POST) : k \in {"0", "1"}}]

copyins(N, old, new) == [N EXCEPT !.arcs = @ \union {[a EXCEPT !.to = new] : a \in Ins(N, old)}]
copyouts(N, old, new) == [N EXCEPT !.arcs = @ \union {[a EXCEPT !.f = new] : a \in Outs(N, old)}]
moveins(N, old, new) == [copyins(N, old, new) EXCEPT !.arcs = @ \ Ins(N, old)]
moveouts(N, old, new) == [copyouts(N, old, new) EXCEPT !.arcs = @ \ Outs(N, old)]
cloneouts(N, old, f, to, t) == [N EXCEPT !.arcs = @ \union {Arc(t, a.co, f, to) : a \in Outs(N, old)}]

\* The states reached from S along arcs, going no further than stop.
RECURSIVE Reach(_, _, _)
Reach(arcs, S, stop) ==
  LET more == S \union {a.to : a \in {b \in arcs : b.f \in S \ stop}} IN
  IF more = S THEN S ELSE Reach(arcs, more, stop)

delsub(N, lp, rp) == [N EXCEPT !.arcs = {a \in @ : a.f \notin Reach(@, {lp}, {rp}) \ {rp}}]

\* Between from and to of N, a copy of what lies between start and stop in src.
dupnfa(src, N, start, stop, from, to) ==
  LET inner == Reach(src, {start}, {stop}) \ {stop}
      place == [s \in inner \union {stop} |->
                 IF s = start THEN from ELSE IF s = stop THEN to
                 ELSE N.next + Cardinality({x \in inner \ {start} : x < s})]
  IN IF start = stop THEN emptyarc(N, from, to)
     ELSE [N EXCEPT !.next = @ + Cardinality(inner) - 1,
                    !.arcs = @ \union {Arc(a.t, a.co, place[a.f], place[a.to]) : a \in {b \in src : b.f \in inner}}]

removeconstraints(N, start, stop) ==
  LET inner == Reach(N.arcs, {start}, {stop}) \ {stop} IN
  [N EXCEPT !.arcs = {IF a.f \in inner /\ a.t \in Constraint THEN Arc("empty", "", a.f, a.to) ELSE a : a \in @}]

\* The state from which PLAIN arcs alone lead to the end, or -1.
SingleColorTransition(N, begin, end) ==
  LET s1 == IF Cardinality(Outs(N, begin)) = 1 /\ (CHOOSE a \in Outs(N, begin) : TRUE).t = "empty"
            THEN (CHOOSE a \in Outs(N, begin) : TRUE).to ELSE begin
      s2 == IF Cardinality(Ins(N, end)) = 1 /\ (CHOOSE a \in Ins(N, end) : TRUE).t = "empty"
            THEN (CHOOSE a \in Ins(N, end) : TRUE).f ELSE end
  IN IF s1 = s2 \/ Outs(N, s1) = {} \/ \E a \in Outs(N, s1) : a.t # "plain" \/ a.to # s2 THEN -1 ELSE s1

-----------------------------------------------------------------------------
(* optimize: its passes.                                                     *)
Idle(N, s) == ~Flagged(s) /\ (Ins(N, s) = {} \/ Outs(N, s) = {})
DropIdle(N) == FoldSet(LAMBDA s, acc : IF Idle(acc, s) THEN dropstate(acc, s) ELSE acc, N, States(N))

cleanup(N) ==
  LET back == {[a EXCEPT !.f = a.to, !.to = a.f] : a \in N.arcs}
      keep == (Reach(N.arcs, {PRE}, {}) \cap Reach(back, {POST}, {})) \union {PRE, POST}
  IN [N EXCEPT !.arcs = {a \in @ : a.f \in keep /\ a.to \in keep}]

\* States whose one out-arc, or one in-arc, is EMPTY are joined to the state it leads to.
JoinOut(s, N) ==
  IF Flagged(s) \/ Cardinality(Outs(N, s)) # 1 THEN N
  ELSE LET a == CHOOSE b \in Outs(N, s) : TRUE IN
       IF a.t # "empty" THEN N ELSE dropstate(IF a.to # s THEN moveins(N, s, a.to) ELSE N, s)
JoinIn(s, N) ==
  IF Flagged(s) \/ Cardinality(Ins(N, s)) # 1 THEN N
  ELSE LET a == CHOOSE b \in Ins(N, s) : TRUE IN
       IF a.t # "empty" THEN N ELSE dropstate(IF a.f # s THEN moveouts(N, s, a.f) ELSE N, s)

\* A state that leads on takes the in-arcs of every state EMPTY arcs reach it from.
MergeEmpties(N) ==
  LET back == {Arc("", "", a.to, a.f) : a \in {b \in N.arcs : b.t = "empty"}} IN
  [N EXCEPT !.arcs = {a \in @ : a.t # "empty"} \union
    UNION {{[a EXCEPT !.to = s] : a \in {b \in N.arcs : b.t # "empty" /\ b.to \in Reach(back, {s}, {})}} :
           s \in {x \in States(N) : Flagged(x) \/ \E b \in Outs(N, x) : b.t # "empty"}}]

fixempties(N) ==
  DropIdle(MergeEmpties(FoldSet(JoinIn, FoldSet(JoinOut, N, States(N)), States(N))))

\* A loop of constraint arcs, as its states in order, or <<>>.
ConOuts(N, s) == {a \in Outs(N, s) : a.t \in Constraint}
RECURSIVE findconstraintloop(_, _, _)
findconstraintloop(N, path, s) ==
  IF s \in ToSet(path) THEN SubSeq(path, CHOOSE i \in DOMAIN path : path[i] = s, Len(path))
  ELSE FoldSet(LAMBDA a, acc : IF acc # <<>> THEN acc ELSE findconstraintloop(N, Append(path, s), a.to), <<>>, ConOuts(N, s))

\* The arc types on the way from the root of the clones to s, which the constraints met there imply.
RECURSIVE Above(_, _)
Above(N, s) == IF Ins(N, s) = {} THEN {}
               ELSE LET a == CHOOSE b \in Ins(N, s) : TRUE IN
                    (IF Cardinality(Ins(N, s)) = 1 THEN {<<a.t, a.co>>} ELSE {}) \union Above(N, a.f)

CanMerge(N, a, clone, ref) == <<a.t, a.co>> \in ref \union Above(N, clone)

\* Copies of src's out-arcs at clone; a target that can go on along constraints is cloned in turn
\* (of maps its clone to it), merged into clone when its constraint is implied, and left out when
\* done says the walk has been there.
RECURSIVE CloneOuts(_, _, _, _)
CloneOuts(c, src, clone, ref) ==
  LET One(a, acc) ==
        LET prev == {x \in acc.of : Outs(acc.N, clone) # {} /\ x[2] = a.to /\ \E b \in Outs(acc.N, clone) : b.to = x[1]} IN
        IF a.t \notin Constraint \/ ConOuts(acc.N, a.to) = {} THEN [acc EXCEPT !.N = newarc(@, a.t, a.co, clone, a.to)]
        ELSE IF a.to \in acc.done THEN acc
        ELSE IF CanMerge(acc.N, a, clone, ref)
        THEN CloneOuts([acc EXCEPT !.N = IF prev = {} THEN @ ELSE dropstate(@, (CHOOSE x \in prev : TRUE)[1]), !.of = @ \ prev],
                       a.to, clone, ref)
        ELSE IF prev # {} THEN [acc EXCEPT !.N = newarc(@, a.t, a.co, clone, (CHOOSE x \in prev : TRUE)[1])]
        ELSE [acc EXCEPT !.N = newarc(newstate(@), a.t, a.co, clone, @.next), !.of = @ \union {<<acc.N.next, a.to>>}]
  IN FoldSet(One, [c EXCEPT !.done = @ \union {src}], Outs(c.N, src))

RECURSIVE clonesuccessorstates(_, _, _, _, _)
clonesuccessorstates(N, src, clone, ref, done) ==
  LET c == CloneOuts([N |-> N, of |-> {}, done |-> done], src, clone, ref) IN
  FoldSet(LAMBDA x, acc : clonesuccessorstates(acc, x[2], x[1], ref, c.done), c.N, c.of)

\* The arcs from one state of the loop go to a clone of the next from which the loop's way back
\* is missing: a second turn would meet only constraints already met.
breakconstraintloop(N, loop) ==
  LET at(i) == loop[((i - 1) % Len(loop)) + 1]
      Between(i) == {a \in ConOuts(N, at(i)) : a.to = at(i + 1)}
      lone == {i \in DOMAIN loop : Cardinality(Between(i)) = 1}
      h == IF lone = {} THEN 1 ELSE Min(lone)
      ref == IF lone = {} THEN {} ELSE {<<a.t, a.co>> : a \in Between(h)}
      clone == N.next
      C == clonesuccessorstates(newstate(N), at(h + 1), clone, ref, {at(h)})
      moved == IF Outs(C, clone) = {} THEN {} ELSE {[a EXCEPT !.to = clone] : a \in Between(h)}
  IN [C EXCEPT !.arcs = (@ \ Between(h)) \union moved]

NoSelf(N) == [N EXCEPT !.arcs = {a \in @ : a.t \notin Constraint \/ a.f # a.to}]

\* What a constraint con that lands on an arc a does to it.
ColorConstraint(con, a) ==
  CASE con.co = a.co -> "satisfied"
    [] con.co # a.co /\ con.co = RAINBOW -> IF a.co \in Pseudo THEN "incompatible" ELSE "satisfied"
    [] con.co # a.co /\ con.co # RAINBOW /\ a.co = RAINBOW -> IF con.co \in Pseudo THEN "incompatible" ELSE "replace"
    [] OTHER -> "incompatible"

combine(con, a) ==
  CASE con.t \in {"^", "$"} /\ a.t = "plain" -> "incompatible"
    [] con.t \in {"ahead", "behind"} /\ a.t \in {"plain", con.t} -> ColorConstraint(con, a)
    [] con.t \in {"^", "$"} /\ a.t = con.t -> IF con.co = a.co THEN "satisfied" ELSE "incompatible"
    [] {con.t, a.t} \in {{"^", "behind"}, {"$", "ahead"}} -> "incompatible"
    [] OTHER -> "compatible"

\* The constraint con moves back past its source: onto each arc into a state that has no other way
\* out, made for it if need be.  inter maps the ends of a compatible pair to the state between.
PullOne(acc, con) ==
  LET split == Cardinality(Outs(acc.N, con.f)) > 1
      N1 == IF ~split THEN acc.N
            ELSE copyins(freearc(newarc(newstate(acc.N), con.t, con.co, acc.N.next, con.to), con), con.f, acc.N.next)
      c == IF split THEN [con EXCEPT !.f = acc.N.next] ELSE con
      One(a, x) ==
        LET r == combine(c, a)
            known == {y \in x.inter : y[1] = a.f /\ y[2] = c.to}
            mid == IF known = {} THEN x.N.next ELSE (CHOOSE y \in known : TRUE)[3]
            gone == freearc(x.N, a)
        IN CASE r = "satisfied" -> x
             [] r = "incompatible" -> [x EXCEPT !.N = gone]
             [] r = "replace" -> [x EXCEPT !.N = newarc(gone, a.t, c.co, a.f, c.to)]
             [] r = "compatible" -> [N |-> newarc(newarc(IF known = {} THEN newstate(gone) ELSE gone, c.t, c.co, a.f, mid),
                                                  a.t, a.co, mid, c.to),
                                     inter |-> x.inter \union {<<a.f, c.to, mid>>}]
      done == FoldSet(One, [N |-> N1, inter |-> acc.inter], Ins(N1, c.f))
  IN IF Ins(acc.N, con.f) = {} THEN [acc EXCEPT !.N = freearc(@, con)]
     ELSE [done EXCEPT !.N = freearc(moveins(@, c.f, c.to), c)]

Back == {"^", "behind"}
Ahead == {"$", "ahead"}
Pullable(N) == {a \in N.arcs : a.t \in Back /\ ~Flagged(a.f)}
pull(N, s) == DropIdle(FoldSet(LAMBDA a, acc : PullOne(acc, a), [N |-> N, inter |-> {}], {b \in Pullable(N) : b.f = s}).N)

\* push is pull with the arcs turned round.
Turn(N) == [N EXCEPT !.arcs = {Arc(a.t, a.co, a.to, a.f) : a \in @}]
Pushable(N) == {a \in N.arcs : a.t \in Ahead /\ ~Flagged(a.to)}
push(N, s) ==
  Turn(DropIdle(FoldSet(LAMBDA a, acc : PullOne(acc, [a EXCEPT !.f = a.to, !.to = a.f]), [N |-> Turn(N), inter |-> {}],
                        {b \in Pushable(N) : b.to = s}).N))

\* What is left of the anchors is at pre and post, and becomes the pseudocolours.
Number(k) == IF k = "0" THEN 1 ELSE 2
Anchor(N, t) == [N EXCEPT !.arcs = {IF a.t = t /\ (a.f = PRE \/ a.to = POST)
                                    THEN [a EXCEPT !.t = "plain", !.co = (IF t = "^" THEN bos ELSE eos)[Number(a.co)]] ELSE a : a \in @}]

-----------------------------------------------------------------------------
(* analyze: an automaton that only tests the length of the match.            *)
SameTargets(N, s, c1, c2) == {a.to : a \in {b \in Outs(N, s) : b.co = c1}} = {a.to : a \in {b \in Outs(N, s) : b.co = c2}}
SameSources(N, s, c1, c2) == {a.f : a \in {b \in Ins(N, s) : b.co = c1}} = {a.f : a \in {b \in Ins(N, s) : b.co = c2}}

\* haspath[i]: a path of i characters leads from s to post, the last entry standing for any longer.
NoPath == [i \in 0..DUPINF + 1 |-> FALSE]
RECURSIVE checkmatchallRecurse(_, _, _)
checkmatchallRecurse(N, s, seen) ==
  LET outs == {a \in Outs(N, s) : a.co = RAINBOW}
      on == {a.to : a \in outs} \ {s, POST}
      sub == [x \in on |-> IF x \in seen THEN [ok |-> FALSE, hp |-> NoPath] ELSE checkmatchallRecurse(N, x, seen \union {s})]
      bad == \E x \in on : ~sub[x].ok \/ sub[x].hp[DUPINF] # sub[x].hp[DUPINF + 1]
      hp == [i \in 0..DUPINF + 1 |-> \/ i = 0 /\ \E a \in outs : a.to = POST
                                     \/ i > 0 /\ i <= DUPINF /\ \E x \in on : sub[x].hp[i - 1]
                                     \/ i = DUPINF + 1 /\ \E x \in on : sub[x].hp[i]]
      loop == [i \in 0..DUPINF + 1 |-> hp[i] \/ \E j \in 0..(i - 1) : hp[j]]
  IN IF bad \/ {a.to : a \in outs} \ {s} = {} THEN [ok |-> FALSE, hp |-> NoPath]
     ELSE [ok |-> TRUE, hp |-> IF \E a \in outs : a.to = s THEN loop ELSE hp]

\* The end of the run of lengths that starts at the least.
Top(at) == Max({i \in at : \A j \in Min(at)..i : j \in at})
NoMatchall == [on |-> FALSE, min |-> -1, max |-> -1]
checkmatchall(N) ==
  LET Free(a) == a.t = "plain" /\ (a.co = RAINBOW \/ (a.f = PRE /\ a.co \in {bos[1], bos[2]}) \/ (a.to = POST /\ a.co \in {eos[1], eos[2]}))
      ends == \A k \in 1..2 : SameTargets(N, PRE, RAINBOW, bos[k]) /\ SameSources(N, POST, RAINBOW, eos[k])
      r == checkmatchallRecurse(N, PRE, {})
      at == {i \in DOMAIN r.hp : r.hp[i]}
  IN IF ~(\A a \in N.arcs : Free(a)) \/ ~ends \/ ~r.ok \/ at = {} THEN NoMatchall
     ELSE IF Top(at) # Max(at) THEN NoMatchall
     ELSE [on |-> TRUE, min |-> Min(at) - 1, max |-> Top(at) - 1]

\* A search may skip characters at pre first; states that follow pre are made to have in-arcs from
\* pre alone, so that being in none but them means no progress.
makesearch(N) ==
  LET N1 == IF \A a \in Outs(N, PRE) : a.co \in {bos[1], bos[2]} THEN N
            ELSE [N EXCEPT !.arcs = @ \union {Arc("plain", co, PRE, PRE) : co \in {RAINBOW, bos[1], bos[2]}}]
      firsts == {s \in {a.to : a \in Outs(N1, PRE)} : \E b \in Ins(N1, s) : b.f # PRE}
      Split(s, acc) == LET C == copyouts(newstate(acc), s, acc.next) IN
                       [C EXCEPT !.arcs = {IF a.to = s /\ a.f # PRE THEN [a EXCEPT !.to = acc.next] ELSE a : a \in @}]
  IN FoldSet(Split, N1, firsts)

\* The states where a search has made no progress: compact marks them.
Noprogress(N) == {PRE} \union {a.to : a \in Outs(N, PRE)}

-----------------------------------------------------------------------------
(* The parser (pkg/sqlfn/pg_regex.go), which draws the automaton as it reads and keeps a tree  *)
(* of the parts the matcher must dissect.  An expression is a sequence of branches, a branch a  *)
(* sequence of quantified atoms.                                                               *)

\* The tree's flags: what a part prefers, whether its parts disagree, captures and back references.
UP(f) == (f \ {"L", "S"}) \union (IF {"L", "S"} \subseteq f THEN {"M"} ELSE {})
MESSY(f) == f \cap {"M", "C", "B"} # {}
PREF(f) == f \cap {"L", "S"}
COMBINE(f, g) == UP(f \union g) \union (IF PREF(f) # {} THEN PREF(f) ELSE PREF(g))

subre(op, fl, b, e) ==
  [op |-> op, fl |-> fl, capno |-> 0, backno |-> 0, min |-> 1, max |-> 1, b |-> b, e |-> e, kids |-> <<>>]
NoNode == subre("", {}, -1, -1)

Parser == [next |-> newnfa.next, arcs |-> newnfa.arcs, nsub |-> 0, subs |-> <<>>, lacons |-> <<>>]
LaconName == <<"lacon1", "lacon2", "lacon3", "lacon4">>

Plain(N, cs, lp, rp) == [N EXCEPT !.arcs = @ \union {Arc("plain", co, lp, rp) : co \in cs}]
Two(N, t, lp, rp) == newarc(newarc(N, t, "1", lp, rp), t, "0", lp, rp)
Of(N, t, cs, lp, rp) == [N EXCEPT !.arcs = @ \union {Arc(t, co, lp, rp) : co \in cs}]
word(N, dir, lp, rp) == Of(N, dir, Word, lp, rp)
nonword(N, dir, lp, rp) == Of(Two(N, IF dir = "ahead" THEN "$" ELSE "^", lp, rp), dir, Colors \ Word, lp, rp)

\* The constraints that are not look-arounds.
Simple(N, t, lp, rp) ==
  LET s == N.next  N1 == newstate(N)
      Start(M, x) == word(nonword(M, "behind", lp, x), "ahead", x, rp)
      End(M, x) == nonword(word(M, "behind", lp, x), "ahead", x, rp)
      In(M, x) == word(word(M, "behind", lp, x), "ahead", x, rp)
      Out(M, x) == nonword(nonword(M, "behind", lp, x), "ahead", x, rp)
  IN CASE t \in {"^", "$"} -> newarc(N, t, "1", lp, rp)
       [] t = "^n" -> newarc(newarc(N, "^", "1", lp, rp), "behind", NL, lp, rp)
       [] t = "$n" -> newarc(newarc(N, "$", "1", lp, rp), "ahead", NL, lp, rp)
       [] t = "A" -> Two(N, "^", lp, rp)
       [] t = "Z" -> Two(N, "$", lp, rp)
       [] t = "<" -> Start(N1, s)
       [] t = ">" -> End(N1, s)
       [] t = "y" -> End(newstate(Start(N1, s)), s + 1)
       [] t = "Y" -> Out(newstate(In(N1, s)), s + 1)

\* A look-around of one character is a colour constraint; any other has an automaton of its own.
processlacon(N, begin, end, la, lp, rp) ==
  LET s == SingleColorTransition(N, begin, end)
      cs == {a.co : a \in Outs(N, s)}
      dir == IF la.ahead THEN "ahead" ELSE "behind"
      rest == IF RAINBOW \in cs THEN {} ELSE Colors \ cs
  IN CASE s # -1 /\ la.pos -> cloneouts(N, s, lp, rp, dir)
       [] s # -1 /\ ~la.pos -> Two(Of(N, dir, rest, lp, rp), IF la.ahead THEN "$" ELSE "^", lp, rp)
       [] OTHER -> [newarc(N, "lacon", LaconName[Len(N.lacons) + 1], lp, rp) EXCEPT
                      !.lacons = Append(@, [b |-> begin, e |-> end, ahead |-> la.ahead, pos |-> la.pos])]

RECURSIVE repeat(_, _, _, _, _)
\* One copy more, in front.
Again(N, lp, rp, m, n) ==
  LET s == N.next  M == moveouts(newstate(N), lp, s) IN
  repeat(dupnfa(M.arcs, M, s, rp, lp, s), lp, s, m, n)
repeat(N, lp, rp, m, n) ==
  LET s == N.next
      Two_ == moveins(moveouts([N EXCEPT !.next = @ + 2], lp, s), rp, s + 1)
      loop == moveins(moveouts(newstate(N), lp, s), rp, s)
      less == IF n = DUPINF THEN n ELSE n - 1
  IN CASE n = 0 -> emptyarc(delsub(N, lp, rp), lp, rp)
       [] m = 0 /\ n = 1 -> emptyarc(N, lp, rp)
       [] m = 0 /\ n > 1 /\ n # DUPINF -> emptyarc(repeat(N, lp, rp, 1, n), lp, rp)
       [] m = 0 /\ n = DUPINF -> emptyarc(emptyarc(loop, lp, s), s, rp)
       [] m = 1 /\ n = 1 -> N
       [] m = 1 /\ n > 1 /\ n # DUPINF -> emptyarc(Again(N, lp, rp, 1, n - 1), lp, s)
       [] m = 1 /\ n = DUPINF -> emptyarc(emptyarc(emptyarc(Two_, lp, s), s + 1, rp), s + 1, s)
       [] OTHER -> Again(N, lp, rp, m - 1, less)

RECURSIVE parse(_, _, _, _, _), parsebranch(_, _, _, _, _)

\* What stands before the quantifier: the arcs of one atom, and its node if it has one.
Atom(P, q, lp, rp, lacon) ==
  LET a == q.a
      s == P.next
      inner == parse(emptyarc(emptyarc([P EXCEPT !.next = @ + 2], lp, s), s + 1, rp), a.re, lacon, s, s + 1)
      capture == a.cap /\ ~lacon
      no == P.nsub + 1
      capped == parse(emptyarc(emptyarc([P EXCEPT !.next = @ + 2, !.nsub = no, !.subs = Append(@, <<-1, -1>>)], lp, s), s + 1, rp),
                      a.re, lacon, s, s + 1)
      node == IF capped.t.capno = 0 THEN [capped.t EXCEPT !.fl = @ \union {"C"}, !.capno = no]
              ELSE [subre("(", capped.t.fl \union {"C"}, s, s + 1) EXCEPT !.capno = no, !.kids = <<capped.t>>]
  IN CASE a.t = "chr" -> [P |-> Plain(P, a.cs, lp, rp), t |-> NoNode]
       [] a.t = "(" /\ ~capture -> inner
       [] a.t = "(" /\ capture -> [P |-> [capped.P EXCEPT !.subs[no] = <<node.b, node.e>>], t |-> node]
       [] a.t = "back" -> [P |-> emptyarc(P, lp, rp), t |-> [subre("b", {"B"}, lp, rp) EXCEPT !.backno = a.no]]

\* The hard part: the atom between states of its own, its bound, and a tree in which the matcher
\* can find it: what came before, the atom (repeated), and what is still to be parsed.
Messy(P, q, atom0, lp, rp, top, rest, lacon) ==
  LET bref == q.a.t = "back"
      pref == IF q.pref = "" THEN {} ELSE {q.pref}
      inplace == atom0.b \in {lp, -1} \/ atom0.e \in {rp, -1}
      s0 == P.next
      P1 == IF inplace THEN moveins(moveouts([P EXCEPT !.next = @ + 2], lp, s0), rp, s0 + 1)
            ELSE delsub(delsub(P, lp, atom0.b), atom0.e, rp)
      atom1 == IF inplace THEN [(IF atom0.b = -1 THEN subre("=", {}, 0, 0) ELSE atom0) EXCEPT !.b = s0, !.e = s0 + 1] ELSE atom0
      s == P1.next
      P2 == emptyarc(newstate(P1), lp, s)
      sub == P2.subs[q.a.no]
      body == delsub(P2, atom1.b, atom1.e)
      P3 == IF bref THEN removeconstraints(dupnfa(body.arcs, body, sub[1], sub[2], atom1.b, atom1.e), atom1.b, atom1.e) ELSE P2
      f == COMBINE(pref, atom1.fl)
      agree == pref = {} \/ atom1.fl \cap {"L", "S", "M"} = {} \/ pref = atom1.fl \cap {"L", "S", "M"}
      linked == emptyarc(P3, s, atom1.b)
      bound == repeat(linked, atom1.b, atom1.e, q.m, q.n)
      ahead == dupnfa(P3.arcs, P3, atom1.b, atom1.e, s, atom1.b)
      end == P3.next
      outs == moveouts(newstate(P3), atom1.e, end)
      whole == dupnfa(outs.arcs, outs, atom1.b, atom1.e, s, end)
      \* the five ways to put the bound on: the automaton, the node and the state it ends in
      done == CASE bref -> [P |-> bound, t |-> [atom1 EXCEPT !.min = q.m, !.max = q.n, !.fl = @ \union f], e |-> atom1.e]
                [] ~bref /\ q.m = 1 /\ q.n = 1 /\ agree -> [P |-> linked, t |-> atom1, e |-> atom1.e]
                [] ~bref /\ ~(q.m = 1 /\ q.n = 1 /\ agree) /\ atom1.fl \cap {"C", "B"} = {} ->
                     [P |-> bound, t |-> subre("=", f, atom1.b, atom1.e), e |-> atom1.e]
                [] ~bref /\ ~(q.m = 1 /\ q.n = 1 /\ agree) /\ "C" \in atom1.fl /\ "B" \notin atom1.fl /\ q.m > 0 ->
                     [P |-> repeat(ahead, s, atom1.b, q.m - 1, IF q.n = DUPINF THEN q.n ELSE q.n - 1),
                      t |-> [subre(".", f, s, atom1.e) EXCEPT !.kids = <<subre("=", PREF(f), s, atom1.b), atom1>>], e |-> atom1.e]
                [] OTHER -> [P |-> repeat(whole, s, end, q.m, q.n),
                             t |-> [subre("*", f, s, end) EXCEPT !.min = q.m, !.max = q.n, !.kids = <<atom1>>], e |-> end]
      before == subre("=", top.fl, top.b, lp)
      tail == parsebranch(done.P, rest, lacon, done.e, rp)
      tf == COMBINE(pref, atom1.fl)
      t1 == [subre(".", tf \union COMBINE(tf, tail.t.fl), lp, rp) EXCEPT !.kids = <<done.t, tail.t>>]
      t2 == IF done.t.op = "=" /\ tail.t.op = "=" /\ ~MESSY(UP(done.t.fl \union tail.t.fl))
            THEN subre("=", COMBINE(done.t.fl, tail.t.fl), lp, rp) ELSE t1
      topfl(t) == top.fl \union COMBINE(top.fl, t.fl)
  IN IF rest # <<>>
     THEN [P |-> tail.P, t |-> [top EXCEPT !.op = ".", !.fl = topfl(t1),
                                           !.kids = IF before.b = before.e THEN <<done.t, tail.t>> ELSE <<before, t2>>]]
     ELSE [P |-> emptyarc(done.P, done.e, rp),
           t |-> IF before.b = before.e THEN done.t
                 ELSE [top EXCEPT !.op = ".", !.fl = topfl(done.t), !.kids = <<before, done.t>>]]

\* One quantified atom, and the rest of the branch.
RECURSIVE Atoms(_, _, _, _, _, _)
Atoms(P, qs, lp, rp, top, lacon) ==
  LET q == Head(qs)
      rest == Tail(qs)
      s == P.next
      OnTo(Q, t) == IF rest = <<>> THEN [P |-> Q, t |-> t]
                    ELSE Atoms(moveins(newstate(Q), rp, Q.next), rest, Q.next, rp, t, lacon)
      look == parse([P EXCEPT !.next = @ + 2], q.a.re, TRUE, s, s + 1).P
      a == Atom(P, q, lp, rp, lacon)
      f == top.fl \union a.t.fl \union (IF q.pref = "" THEN {} ELSE {q.pref})
      hard == q.a.t = "back" \/ (q.a.t = "(" /\ q.a.cap /\ ~lacon) \/ MESSY(UP(f))
  IN CASE q.a.t = "look" -> OnTo(processlacon(look, s, s + 1, q.a.la, lp, rp), top)
       [] q.a.t \notin {"chr", "(", "back", "look"} -> OnTo(Simple(P, q.a.t, lp, rp), top)
       [] q.a.t \in {"chr", "(", "back"} /\ q.n = 0 ->
            OnTo(emptyarc(IF "C" \in a.t.fl THEN delsub(delsub(a.P, lp, a.t.b), a.t.e, rp) ELSE delsub(a.P, lp, rp), lp, rp), top)
       [] q.a.t \in {"chr", "(", "back"} /\ q.n # 0 /\ ~hard ->
            OnTo(IF q.m = 1 /\ q.n = 1 THEN a.P ELSE repeat(a.P, lp, rp, q.m, q.n), [top EXCEPT !.fl = f])
       [] OTHER -> Messy(a.P, q, a.t, lp, rp, top, rest, lacon)

parsebranch(P, qs, lacon, left, right) ==
  IF qs = <<>> THEN [P |-> emptyarc(P, left, right), t |-> subre("=", {}, left, right)]
  ELSE Atoms(P, qs, left, right, subre("=", {}, left, right), lacon)

parse(P, re, lacon, init, final) ==
  LET One(acc, qs) ==
        LET l == acc.P.next
            b == parsebranch(emptyarc(emptyarc([acc.P EXCEPT !.next = @ + 2], init, l), l + 1, final), qs, lacon, l, l + 1)
        IN [P |-> b.P, kids |-> Append(acc.kids, b.t), fl |-> acc.fl \union UP(acc.fl \union b.t.fl)]
      all == FoldLeft(One, [P |-> P, kids |-> <<>>, fl |-> {"L"}], re)
  IN [P |-> all.P, t |-> IF Len(re) = 1 THEN all.kids[1]
                         ELSE [subre(IF MESSY(all.fl) THEN "|" ELSE "=", all.fl, init, final)
                               EXCEPT !.kids = IF MESSY(all.fl) THEN all.kids ELSE <<>>]]

\* nfanode: an automaton of its own for what lies between b and e.
nfanode(P, b, e) == dupnfa(P.arcs, newnfa, b, e, INIT, FINAL)

-----------------------------------------------------------------------------

(* What an automaton matches.  A run is at a state with p the index of the next character;     *)
(* the ends of the text are characters too, of the pseudocolours.                             *)
At(x, p) == CASE p < 0 -> {IF x.notbol THEN bos[1] ELSE bos[2]}
              [] p >= Len(x.text) -> {IF x.noteol THEN eos[1] ELSE eos[2]}
              [] OTHER -> {x.text[p + 1], RAINBOW}

RECURSIVE Ends(_, _, _, _), LaconHolds(_, _, _, _)
Steps(P, N, x, c) ==
  UNION {LET p == c[2]
             consume == CASE a.t = "plain" -> a.co \in At(x, p)
                          [] a.t = "^" /\ a.f = PRE -> bos[Number(a.co)] \in At(x, p)
                          [] a.t = "$" /\ a.to = POST -> eos[Number(a.co)] \in At(x, p)
                          [] OTHER -> FALSE
             holds == CASE a.t = "empty" -> TRUE
                        [] a.t = "^" /\ a.f # PRE -> p = 0 /\ bos[Number(a.co)] \in At(x, -1)
                        [] a.t = "$" /\ a.to # POST -> p = Len(x.text) /\ eos[Number(a.co)] \in At(x, p)
                        [] a.t = "behind" -> a.co \in At(x, p - 1)
                        [] a.t = "ahead" -> a.co \in At(x, p)
                        [] a.t = "lacon" -> LaconHolds(P, CHOOSE k \in DOMAIN P.lacons : LaconName[k] = a.co, x, p)
                        [] OTHER -> FALSE
         IN (IF consume /\ p <= Len(x.text) THEN {<<a.to, p + 1>>} ELSE {}) \union (IF holds THEN {<<a.to, p>>} ELSE {})
         : a \in Outs(N, c[1])}
RECURSIVE Runs(_, _, _, _, _)
Runs(P, N, x, S, new) == IF new = {} THEN S
                         ELSE Runs(P, N, x, S \union new, UNION {Steps(P, N, x, c) : c \in new} \ (S \union new))
\* The ends of the matches that start at i.
Ends(P, N, x, i) == {c[2] - 1 : c \in {d \in Runs(P, N, x, {}, {<<PRE, i - 1>>}) : d[1] = POST}}
LaconHolds(P, k, x, p) ==
  LET l == P.lacons[k]  N == nfanode(P, l.b, l.e) IN
  l.pos = IF l.ahead THEN Ends(P, N, x, p) # {} ELSE \E i \in 0..p : p \in Ends(P, N, x, i)

-----------------------------------------------------------------------------
(* What the expression says, read off the expression itself.                                  *)
WordAt(x, p) == p >= 0 /\ p < Len(x.text) /\ x.text[p + 1] \in Word
NLAt(x, p) == p >= 0 /\ p < Len(x.text) /\ x.text[p + 1] = NL
Bol(x, p) == p = 0 /\ ~x.notbol
Eol(x, p) == p = Len(x.text) /\ ~x.noteol

RECURSIVE Says(_, _, _)
SaysAtom(a, x, i) ==
  CASE a.t = "chr" -> IF i < Len(x.text) /\ (x.text[i + 1] \in a.cs \/ RAINBOW \in a.cs) THEN {i + 1} ELSE {}
    [] a.t = "(" -> Says(a.re, x, i)
    [] a.t = "look" ->
         IF a.la.pos = IF a.la.ahead THEN Says(a.re, x, i) # {} ELSE \E h \in 0..i : i \in Says(a.re, x, h) THEN {i} ELSE {}
    [] OTHER -> IF CASE a.t = "^" -> Bol(x, i) [] a.t = "$" -> Eol(x, i)
                     [] a.t = "^n" -> Bol(x, i) \/ NLAt(x, i - 1) [] a.t = "$n" -> Eol(x, i) \/ NLAt(x, i)
                     [] a.t = "A" -> i = 0 [] a.t = "Z" -> i = Len(x.text)
                     [] a.t = "<" -> ~WordAt(x, i - 1) /\ WordAt(x, i) [] a.t = ">" -> WordAt(x, i - 1) /\ ~WordAt(x, i)
                     [] a.t = "y" -> WordAt(x, i - 1) # WordAt(x, i) [] a.t = "Y" -> WordAt(x, i - 1) = WordAt(x, i)
                THEN {i} ELSE {}
RECURSIVE Times(_, _, _, _), Upto(_, _, _, _)
Times(a, x, S, k) == IF k = 0 THEN S ELSE Times(a, x, UNION {SaysAtom(a, x, i) : i \in S}, k - 1)
Upto(a, x, S, k) == LET more == S \union UNION {SaysAtom(a, x, i) : i \in S} IN
                    IF k = 0 \/ more = S THEN S ELSE Upto(a, x, more, k - 1)
Says(r, x, i) ==
  UNION {FoldLeft(LAMBDA S, q : IF q.n = DUPINF THEN Upto(q.a, x, Times(q.a, x, S, q.m), 9)
                                ELSE Upto(q.a, x, Times(q.a, x, S, q.m), q.n - q.m), {i}, r[b]) : b \in DOMAIN r}
-----------------------------------------------------------------------------
(* optimize: the passes an automaton goes through until the executor can run it.               *)
Stage(ph, N) == [phase |-> ph, nfa |-> N]
Loop(N) == FoldSet(LAMBDA s, acc : IF acc # <<>> THEN acc ELSE findconstraintloop(N, <<>>, s), <<>>, States(N))
NoSelfLoops(N) == FoldSet(LAMBDA s, acc : IF Outs(acc, s) = {} /\ ~Flagged(s) THEN dropstate(acc, s) ELSE acc,
                          NoSelf(N), States(N))
\* fixconstraintloops, pullback and pushfwd go on while there is something to do.
LoopPass(N) == LET l == Loop(N) IN
  IF l # <<>> THEN Stage("loops", breakconstraintloop(N, l)) ELSE Stage("pull", DropIdle(N))
PullPass(N) == IF Pullable(N) # {} THEN Stage("pull", pull(N, Min({a.f : a \in Pullable(N)})))
              ELSE Stage("push", Anchor(N, "^"))
PushPass(N) == IF Pushable(N) # {} THEN Stage("push", push(N, Min({a.to : a \in Pushable(N)})))
              ELSE Stage("done", cleanup(Anchor(N, "$")))
pass(s) == CASE s.phase = "parsed" -> Stage("clean", cleanup(s.nfa))
             [] s.phase = "clean" -> Stage("noempty", fixempties(s.nfa))
             [] s.phase = "noempty" -> Stage("loops", NoSelfLoops(s.nfa))
             [] s.phase = "loops" -> LoopPass(s.nfa)
             [] s.phase = "pull" -> PullPass(s.nfa)
             [] s.phase = "push" -> PushPass(s.nfa)
RECURSIVE optimize(_)
optimize(s) == IF s.phase = "done" THEN <<s>> ELSE <<s>> \o optimize(pass(s))
Stages(P) == optimize(Stage("parsed", nfanode(P, INIT, FINAL)))
\* analyze: an automaton that is no more than a length test is marked so.
analyze(N) == IF Outs(N, PRE) = {} THEN NoMatchall ELSE checkmatchall(N)
=============================================================================
