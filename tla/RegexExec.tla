----------------------------- MODULE RegexExec -----------------------------
(* The matcher (pkg/sqlfn/pg_regex_exec.go): the search automaton says where the first match   *)
(* ends, each place a match may begin is tried, and a match is dissected along the tree of the *)
(* expression to find what its groups captured and whether its back references hold.  The     *)
(* automata answer what RegexDFA shows they do: the last or the first end of a run in a window. *)
(* Before that the compiler takes the parsed automaton through the passes of optimize until the *)
(* executor can run it, measures it, and makes the automaton that searches of it.              *)
EXTENDS RegexNFA

CONSTANTS Programs,   \* expressions, with the number of groups
          Subjects,
          Starts      \* searchStart

VARIABLES given       \* the program run, or <<>>
vars == <<given>>

Init == given = <<>>
Next == given = <<>> /\ \E p \in Programs : given' = <<p>>
Spec == Init /\ [][Next]_vars

-----------------------------------------------------------------------------
(* reVars: the compiled expression and its tree, the subject, where the search starts, what the *)
(* caller wants, and the automata of the parts, which the code makes when it first runs them:  *)
(* where their runs end.                                                                       *)
Unset == <<-1, -1>>
Stop(v) == Len(v.x.text)

RECURSIVE Nodes(_)
Nodes(t) == {t} \union UNION {Nodes(t.kids[k]) : k \in DOMAIN t.kids}

reCompile(p) == LET c == parse(Parser, p.re, FALSE, INIT, FINAL)
                    stages == Stages(c.P)
                IN [re |-> p.re, nsub |-> p.nsub, P |-> c.P, tree |-> c.t, backref |-> "B" \in c.t.fl,
                    search |-> makesearch(stages[Len(stages)].nfa)]
getsubdfa(prog, x) ==
  LET Table(b, e) == LET N == nfanode(prog.P, b, e) IN [i \in 0..Len(x.text) |-> Ends(prog.P, N, x, i)] IN
  [main |-> Table(INIT, FINAL), ends |-> [s \in {<<u.b, u.e>> : u \in Nodes(prog.tree)} |-> Table(s[1], s[2])]]
Vars(prog, x, dfa, at, want) == [prog |-> prog, x |-> x, main |-> dfa.main, ends |-> dfa.ends, at |-> at, want |-> want]

\* shortest on the search automaton: where the first match at k or later ends, and the last place
\* where no progress had been made.
SearchFrom(v, k) ==
  LET S == v.prog.search
      runs == Runs(v.prog.P, S, v.x, {}, {<<PRE, k - 1>>})
      ends == {c[2] - 1 : c \in {d \in runs : d[1] = POST}}
      close == Min(ends)
      idle == {p \in k..Min({close + 1, Stop(v)}) : {c[1] : c \in {d \in runs : d[2] = p}} \subseteq Noprogress(S)}
  IN IF ends = {} THEN [close |-> -1, cold |-> -1] ELSE [close |-> close, cold |-> Max({k} \union idle)]

-----------------------------------------------------------------------------
(* Dissection.  A result is whether the part matched, and the captures as they are left.       *)
Same(v, p, q, n) == \A k \in 1..n : v.x.text[p + k] = v.x.text[q + k]
brlen(t, pm) == pm[t.backno][2] - pm[t.backno][1]
Inf(n, k) == IF n = DUPINF THEN k ELSE Min({n, k})

\* dfaBackref: how far repeats of the captured string reach.
dfaBackref(v, t, pm, i, lo, hi, shorter) ==
  LET len == brlen(t, pm)
      minreps == Max({t.min, IF lo <= i THEN 0 ELSE (lo - i - 1) \div len + 1})
      maxreps == Inf(t.max, (hi - i) \div len)
      good == {n \in minreps..maxreps : \A k \in 0..n - 1 : Same(v, pm[t.backno][1], i + k * len, len)}
  IN IF len = 0 THEN (IF lo = i /\ t.min <= t.max THEN i ELSE -1)
     ELSE IF good = {} THEN -1 ELSE i + len * (IF shorter THEN Min(good) ELSE Max(good))

Known(t, pm) == t.op = "b" /\ pm[t.backno] # Unset
longest(v, t, pm, i, hi) ==
  IF Known(t, pm) THEN dfaBackref(v, t, pm, i, i, hi, FALSE)
  ELSE LET e == {j \in v.ends[<<t.b, t.e>>][i] : j <= hi} IN IF e = {} THEN -1 ELSE Max(e)
shortest(v, t, pm, i, lo, hi) ==
  IF Known(t, pm) THEN dfaBackref(v, t, pm, i, lo, hi, TRUE)
  ELSE LET e == {j \in v.ends[<<t.b, t.e>>][i] : j >= lo /\ j <= hi} IN IF e = {} THEN -1 ELSE Min(e)

zaptreesubs(t, pm) == [n \in DOMAIN pm |-> IF \E u \in Nodes(t) : u.capno = n THEN Unset ELSE pm[n]]

cbrdissect(v, t, i, j, pm) ==
  LET len == brlen(t, pm)  reps == (j - i) \div len IN
  /\ pm[t.backno] # Unset
  /\ IF len = 0 THEN i = j /\ t.min <= t.max
     ELSE IF i = j THEN t.min = 0
     ELSE /\ (j - i) % len = 0 /\ reps >= t.min /\ (t.max = DUPINF \/ reps <= t.max)
          /\ \A k \in 0..reps - 1 : Same(v, pm[t.backno][1], i + k * len, len)

RightFailed(l, pm) == zaptreesubs(l, pm)

RECURSIVE cdissect(_, _, _, _, _), concat(_, _, _, _, _, _), caltdissect(_, _, _, _, _, _), Iterate(_, _, _, _, _, _, _), Verify(_, _, _, _, _, _)

\* ccondissect and crevcondissect from the midpoint on: the left part's longest end first, or its
\* shortest, then the next one as long as the right part does not dissect.
concat(v, t, i, j, mid, pm) ==
  LET l == t.kids[1]  r == t.kids[2]  back == "S" \in l.fl
      fits == longest(v, r, pm, mid, j) = j
      dl == cdissect(v, l, i, mid, pm)
      dr == cdissect(v, r, mid, j, dl.pm)
      after == IF ~fits THEN pm ELSE IF dl.ok THEN RightFailed(l, dr.pm) ELSE dl.pm
      next == IF back THEN shortest(v, l, after, i, mid + 1, j) ELSE longest(v, l, after, i, mid - 1)
  IN IF mid = -1 THEN [ok |-> FALSE, pm |-> pm]
     ELSE IF fits /\ dl.ok /\ dr.ok THEN dr
     ELSE IF mid = (IF back THEN j ELSE i) THEN [ok |-> FALSE, pm |-> after]
     ELSE concat(v, t, i, j, next, after)

caltdissect(v, t, k, i, j, pm) ==
  LET fits == longest(v, t.kids[k], pm, i, j) = j
      d == cdissect(v, t.kids[k], i, j, pm)
  IN IF k > Len(t.kids) THEN [ok |-> FALSE, pm |-> pm]
     ELSE IF fits /\ d.ok THEN d
     ELSE caltdissect(v, t, k + 1, i, j, IF fits THEN d.pm ELSE pm)

minMatches(t) == Max({t.min, 1})
maxMatches(t, i, j) == Max({minMatches(t), Inf(t.max, j - i)})

\* The iterations end at pts: each is dissected anew, its captures unset first.
Verify(v, t, pts, n, upto, pm) ==
  LET d == cdissect(v, t.kids[1], pts[n], pts[n + 1], zaptreesubs(t.kids[1], pm)) IN
  IF n = upto THEN [ok |-> TRUE, pm |-> pm, n |-> n]
  ELSE IF d.ok THEN Verify(v, t, pts, n + 1, upto, d.pm) ELSE [ok |-> FALSE, pm |-> d.pm, n |-> n]

\* citerdissect and creviterdissect: pts holds the begin and the ends chosen so far, k of them;
\* the next end is the longest below `limit`, or the shortest from `limit` on.
Backtrack(t, pts, j, back) ==
  LET mm == minMatches(t)
      stays(k) == IF back THEN pts[k + 1] < j
                  ELSE pts[k + 1] > pts[k] /\ (pts[k + 1] - 1 > pts[k] \/ (k < mm /\ mm - k >= j - pts[k]))
      ks == {k \in 1..Len(pts) - 1 : stays(k)}
  IN IF ks = {} THEN 0 ELSE Max(ks)
Iterate(v, t, i, j, pts, lim, s) ==
  LET back == "S" \in t.kids[1].fl
      k == Len(pts)
      mm == minMatches(t)  mx == maxMatches(t, i, j)
      bumped == IF lim = pts[k] /\ lim # j /\ (k >= mm \/ mm - k < j - lim) THEN lim + 1 ELSE lim
      lo == IF k >= mx THEN j ELSE bumped
      e == IF back THEN shortest(v, t.kids[1], s.pm, pts[k], lo, j) ELSE longest(v, t.kids[1], s.pm, pts[k], lim)
      all == Append(pts, e)
      verified == Min({s.verified, k - 1})
      Retry(ps, st) == LET b == Backtrack(t, ps, j, back) IN
        IF b = 0 THEN [ok |-> ~back /\ t.min = 0 /\ i = j, pm |-> st.pm]
        ELSE Iterate(v, t, i, j, SubSeq(ps, 1, b), IF back THEN ps[b + 1] + 1 ELSE ps[b + 1] - 1, st)
      st1 == [s EXCEPT !.verified = verified]
      all_ok == Verify(v, t, all, verified + 1, k + 1, s.pm)
  IN IF e = -1 THEN Retry(pts, s)
     ELSE IF e # j /\ k >= mx THEN Retry(pts, st1)
     ELSE IF e # j /\ ~back /\ e = pts[k] /\ (k >= mm \/ mm - k < j - e) THEN Retry(all, st1)
     ELSE IF e # j THEN Iterate(v, t, i, j, all, IF back THEN e ELSE j, st1)
     ELSE IF k < mm THEN Retry(all, st1)
     ELSE IF all_ok.ok THEN [ok |-> TRUE, pm |-> all_ok.pm]
     ELSE Retry(SubSeq(all, 1, all_ok.n + 1), [pm |-> all_ok.pm, verified |-> all_ok.n - 1])

cdissect(v, t, i, j, pm) ==
  LET back == "S" \in t.kids[1].fl
      d == CASE t.op = "=" -> [ok |-> TRUE, pm |-> pm]
             [] t.op = "b" -> [ok |-> cbrdissect(v, t, i, j, pm), pm |-> pm]
             [] t.op = "." -> concat(v, t, i, j, IF back THEN shortest(v, t.kids[1], pm, i, i, j) ELSE longest(v, t.kids[1], pm, i, j), pm)
             [] t.op = "|" -> caltdissect(v, t, 1, i, j, pm)
             [] t.op = "*" -> IF back /\ t.min <= 0 /\ i = j THEN [ok |-> TRUE, pm |-> pm]
                              ELSE Iterate(v, t, i, j, <<i>>, IF back THEN i ELSE j, [pm |-> pm, verified |-> 0])
             [] t.op = "(" -> cdissect(v, t.kids[1], i, j, pm)
  IN IF d.ok /\ t.capno > 0 THEN [ok |-> TRUE, pm |-> [d.pm EXCEPT ![t.capno] = <<i, j>>]] ELSE d

-----------------------------------------------------------------------------
(* find and cfindloop.                                                                         *)
prefersShort(v) == "S" \in v.prog.tree.fl
EndFrom(v, m) == LET e == {j \in v.main[m.begin] : j >= m.estart /\ j <= m.estop} IN
                 IF e = {} THEN -1 ELSE IF prefersShort(v) THEN Min(e) ELSE Max(e)
Found(ok, span, pm) == [ok |-> ok, span |-> span, pm |-> pm]

RECURSIVE search(_, _, _), try(_, _)

\* The first end of a match at k or later; the places it may have begun at follow.
search(v, k, pm) ==
  LET s == SearchFrom(v, k) IN
  IF s.close = -1 THEN Found(FALSE, Unset, pm)
  ELSE IF ~v.prog.backref /\ v.want = "match" THEN Found(TRUE, Unset, pm)
  ELSE try(v, [close |-> s.close, begin |-> s.cold, estart |-> s.cold, estop |-> Stop(v), pm |-> pm])

\* No other end from here: the next begin, or a later end while there are characters left.
NextBegin(v, m) ==
  IF m.begin < m.close THEN try(v, [m EXCEPT !.begin = @ + 1, !.estart = m.begin + 1, !.estop = Stop(v)])
  ELSE IF v.prog.backref /\ m.close + 1 < Stop(v) THEN search(v, m.close + 1, m.pm)
  ELSE Found(FALSE, Unset, m.pm)

\* One candidate: its end, then its dissection; another end when that fails, another begin when
\* there is no other end.  Without back references the first candidate is the match.
try(v, m) ==
  LET end == EndFrom(v, m)
      dissects == v.prog.backref \/ v.want = "groups"
      d == IF dissects THEN cdissect(v, v.prog.tree, m.begin, end, m.pm) ELSE [ok |-> TRUE, pm |-> m.pm]
      left == [m EXCEPT !.pm = d.pm]
  IN IF end = -1 THEN NextBegin(v, m)
     ELSE IF d.ok \/ ~v.prog.backref THEN Found(d.ok, <<m.begin, end>>, d.pm)
     ELSE IF end = (IF prefersShort(v) THEN m.estop ELSE m.begin) THEN NextBegin(v, left)
     ELSE IF prefersShort(v) THEN try(v, [left EXCEPT !.estart = end + 1])
     ELSE try(v, [left EXCEPT !.estop = end - 1])

reExec(v) == search(v, v.at, [n \in 1..v.prog.nsub |-> Unset])

-----------------------------------------------------------------------------
(* What the expression says of captures: the ways to read it, each with what its groups hold.  *)
RECURSIVE Groups(_), Reads(_, _, _, _)
GroupsIn(a) == IF a.t = "(" THEN (IF a.cap THEN 1 ELSE 0) + Groups(a.re) ELSE 0
Groups(r) == FoldLeft(LAMBDA n, b : FoldLeft(LAMBDA k, q : k + GroupsIn(q.a), n, b), 0, r)
\* One reading of an atom whose groups are numbered from n + 1.
ReadsAtom(v, a, n, c) ==
  LET i == c[1]
      pm == [k \in DOMAIN c[2] |-> IF k > n /\ k <= n + GroupsIn(a) THEN Unset ELSE c[2][k]]
      s == pm[a.no]
      len == s[2] - s[1]
  IN CASE a.t = "(" -> {<<d[1], IF a.cap THEN [d[2] EXCEPT ![n + 1] = <<i, d[1]>>] ELSE d[2]>>
                         : d \in Reads(v, a.re, IF a.cap THEN n + 1 ELSE n, <<i, pm>>)}
       [] a.t = "back" -> IF s # Unset /\ i + len <= Stop(v) /\ Same(v, s[1], i, len) THEN {<<i + len, pm>>} ELSE {}
       [] OTHER -> {<<j, pm>> : j \in SaysAtom(a, v.x, i)}
RECURSIVE Exactly(_, _, _, _, _), AtMost(_, _, _, _, _)
Exactly(v, a, n, S, k) == IF k = 0 THEN S ELSE Exactly(v, a, n, UNION {ReadsAtom(v, a, n, c) : c \in S}, k - 1)
AtMost(v, a, n, S, k) == LET more == S \union UNION {ReadsAtom(v, a, n, c) : c \in S} IN IF k = 0 \/ more = S THEN S ELSE AtMost(v, a, n, more, k - 1)
ReadsBranch(v, b, n, c) ==
  FoldLeft(LAMBDA acc, q : [n |-> acc.n + GroupsIn(q.a),
                            S |-> AtMost(v, q.a, acc.n, Exactly(v, q.a, acc.n, acc.S, q.m), IF q.n = DUPINF THEN 9 ELSE q.n - q.m)],
           [n |-> n, S |-> {c}], b).S
Reads(v, r, n, c) == UNION {ReadsBranch(v, r[k], n + Groups(SubSeq(r, 1, k - 1)), c) : k \in DOMAIN r}

\* Without back references a match is found exactly when the expression has one, and it is the
\* leftmost, and of those the longest, or the shortest when the expression prefers that.
Leftmost(v, r) ==
  LET begins == {i \in v.at..Stop(v) : Says(v.prog.re, v.x, i) # {}}
      b == Min(begins)
      ends == Says(v.prog.re, v.x, b)
  IN ~v.prog.backref =>
       IF begins = {} THEN ~r.ok
       ELSE r.ok /\ (v.want # "match" => r.span = <<b, IF prefersShort(v) THEN Min(ends) ELSE Max(ends)>>)

\* What is reported is a way to read the expression: the groups, as the last repeat left them, and
\* the back references agree with the span and with each other.
CapturesAreAReading(v, r) ==
  r.ok /\ (v.prog.backref \/ v.want = "groups") =>
    <<r.span[2], r.pm>> \in Reads(v, v.prog.re, 0, <<r.span[1], [n \in DOMAIN r.pm |-> Unset]>>)

\* A search that fails leaves no capture behind for another candidate to be compared with.
FailureLeavesNothing(r) == ~r.ok => \A n \in DOMAIN r.pm : r.pm[n] = Unset

\* The answer is right, whatever the text, wherever the search starts and whatever is asked.
MatchFound ==
  given # <<>> =>
    LET prog == reCompile(given[1]) IN
    \A x \in Subjects :
      LET dfa == getsubdfa(prog, x) IN
      \A at \in {k \in Starts : k <= Len(x.text)}, want \in {"match", "span", "groups"} :
        LET v == Vars(prog, x, dfa, at, want)
            r == reExec(v)
        IN Leftmost(v, r) /\ CapturesAreAReading(v, r) /\ FailureLeavesNothing(r)

-----------------------------------------------------------------------------
(* What compilation must keep.                                                                 *)
Lang(parsed, N) == [x \in Subjects |-> [i \in 0..Len(x.text) |-> Ends(parsed, N, x, i)]]
Meant(re) == [x \in Subjects |-> [i \in 0..Len(x.text) |-> Says(re, x, i)]]

\* An automaton marked as a length test matches every span of those lengths and no other, so that
\* the matcher may skip running it.
MatchallIsLength(m, meant) ==
  m.on => \A x \in Subjects : \A i \in 0..Len(x.text) :
      meant[x][i] = {j \in i..Len(x.text) : j - i >= m.min /\ (m.max = DUPINF \/ j - i <= m.max)}

\* The search automaton, begun anywhere, ends exactly where some match begun there or later ends.
SearchFinds(parsed, S, meant) ==
  \A x \in Subjects : \A k \in 0..Len(x.text) : Ends(parsed, S, x, k) = UNION {meant[x][i] : i \in k..Len(x.text)}

\* What is handed to the executor holds nothing it cannot run: compact would fail the assertion.
OnlyRunnableArcs(N) == \A a \in N.arcs : a.t \in {"plain", "lacon"}

\* Every pass keeps what the automaton matches, on every text and from every place in it, anchors
\* and look-arounds included, and that is what the expression says.
LanguageKept ==
  given # <<>> =>
    LET re == given[1].re
        parsed == parse(Parser, re, FALSE, INIT, FINAL).P
        stages == Stages(parsed)
        N == stages[Len(stages)].nfa
        S == makesearch(N)
        meant == Meant(re)
    IN /\ \A k \in DOMAIN stages : Lang(parsed, stages[k].nfa) = meant
       /\ MatchallIsLength(analyze(N), meant)
       /\ SearchFinds(parsed, S, meant)
       /\ OnlyRunnableArcs(N) /\ OnlyRunnableArcs(S)

-----------------------------------------------------------------------------
\* Two letters, texts of up to four; nested groups, repeats of both preferences, alternations whose
\* branches capture, and back references that make a first dissection fail.

AstLa(t, cs, r, cap, no, la) == [t |-> t, cs |-> cs, re |-> r, cap |-> cap, no |-> no, la |-> la]
Ast(t, cs, r, cap, no) == AstLa(t, cs, r, cap, no, [ahead |-> TRUE, pos |-> TRUE])
ca == Ast("chr", {"a"}, <<>>, FALSE, 0)
cb == Ast("chr", {"b"}, <<>>, FALSE, 0)
dot == Ast("chr", {RAINBOW}, <<>>, FALSE, 0)
Con(t) == Ast(t, {}, <<>>, FALSE, 0)
Grp(r) == Ast("(", {}, r, FALSE, 0)
Cap(r) == Ast("(", {}, r, TRUE, 0)
Bref(n) == Ast("back", {}, <<>>, FALSE, n)
Q(y, m, k, p) == [a |-> y, m |-> m, n |-> k, pref |-> p]
One(y) == Q(y, 1, 1, "")
B(q) == <<q>>
Reps(y) == {Q(y, k[1], k[2], p) : k \in {<<0, DUPINF>>, <<1, DUPINF>>, <<0, 1>>, <<2, 3>>}, p \in {"L", "S"}}
P(n, r) == [nsub |-> n, re |-> r]
Bodies == {<<B(One(ca)), B(One(cb))>>, <<<<One(ca), Q(cb, 0, DUPINF, "L")>>>>, <<B(Q(ca, 0, DUPINF, "S"))>>, <<B(Q(dot, 1, 2, "S"))>>}
Simplest == {P(1, <<<<q, One(cb)>>>>) : q \in UNION {Reps(Cap(b)) : b \in Bodies}}
Nested == {P(2, <<<<q, Q(Cap(<<B(Q(dot, 0, 1, "S"))>>), 0, DUPINF, "L")>>>>) : q \in UNION {Reps(Cap(b)) : b \in Bodies}}
Halves == {P(3, <<<<One(Cap(<<B(q)>>)), One(Cap(<<B(One(cb)), <<One(ca), One(ca)>>>>)), Q(Cap(<<B(One(dot))>>), 0, 1, p)>>>>) : q \in Reps(dot), p \in {"L", "S"}}
Refs == {P(1, <<<<One(Cap(<<B(q)>>)), Q(Bref(1), k[1], k[2], "L"), One(Con("Z"))>>>>) : q \in Reps(dot), k \in {<<1, 1>>, <<0, DUPINF>>, <<2, 3>>}}
Bare == {P(1, <<<<One(Cap(<<B(q)>>)), Q(Bref(1), k[1], k[2], "L")>>>>) : q \in {One(dot), Q(dot, 1, 2, "S")}, k \in {<<1, 1>>, <<2, 3>>}}
InLoop == {P(2, <<<<Q(Cap(<<<<One(Cap(b)), One(Bref(2))>>, <<One(cb)>>>>), k[1], k[2], p), One(ca)>>>>) : b \in Bodies, k \in {<<1, DUPINF>>, <<2, 2>>, <<0, DUPINF>>}, p \in {"L", "S"}}
Either == {P(2, <<<<One(Cap(<<B(Q(ca, 1, DUPINF, p))>>)), One(Grp(<<<<One(Cap(<<B(One(ca))>>)), One(Bref(1))>>, <<One(cb), Q(Bref(1), 0, 1, "L")>>>>)), One(Bref(2))>>,
                  <<One(cb), One(Con("Z"))>>>>) : p \in {"L", "S"}}
MCPrograms == Simplest \union Nested \union Halves \union Refs \union Bare \union InLoop \union Either
MCSubjects == {[text |-> t, notbol |-> FALSE, noteol |-> FALSE] :
               t \in UNION {[1..k -> {"a", "b"}] : k \in 0..2} \union {<<"a", "a", "b">>, <<"a", "a", "b", "b">>, <<"b", "a", "a", "a">>, <<"a", "a", "a", "a", "b">>}}

\* Two colours, a word character and the newline; texts of up to three characters; expressions
\* that put anchors, word boundaries and look-arounds inside alternations, groups and repeats.

cn == Ast("chr", {"n"}, <<>>, FALSE, 0)
Look(ahead, pos, r) == AstLa("look", {}, r, FALSE, 0, [ahead |-> ahead, pos |-> pos])
Long(y, m, k) == Q(y, m, k, "L")
Star(y) == Long(y, 0, DUPINF)
Opt(y) == Long(y, 0, 1)

Marks == {"^", "$", "^n", "$n", "A", "Z", "<", ">", "y", "Y"}
Looks == {Look(ahead, pos, r) : ahead \in BOOLEAN, pos \in BOOLEAN,
          r \in {<<B(One(ca))>>, <<<<One(ca), One(dot)>>>>, <<<<One(Con("^")), Star(ca)>>>>}}
Marked == {Con(t) : t \in Marks} \union Looks
Plainly == {<<B(Long(x, k[1], k[2]))>> : x \in {ca, dot, Cap(<<B(One(ca)), B(One(cn))>>), Grp(<<<<One(ca), Opt(cn)>>>>)},
            k \in {<<0, 1>>, <<0, DUPINF>>, <<1, DUPINF>>, <<0, 2>>, <<1, 2>>, <<2, 3>>, <<2, DUPINF>>, <<0, 0>>}}
InRepeat == {<<B(Star(Grp(<<<<One(x), Opt(ca)>>>>)))>> : x \in Marked}
           \union {<<B(Long(Cap(<<<<Opt(cn), One(x)>>, <<One(ca)>>>>), 2, 3))>> : x \in Marked}
Mixed == {<<<<One(ca), One(x), One(cn)>>, <<One(x), One(y)>>>> : x \in {Con(t) : t \in Marks}, y \in {Con("^"), Con("y"), Con("$n"), ca}}
Loops == {<<B(Star(Grp(<<<<One(x)>>, <<One(y)>>>>))), <<One(cn), Star(Grp(<<<<Opt(Grp(<<B(One(x))>>)), Opt(Grp(<<B(One(y))>>))>>>>)), One(ca)>>>>
          : x \in {Con("^"), Con("<"), Con("^n")}, y \in {Con("$"), Con("Y"), Look(TRUE, TRUE, <<<<One(ca), One(dot)>>>>)}}
Lengths == {<<B(One(dot)), B(Long(dot, 3, 3))>>, <<B(Long(dot, 2, 2)), B(Star(dot))>>, <<B(One(dot)), B(Long(dot, 2, 3))>>}
MCRegexes == {P(0, r) : r \in Lengths \union Plainly \union InRepeat \union Mixed \union Loops}
MCTexts == {[text |-> t, notbol |-> FALSE, noteol |-> FALSE] : t \in UNION {[1..k -> {"a", "n"}] : k \in 0..3}}
           \union {[text |-> t, notbol |-> TRUE, noteol |-> TRUE] : t \in {<<>>, <<"a">>, <<"n", "a">>}}
=============================================================================
