------------------------------ MODULE RegexDFA ------------------------------
(* The lazy automaton of the matcher (pkg/sqlfn/pg_regex_dfa.go): sets of states of the NFA   *)
(* are kept in a small cache with the transitions already worked out, and the least recently  *)
(* seen one makes room for a new one.  longest, shortest and matchuntil run over the text, one *)
(* character a step, and share the cache from call to call.                                   *)
EXTENDS Integers, Sequences, FiniteSets, FiniteSetsExt, TLC

CONSTANTS Machines,   \* [trans, lacons, matchall]: a compacted NFA, its look-arounds, its length test
          Texts,      \* the subjects
          States,     \* of the NFAs, PRE and POST among them
          PRE, POST,
          Colors,     \* of characters
          Windows,    \* what a call asks: the mode, where it starts, the least and the greatest end
          MaxCalls

Nss == 2 * Cardinality(States)   \* newdfa: the state sets the cache holds
NONE == 0
KEEP == -2   \* the caller does not mark the set it is given as seen
AllColors == Colors \union {"bos", "eos"}

VARIABLES mach, text, cache,  \* ssets 1..used: [set, locked, post, nopr, seen, outs]
          used, search,       \* nssused, and where the next search for a victim begins
          lastpost, lastnopr, \* lastseen of evicted sets that were accepting, or had made no progress
          call, pc, cp, css,  \* the call, where it is, and the current sset or NONE
          kept,               \* matchuntil's lastcss and lastcp
          calls, answer

vars == <<mach, text, cache, used, search, lastpost, lastnopr, call, pc, cp, css, kept, calls, answer>>

NoSset == [set |-> {}, locked |-> FALSE, post |-> FALSE, nopr |-> FALSE, seen |-> 0, outs |-> [co \in AllColors |-> NONE]]
ColorAt(p) == IF p < 0 THEN "bos" ELSE IF p >= Len(text) THEN "eos" ELSE text[p + 1]
Stop == Len(text)
Noprogress(M) == {PRE} \union UNION {M.trans[PRE][co] : co \in AllColors}

\* Following look-arounds that hold at p, again while one leads anywhere new.
RECURSIVE Lacons(_, _, _)
Lacons(M, S, p) == LET more == S \union {l.to : l \in {k \in M.lacons : k.from \in S /\ ColorAt(p) = k.ahead}} IN
                   IF more = S THEN S ELSE Lacons(M, more, p)
Plainly(M, S, co) == UNION {M.trans[s][co] : s \in S}
\* A look-around was asked about: what it said holds here and not for the colour.
Saw(M, S, all) == \E l \in M.lacons : l.from \in all /\ l.to \notin S

ancient(p) == IF p - call.start > (Nss * 2) \div 3 THEN p - (Nss * 2) \div 3 ELSE call.start

\* pickss: an unused entry, or the first from `search` on, round the cache, that was not seen lately.
Victims(p) == {i \in 1..Nss : cache[i].seen < ancient(p) /\ ~cache[i].locked}
pickss(p) == IF used < Nss THEN used + 1
             ELSE IF Victims(p) = {} THEN NONE
             ELSE IF \E i \in Victims(p) : i > search THEN Min({i \in Victims(p) : i > search}) ELSE Min(Victims(p))

\* Mutant of Vacated: transitions into the evicted set are left in place.
Vacated_StaleArcs(i) == [j \in 1..Nss |-> cache[j]]
\* getvacant: nothing leads to the evicted set any more.
Vacated(i) == [j \in 1..Nss |-> [cache[j] EXCEPT !.outs = [co \in AllColors |-> IF @[co] = i THEN NONE ELSE @[co]]]]

\* The last place an evicted set of this kind was seen at.
Remember(i, flag, last) == IF flag /\ cache[i].seen > last THEN cache[i].seen ELSE last

\* The cache after entry i is made to hold S, reached from `from` on co unless a look-around decided.
Placed(c, i, S, from, co, link) ==
  LET fresh == [NoSset EXCEPT !.set = S, !.seen = c[i].seen, !.post = POST \in S, !.nopr = S \subseteq Noprogress(mach)]
      c1 == IF i \in 1..used /\ c[i].set = S /\ c = cache THEN c ELSE [c EXCEPT ![i] = fresh]
  IN IF link THEN [c1 EXCEPT ![from].outs[co] = i] ELSE c1

\* miss: the sset after co at p.  Sets the cache, used, search, lastpost and lastnopr; the result
\* is Hit: an entry, or NONE when no state is left.
Target(from, co, p) ==
  LET S == Plainly(mach, cache[from].set, co)
      all == Lacons(mach, S, p)
      known == {i \in 1..used : cache[i].set = all}
      cached == cache[from].outs[co] # NONE
  IN [cached |-> cached, set |-> all, saw |-> Saw(mach, S, all), dead |-> S = {},
      at |-> CASE cached -> cache[from].outs[co]
               [] ~cached /\ S = {} -> NONE
               [] ~cached /\ S # {} /\ known # {} -> Min(known)
               [] OTHER -> pickss(p),
      vacant |-> ~cached /\ S # {} /\ known = {}]

miss(t, from, co, seenAt) ==
  LET see(c) == IF t.at = NONE \/ seenAt = KEEP THEN c ELSE [c EXCEPT ![t.at].seen = seenAt]
      base == IF t.vacant THEN Vacated(t.at) ELSE cache
  IN IF t.cached \/ t.at = NONE THEN cache' = see(cache) /\ UNCHANGED <<used, search, lastpost, lastnopr>>
     ELSE /\ cache' = see(Placed(base, t.at, t.set, from, co, ~t.saw))
          /\ used' = IF t.vacant THEN Max({used, t.at}) ELSE used
          /\ search' = IF t.vacant /\ used = Nss THEN t.at ELSE search
          /\ lastpost' = IF t.vacant THEN Remember(t.at, cache[t.at].post, lastpost) ELSE lastpost
          /\ lastnopr' = IF t.vacant THEN Remember(t.at, cache[t.at].nopr, lastnopr) ELSE lastnopr

-----------------------------------------------------------------------------
NoCall == [mode |-> "", start |-> 0, min |-> 0, max |-> 0]

Init == /\ mach \in Machines /\ text \in Texts
        /\ cache = [i \in 1..Nss |-> NoSset] /\ used = 0 /\ search = 0 /\ lastpost = -1 /\ lastnopr = -1
        /\ call = NoCall /\ pc = "idle" /\ cp = 0 /\ css = NONE /\ kept = [css |-> NONE, cp |-> -1]
        /\ calls = 0 /\ answer = [end |-> -1, cold |-> -1]

\* realstop, realmin: the character after the last end is looked at too.
Real(p) == IF p = Stop THEN p ELSE p + 1

Return(end, cold) == pc' = "idle" /\ answer' = [end |-> end, cold |-> cold]

\* A length test needs no run.
MatchallLongest(w) == LET m == mach.matchall  n == w.max - w.start IN
  IF n < m.min THEN -1 ELSE IF m.max >= 0 /\ n > m.max THEN w.start + m.max ELSE w.max
MatchallShortest(w) == LET m == mach.matchall  n == w.min - w.start IN
  IF (m.max >= 0 /\ n > m.max) \/ w.max - w.start < m.min THEN -1 ELSE IF n < m.min THEN w.start + m.min ELSE w.min
Matchall(w) ==
  /\ pc = "idle" /\ calls < MaxCalls /\ mach.matchall.on /\ (w.mode = "until" => mach.matchall.max = -1)
  /\ LET end == CASE w.mode = "longest" -> MatchallLongest(w)
                  [] w.mode = "shortest" -> MatchallShortest(w)
                  [] OTHER -> IF w.max - w.start >= mach.matchall.min THEN w.max ELSE -1 IN
     Return(end, IF w.mode = "shortest" /\ end # -1 THEN w.start ELSE -1)
  /\ call' = w /\ calls' = calls + 1
  /\ UNCHANGED <<mach, text, cache, used, search, lastpost, lastnopr, cp, css, kept>>

\* initialize: the first entry is the start set for good; sightings of the last call are forgotten.
Starter == IF used > 0 THEN [i \in 1..Nss |-> [cache[i] EXCEPT !.seen = IF i = 1 THEN call'.start ELSE -1]]
           ELSE [cache EXCEPT ![1] = [NoSset EXCEPT !.set = {PRE}, !.locked = TRUE, !.nopr = TRUE, !.seen = call'.start]]
Begin(w) ==
  /\ pc = "idle" /\ calls < MaxCalls /\ ~mach.matchall.on
  /\ call' = w /\ calls' = calls + 1 /\ answer' = [end |-> -1, cold |-> -1]
  /\ IF w.mode = "until" /\ kept.cp # -1 /\ kept.cp <= w.max
     THEN /\ cp' = kept.cp /\ css' = kept.css /\ pc' = IF kept.css = NONE THEN "idle" ELSE "run"
          /\ UNCHANGED <<cache, used, lastpost, lastnopr>>
     ELSE /\ cache' = Starter /\ used' = Max({used, 1}) /\ lastpost' = -1 /\ lastnopr' = -1
          /\ cp' = w.start /\ css' = 1 /\ pc' = "before"
  /\ UNCHANGED <<mach, text, search, kept>>

Static == UNCHANGED <<mach, text, call, calls>>

\* The character before the start, or the beginning of the text.
Before ==
  /\ pc = "before"
  /\ LET t == Target(css, ColorAt(cp - 1), cp) IN
     /\ miss(t, css, ColorAt(cp - 1), cp) /\ css' = t.at
     /\ IF t.at = NONE THEN Return(-1, -1) ELSE pc' = "run" /\ UNCHANGED answer
  /\ UNCHANGED <<cp, kept>> /\ Static

Bound == IF call.mode = "until" THEN call.max ELSE Real(call.max)
Accepted == css # NONE /\ cache[css].post /\ cp >= Real(call.min)

\* One character: until the bound, until no state is left, and for shortest until it accepts.
Run ==
  /\ pc = "run"
  /\ IF cp < Bound /\ ~(call.mode = "shortest" /\ cp > call.start /\ Accepted)
     THEN LET t == Target(css, ColorAt(cp), cp + 1) IN
          /\ miss(t, css, ColorAt(cp), cp + 1)
          /\ IF t.at = NONE THEN pc' = "dead" /\ UNCHANGED <<cp, css>>
             ELSE cp' = cp + 1 /\ css' = t.at /\ UNCHANGED pc
     ELSE pc' = "end" /\ UNCHANGED <<cache, used, search, lastpost, lastnopr, cp, css>>
  /\ UNCHANGED <<kept, answer>> /\ Static

SeenAs(c, last, flag) == Max({last} \union {c[i].seen : i \in {j \in 1..used : flag[j]}})
lastcold(c) == LET n == SeenAs(c, lastnopr, [i \in 1..Nss |-> c[i].nopr]) IN IF n = -1 THEN 0 ELSE n
LastPost(c) == LET p == SeenAs(c, lastpost, [i \in 1..Nss |-> c[i].post]) IN IF p = -1 THEN -1 ELSE p - 1

\* longest: at the end of the text its end is one more character; the last accepting place wins.
EndLongest ==
  /\ call.mode = "longest" /\ pc \in {"end", "dead"}
  /\ IF cp = Stop /\ call.max = Stop /\ pc = "end"
     THEN LET t == Target(css, "eos", cp) IN
          /\ miss(t, css, "eos", cp)
          /\ Return(IF t.at # NONE /\ POST \in t.set THEN cp ELSE LastPost(cache), -1)
     ELSE Return(LastPost(cache), -1) /\ UNCHANGED <<cache, used, search, lastpost, lastnopr>>
  /\ UNCHANGED <<cp, css, kept>> /\ Static

EndShortest ==
  /\ call.mode = "shortest" /\ pc \in {"end", "dead"}
  /\ LET cold == lastcold(cache) IN
     IF pc = "dead" THEN Return(-1, -1) /\ UNCHANGED <<cache, used, search, lastpost, lastnopr>>
     ELSE IF cache[css].post /\ cp > call.min
     THEN Return(cp - 1, cold) /\ UNCHANGED <<cache, used, search, lastpost, lastnopr>>
     ELSE IF cp = Stop /\ call.max = Stop
     THEN LET t == Target(css, "eos", cp) IN
          miss(t, css, "eos", KEEP) /\ Return(IF t.at # NONE /\ POST \in t.set THEN cp ELSE -1, cold)
     ELSE Return(IF cache[css].post THEN cp ELSE -1, cold) /\ UNCHANGED <<cache, used, search, lastpost, lastnopr>>
  /\ UNCHANGED <<cp, css, kept>> /\ Static

\* matchuntil: keeps its place for the next probe, then looks one character further.
EndUntil ==
  /\ call.mode = "until" /\ pc \in {"end", "dead"}
  /\ kept' = [css |-> IF pc = "dead" THEN NONE ELSE css, cp |-> cp]
  /\ LET t == Target(css, ColorAt(cp), IF cp < Stop THEN cp + 1 ELSE cp) IN
     IF pc = "dead" THEN Return(-1, -1) /\ UNCHANGED <<cache, used, search, lastpost, lastnopr>>
     ELSE /\ miss(t, css, ColorAt(cp), KEEP)
          /\ Return(IF t.at # NONE /\ POST \in t.set THEN cp ELSE -1, -1)
  /\ UNCHANGED <<cp, css>> /\ Static

\* A look-behind has its own automaton, which only matchuntil runs, from the start of the text.
Asked(w) == /\ w.max <= Stop /\ (calls > 0 => (w.mode = "until") = (call.mode = "until"))
            /\ w.mode = "until" => w.start = 0 /\ w.min = w.max

Next == \/ \E w \in {x \in Windows : Asked(x)} : Matchall(w) \/ Begin(w)
        \/ Before \/ Run \/ EndLongest \/ EndShortest \/ EndUntil

Spec == Init /\ [][Next]_vars

-----------------------------------------------------------------------------
(* The sets worked out from the NFA alone.                                                     *)
RECURSIVE SetAt(_, _)
\* After the character before i and the characters up to p; p = Stop + 1 is past the end.
SetAt(i, p) == IF p = i THEN Lacons(mach, Plainly(mach, {PRE}, ColorAt(i - 1)), i)
               ELSE Lacons(mach, Plainly(mach, SetAt(i, p - 1), ColorAt(p - 1)), IF p > Stop THEN Stop ELSE p)
MatchEnds(i, lo, hi) == {j \in lo..hi : POST \in SetAt(i, j + 1)}

\* Whatever the cache had room for, each call answers what the NFA alone says: the last end, the
\* first end, or whether there is a match that ends at the probe.
AnswersTheNFA ==
  pc = "idle" /\ calls > 0 =>
    LET e == MatchEnds(call.start, IF call.mode = "longest" THEN call.start ELSE call.min, call.max) IN
    answer.end = IF call.mode = "until" THEN (IF POST \in SetAt(0, call.max + 1) THEN call.max ELSE -1)
                 ELSE IF e = {} THEN -1 ELSE IF call.mode = "longest" THEN Max(e) ELSE Min(e)

\* The place a search had made no progress at is the last one: every match that ends where the
\* search stopped starts there or later.
ColdIsLastIdle ==
  pc = "idle" /\ call.mode = "shortest" /\ ~mach.matchall.on /\ answer.end # -1 =>
    answer.cold = Max({call.start} \union {p \in call.start..Min({answer.end + 1, Stop}) :
                        \A q \in call.start..p : SetAt(call.start, q) # {} /\ (q = p => SetAt(call.start, p) \subseteq Noprogress(mach))})

\* A remembered transition is the one the NFA makes.
CacheIsTrue ==
  \A i \in 1..used : \A co \in AllColors : cache[i].outs[co] # NONE =>
    /\ cache[i].outs[co] <= used
    /\ cache[cache[i].outs[co]].set = Plainly(mach, cache[i].set, co)

\* A full cache always has a set to give up: pickss does not fail its assertion.
AlwaysAVictim == pc = "run" /\ used = Nss => Victims(cp + 1) # {}

-----------------------------------------------------------------------------
\* Machines of seven states, whose cache holds fourteen sets: `Anchored` and `Search` remember
\* which of the last four characters were an a and accept before a c that has an a four before it
\* (nineteen sets are reachable), `Ahead` asks a look-around, `Length` is a length test.

Chr(S) == [co \in AllColors |-> IF co \in Colors THEN S ELSE {}]
All(S) == [co \in AllColors |-> S]
On(cs, S) == [co \in AllColors |-> IF co \in cs THEN S ELSE {}]
NoTest == [on |-> FALSE, min |-> 0, max |-> 0]
Shift(pre, s) == [pre |-> pre, s |-> s, post |-> All({})] @@ [x \in {"1", "2", "3"} |->
                  On({"a", "b"}, {CASE x = "1" -> "2" [] x = "2" -> "3" [] OTHER -> "4"})] @@ [x \in {"4"} |-> On({"c", "eos"}, {"post"})]
SAB == [co \in AllColors |-> IF co = "a" THEN {"s", "1"} ELSE IF co \in Colors THEN {"s"} ELSE {}]
Anchored == [trans |-> Shift(On({"a", "b", "c", "bos"}, {"s"}), SAB), lacons |-> {}, matchall |-> NoTest]
Search == [trans |-> Shift(On({"a", "b", "c", "bos"}, {"pre", "s"}), On({"a"}, {"1"})), lacons |-> {}, matchall |-> NoTest]
Ahead == [trans |-> [x \in States |-> CASE x = "pre" -> On({"a", "b", "c", "bos"}, {"s"}) [] x = "s" -> Chr({"s"})
                                        [] x = "1" -> On({"b"}, {"2"}) [] x = "2" -> All({"post"}) [] OTHER -> All({})],
          lacons |-> {[from |-> "s", to |-> "1", ahead |-> "b"]}, matchall |-> NoTest]
Length == [trans |-> [x \in States |-> CASE x = "pre" -> All({"1"}) [] x = "1" -> Chr({"2"}) [] x = "2" -> [co \in AllColors |-> IF co \in Colors THEN {"3", "post"} ELSE {"post"}]
                                        [] x = "3" -> All({"post"}) [] OTHER -> All({})],
           lacons |-> {}, matchall |-> [on |-> TRUE, min |-> 1, max |-> 2]]
MCMachines == {Anchored, Search, Ahead, Length}
Letters(s) == [i \in DOMAIN s |-> IF s[i] = 0 THEN "b" ELSE IF s[i] = 1 THEN "a" ELSE "c"]
MCTexts == {Letters(<<0, 1, 1, 1, 1, 0, 1, 1, 0, 0, 1, 0, 1, 0, 0, 0, 1, 1, 1, 1, 2, 1, 0>>),
            Letters(<<1, 1, 0, 0, 2, 1, 1, 1, 1, 0, 1, 1, 0, 0, 1, 0, 1, 0, 0, 0, 1>>)}
W(mode, s, lo, hi) == [mode |-> mode, start |-> s, min |-> lo, max |-> hi]
MCWindows == {W("longest", 0, 0, 21), W("longest", 1, 1, 14), W("longest", 20, 20, 20), W("shortest", 0, 0, 21), W("shortest", 1, 9, 21),
              W("shortest", 2, 2, 3), W("shortest", 3, 3, 3), W("shortest", 19, 20, 21), W("longest", 0, 0, 2)}
             \union {W("until", 0, p, p) : p \in {0, 2, 4, 20}}
=============================================================================
