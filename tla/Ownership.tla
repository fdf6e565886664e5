----------------------------- MODULE Ownership -----------------------------
\* Who owns which field of a live object: the three-way merge of what the ledger last
\* recorded, what is desired now and what is live (internal/merge), the test that nothing is
\* left to do (internal/apply), and the choice of the update that carries the difference
\* (desired.go, desired_routes.go, internal/analyze, internal/updaterouting).
\* Another actor edits the same object between our runs.
EXTENDS Integers, Sequences, FiniteSets, TLC, SequencesExt

CONSTANTS Edits,   \* [path, val]: what the other actor may do, between two runs
          Worlds   \* what the provider's document declares, and the documents a run may ask for

\* A document maps names to values: a scalar, a nested document, or null.
Scalar(n) == [v |-> n]
Nest(f) == [o |-> f]
Null == [v |-> 0]
IsObj(x) == "o" \in DOMAIN x
Empty == <<>>
Put(f, k, x) == (k :> x) @@ f
Drop(f, k) == [n \in DOMAIN f \ {k} |-> f[n]]
Only(f, ks) == [n \in DOMAIN f \intersect ks |-> f[n]]

VARIABLES world,     \* one of Worlds
          live,      \* the object as the provider holds it
          plan,      \* the intent the ledger recorded
          asked,     \* the intent of the latest run
          pc, mutation,
          chosen     \* the update the drift takes, and what it sends
vars == <<world, live, plan, asked, pc, mutation, chosen>>

childOf(o, k) == IF k \in DOMAIN o /\ IsObj(o[k]) THEN o[k].o ELSE Empty

RECURSIVE enforce_Replace(_, _)
\* Mutant of enforce: what is live, as well as what was recorded, supplies the fields silence removes.
enforce_Replace(desired, drops) ==
  [k \in DOMAIN desired \union DOMAIN drops \union DOMAIN live |->
     IF k \notin DOMAIN desired THEN Null
     ELSE IF IsObj(desired[k]) THEN Nest(enforce_Replace(desired[k].o, childOf(drops, k))) ELSE desired[k]]

RECURSIVE enforce(_, _)
\* Every desired field is sent; every field of drops that desired does not mention is unset.
enforce(desired, drops) ==
  [k \in DOMAIN desired \union DOMAIN drops |->
     IF k \notin DOMAIN desired THEN Null
     ELSE IF IsObj(desired[k]) THEN Nest(enforce(desired[k].o, childOf(drops, k))) ELSE desired[k]]

RECURSIVE satisfied_Present(_, _)
\* Mutant of satisfied: a field that is there at all is as asked.
satisfied_Present(want, have) ==
  \A k \in DOMAIN want :
    IF want[k] = Null THEN k \notin DOMAIN have
    ELSE k \in DOMAIN have /\ (IsObj(want[k]) /\ IsObj(have[k]) => satisfied_Present(want[k].o, have[k].o))

RECURSIVE satisfied(_, _)
satisfied(want, have) ==
  \A k \in DOMAIN want :
    IF want[k] = Null THEN k \notin DOMAIN have
    ELSE k \in DOMAIN have /\
         IF IsObj(want[k]) /\ IsObj(have[k]) THEN satisfied(want[k].o, have[k].o) ELSE want[k] = have[k]

\* lower: a field the last run asked for and this one does not is part of what the diff sees.
Want(desired, prior) == [k \in DOMAIN desired \union DOMAIN prior |-> IF k \in DOMAIN desired THEN desired[k] ELSE Null]

\* What the diff reads of the live object.
Actual(want) == LET held == Only(live, DOMAIN want) IN [k \in {k \in DOMAIN held : held[k] # Null} |-> held[k]]

Methods == world.methods
Address == "name"

\* analyze: a method fits if it has what it requires and accepts what is sent.
Accepts(m, in) == m.body \/ in \in m.accepts
fits(m, available, sent) == m.required \subseteq available /\ \A in \in sent : Accepts(m, in)
NoMethod == [name |-> ""]

\* The most specific survivor; of several, those that patch; still several is no choice.
Analyze(available, sent) ==
  LET fit == {m \in Methods : fits(m, available, sent)}
      best == {m \in fit : \A n \in fit : Cardinality(n.required) <= Cardinality(m.required)}
      patches == {m \in best : m.patch}
      left == IF Cardinality(best) > 1 /\ patches # {} THEN patches ELSE best
  IN IF Cardinality(left) = 1 THEN CHOOSE m \in left : TRUE ELSE NoMethod

Known == world.scope \union world.incoming
\* The fields that differ between the mutation and what is live, read by their printed form.
Changed(m, have) == {k \in DOMAIN m : IF m[k] = Null THEN k \in DOMAIN have ELSE k \notin DOMAIN have \/ m[k] # have[k]}

\* resolveUpdateRoutes: the declarations bound to this resource, by the scope they stand in or by
\* the resources they name; a target may be another resource's method.
Bound(d) == \/ d.scope = "r" /\ d.resources = {}
            \/ "r" \in d.resources
Routes == SelectSeq(world.decls, Bound)

\* Candidates: the routes that require nothing unchanged and permit everything changed, by
\* priority and then in the order they were declared.
Candidates(changed) ==
  LET fit == SelectSeq(Routes, LAMBDA d : changed # {} /\ d.requires \subseteq changed /\ changed \subseteq d.permits)
      rank(i) == Cardinality({j \in DOMAIN fit : fit[j].priority > fit[i].priority \/ (fit[j].priority = fit[i].priority /\ j <= i)})
  IN [n \in DOMAIN fit |-> fit[CHOOSE i \in DOMAIN fit : rank(i) = n]]

NoRoute == [method |-> NoMethod, send |-> Empty]

\* routeDeclared: the first candidate whose target is an update of this resource that can carry it.
routeDeclared(m, have) ==
  LET changed == Changed(m, have)
      method(d) == CHOOSE u \in Methods : u.name = d.target
      send(d) == IF method(d).body THEN m ELSE Only(m, changed)
      carries(d) == /\ d.targetResource = "r" /\ \E u \in Methods : u.name = d.target
                    /\ method(d).body \/ \A k \in changed : m[k] # Null
                    /\ fits(method(d), DOMAIN send(d) \union {Address} \union Known, DOMAIN send(d) \union {Address})
      ok == SelectSeq(Candidates(changed), carries)
  IN IF ok = <<>> THEN NoRoute ELSE [method |-> method(ok[1]), send |-> send(ok[1])]

\* route: with a body the whole mutation is sent; without one only the fields that differ, and a
\* field cannot be removed.
\* Every operation of one verb agrees on taking a body (desired.go:262).
updateBody == \A m \in Methods : m.body
route(m, have) ==
  LET changed == Changed(m, have)
      send == IF updateBody THEN m ELSE Only(m, changed)
      method == Analyze(DOMAIN send \union {Address} \union Known, DOMAIN send \union {Address})
  IN IF Routes # <<>> THEN routeDeclared(m, have)
     ELSE IF (~updateBody /\ \E k \in changed : m[k] = Null) \/ method = NoMethod THEN NoRoute
     ELSE [method |-> method, send |-> send]

\* reachable: the update arms the graph was lowered with.
reachable(all) == {m \in Methods : m.required \subseteq all \union {Address} \union Known}

----------------------------------------------------------------------------
Init ==
  /\ world \in Worlds
  /\ live = Empty /\ plan = Empty /\ asked = Empty
  /\ pc = "new" /\ mutation = Empty /\ chosen = NoRoute

\* The first run makes the object: everything desired, recorded once it landed.
Create(d) ==
  /\ pc = "new"
  /\ live' = [k \in {k \in DOMAIN d : d[k] # Null} |-> d[k]]
  /\ plan' = d /\ asked' = d /\ pc' = "settled"
  /\ UNCHANGED <<world, mutation, chosen>>

\* diffRow: what to send, and the arm it takes. Nothing to send records nothing.
Diff(d) ==
  LET want == Want(d, plan)
      m == enforce(want, plan)
      have == Actual(want)
      to == route(m, have)
  IN /\ pc \in {"settled", "failed", "edited"}
     /\ asked' = d /\ mutation' = m
     /\ IF satisfied(m, have) THEN pc' = "settled" /\ chosen' = NoRoute
        ELSE IF to = NoRoute THEN pc' = "failed" /\ chosen' = NoRoute
        ELSE pc' = "routed" /\ chosen' = to
     /\ UNCHANGED <<world, live, plan>>

RECURSIVE Patched(_, _)
\* The provider: a merge patch, or one field at a time.
Patched(have, send) ==
  LET gone == {k \in DOMAIN send : send[k] = Null}
      old(k) == IF k \in DOMAIN have /\ IsObj(have[k]) THEN have[k].o ELSE Empty
  IN [k \in (DOMAIN have \union DOMAIN send) \ gone |->
        IF k \notin DOMAIN send THEN have[k]
        ELSE IF IsObj(send[k]) THEN Nest(Patched(old(k), send[k].o)) ELSE send[k]]

\* A body that is not a patch is the whole object.
Replaces(m) == m.body /\ ~m.patch
Provided(m, have, send) == Patched(IF Replaces(m) THEN Empty ELSE have, send)

\* The chosen arm's request, where the graph has the arm; its intent is recorded with it.
Update ==
  /\ pc = "routed"
  /\ IF chosen.method \in reachable(DOMAIN mutation)
     THEN live' = Provided(chosen.method, live, chosen.send) /\ plan' = asked
     ELSE UNCHANGED <<live, plan>>
  /\ pc' = "settled" /\ UNCHANGED <<world, asked, mutation, chosen>>

\* The other actor, between runs.
Edit(e) ==
  /\ pc \in {"settled", "failed", "edited"}
  /\ live' = IF Len(e.path) = 1 THEN IF e.val = Null THEN Drop(live, e.path[1]) ELSE Put(live, e.path[1], e.val)
             ELSE LET sub == childOf(live, e.path[1])
                  IN Put(live, e.path[1], Nest(IF e.val = Null THEN Drop(sub, e.path[2]) ELSE Put(sub, e.path[2], e.val)))
  /\ live' # live /\ pc' = "edited"
  /\ UNCHANGED <<world, plan, asked, mutation, chosen>>

Next == (\E d \in world.intents : Create(d) \/ Diff(d)) \/ Update \/ (\E e \in Edits : Edit(e))

Spec == Init /\ [][Next]_vars

----------------------------------------------------------------------------
Paths(d) == {<<k>> : k \in DOMAIN d} \union {p \in UNION {{<<k, n>> : n \in DOMAIN childOf(d, k)} : k \in DOMAIN d} : TRUE}
At(d, p) == IF Len(p) = 1 THEN (IF p[1] \in DOMAIN d THEN d[p[1]] ELSE Null)
            ELSE LET sub == childOf(d, p[1]) IN IF p[2] \in DOMAIN sub THEN sub[p[2]] ELSE Null
Leaf(d, p) == p \in Paths(d) /\ ~IsObj(At(d, p))

\* A run that reports its object settled leaves it as asked: every desired field has its value,
\* even one another actor changed since, and asking again finds nothing to send (apply.go:18).
Converged ==
  pc = "settled" =>
    /\ \A p \in Paths(asked) : Leaf(asked, p) => At(live, p) = At(asked, p)
    /\ satisfied(enforce(Want(asked, plan), plan), Actual(Want(asked, plan)))

\* A field the recorded intent has and the run that settled does not ask for is gone, whatever
\* anyone did to it since (merge.go:3). One a run asked for and found in place is not recorded
\* (managed.go:275), and stays.
DroppedGoes ==
  Diff(asked') \/ Update =>
    (pc' = "settled" => \A p \in Paths(plan) : p \notin Paths(asked') => At(live', p) = Null)

\* "a field we have never mentioned belongs to another actor and must be left alone" (merge.go:4):
\* an update touches only what the recorded or the new intent mentions, but for what others put
\* into a nested object that the recorded intent has and the new one does not, which is removed
\* whole (merge.go:88), and for what a request that replaces the object leaves out of it.
Known_(p, d) == p \in Paths(d) \/ (Len(p) = 2 /\ Leaf(d, <<p[1]>>))
InDropped(p) == Len(p) = 2 /\ p[1] \in DOMAIN plan \ DOMAIN asked
OthersUntouched ==
  Update => \A p \in Paths(live) \union Paths(live') :
              Leaf(live, p) \/ Leaf(live', p) =>
                \/ At(live, p) = At(live', p) \/ Known_(p, plan) \/ Known_(p, asked)
                \/ At(live', p) = Null /\ (InDropped(p) \/ Replaces(chosen.method))

\* The update a drift is routed to is an arm of the graph, so it is never silently kept instead
\* (desired.go:740).
ChosenHasAnArm == pc = "routed" => chosen.method \in reachable(DOMAIN mutation)

-----------------------------------------------------------------------------
\* A scalar field a, another c, and a nested one o with the parts x and y; the other actor
\* edits each of them and a part z nobody asks for.

D(a, c, o) == [k \in {k \in {"a", "c", "o"} : <<a, c, o>>[CASE k = "a" -> 1 [] k = "c" -> 2 [] k = "o" -> 3] # Null} |->
                 CASE k = "a" -> a [] k = "c" -> c [] k = "o" -> o]
Part(ns) == Nest([n \in ns |-> Scalar(1)])
\* Intents with and without the nested field, and of scalars only.
Nested == {D(a, c, o) : a \in {Scalar(1), Scalar(2)}, c \in {Null, Scalar(1)}, o \in {Null, Part({"x"}), Part({"x", "y"})}}
Flat == {D(a, c, Null) : a \in {Null, Scalar(1), Scalar(2)}, c \in {Null, Scalar(1)}}

MCEdits == {[path |-> p, val |-> x] : p \in {<<"a">>, <<"c">>, <<"o", "x">>, <<"o", "z">>, <<"z">>}, x \in {Null, Scalar(2)}}

Method(name, body, patch, accepts, required) ==
  [name |-> name, body |-> body, patch |-> patch, accepts |-> accepts, required |-> required]
W(intents, methods, decls) == [intents |-> intents, methods |-> methods, incoming |-> {"parent"}, scope |-> {"region"}, decls |-> decls]
Decl(scope, resources, target, on, priority, requires, permits) ==
  [scope |-> scope, resources |-> resources, target |-> target, targetResource |-> on, priority |-> priority,
   requires |-> requires, permits |-> permits]
Whole == Method("put", TRUE, FALSE, {}, {"name"})
Patch == Method("patch", TRUE, TRUE, {}, {"name"})
InParent == Method("move", TRUE, TRUE, {}, {"name", "parent"})
SetA == Method("set_a", FALSE, FALSE, {"name", "a"}, {"name", "a"})
SetC == Method("set_c", FALSE, FALSE, {"name", "c"}, {"name", "c"})
Both == Method("set", FALSE, FALSE, {"name", "a", "c"}, {"name", "region"})
Routed == <<Decl("r", {}, "patch", "r", 1, {}, {"a", "c", "o"}), Decl("", {"q", "r"}, "move", "r", 2, {"a"}, {"a", "o"}),
            Decl("q", {}, "move", "r", 9, {}, {"a", "c", "o"}), Decl("r", {}, "other", "q", 5, {"c"}, {"c", "a"})>>
BodyWorlds(intents) == {W(intents, {Patch}, <<>>), W(intents, {Whole}, <<>>), W(intents, {Whole, Patch}, <<>>), W(intents, {Patch, InParent}, <<>>),
                        W(intents, {Patch, InParent}, Routed)}
FlatWorlds == {W(Flat, {SetA, SetC, Both}, <<>>), W(Flat, {SetA, SetC}, <<>>), W(Flat, {Patch}, <<>>),
               W(Flat, {SetA, Patch}, <<Decl("r", {}, "set_a", "r", 2, {"a"}, {"a"}), Decl("r", {}, "patch", "r", 1, {}, {"a", "c"})>>)}
MCWorlds == BodyWorlds(Nested) \union FlatWorlds
=============================================================================
