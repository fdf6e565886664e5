----------------------------- MODULE Addressing -----------------------------
\* How the calls on one resource are addressed over its life: the methods its document offers
\* to make it, to read it back and to delete it, what each call is bound with, and what the
\* ledger records so that a destroy or an undo can address it afterwards (desired.go,
\* managed.go, docrun.go). The resource reads from a parent of the same collection.
EXTENDS Integers, FiniteSets, Sequences, SequencesExt, Functions

VARIABLES doc,      \* what the provider's document declares at the resource's address
          parent,   \* the parent's ledger entry: its identity and what addresses it
          objects,  \* the objects made, by identity and place
          entry,    \* the resource's ledger entry, with the declaration its record was written from
          astray,   \* the objects a run looked for where they are not, or could not look for
          last,     \* what the latest run did
          runs
vars == <<doc, parent, objects, entry, astray, last, runs>>

CONSTANT MaxRuns   \* bound on runs

None == [none |-> TRUE]
Only(f, names) == [n \in DOMAIN f \intersect names |-> f[n]]
Declared(ms) == UNION {m.declared : m \in Range(ms)}

----------------------------------------------------------------------------
\* analyze.fits, and Analyze for a verb without a rule of its own for ties: the one method of
\* those that fit that requires the most.
fits(m, available, sends) == m.required \subseteq available /\ sends \subseteq m.declared
choose(ms, available, sends) ==
  LET ok == {m \in Range(ms) : fits(m, available, sends)}
      best == {m \in ok : \A o \in ok : Cardinality(o.required) <= Cardinality(m.required)}
  IN IF Cardinality(best) = 1 THEN CHOOSE m \in best : TRUE ELSE None

\* targetOf: the verbs that make and change it.
CreateMethods == IF doc.insert # <<>> THEN doc.insert ELSE doc.replace
UpdateMethods == IF doc.update # <<>> THEN doc.update ELSE doc.replace

\* incomingOf: what reaches the resource from others, by name; through a transform, what that
\* provides.
Incoming(d) == IF d.provides # {} THEN d.provides ELSE d.as

\* The values that arrive: the parent's identity, reshaped by a transform.
Arrived(d) == [n \in Incoming(d) |-> IF d.provides # {} THEN <<"shaped">> \o parent.id ELSE parent.id]
Bound(d) == Arrived(d) @@ d.params @@ d.scope

\* Mutant of Have: what the resource reads from others does not reach its read.
Have_Own(d) == DOMAIN d.scope \union DOMAIN d.params

Have(d) == DOMAIN d.scope \union DOMAIN d.params \union Incoming(d)

\* targetOf, the read: a GET addressed by the identity, or else a list; the most specific.
pick(d, addressed) ==
  LET can == SelectSeq(doc.select, LAMBDA m : m.get /\ (d.by \in m.declared) = addressed
                         /\ m.required \ (IF addressed THEN {d.by} ELSE {}) \subseteq Have(d))
      best == {i \in DOMAIN can : \A j \in DOMAIN can : Cardinality(can[j].required) <= Cardinality(can[i].required)}
  IN IF can = <<>> THEN None ELSE can[CHOOSE i \in best : \A j \in best : i <= j]
Read(d) == IF pick(d, TRUE) # None THEN pick(d, TRUE) ELSE pick(d, FALSE)

\* The read as lowered takes what it declares, never its address from anyone but the ledger.
ReadBound(d) == Only(Bound(d), Read(d).declared \ {d.by})

\* aboutOf, deleteInputs, dependsOn: a hand-written graph records what its mutation was bound with.
aboutOf(d) ==
  [by |-> d.by, params |-> Only(Bound(d), Declared(doc.delete) \ {d.by}), arrives |-> {}, dependsOn |-> d.as # {}]

\* about: desired state records its own values a delete declares, and where the others come from.
about(d) ==
  [by |-> d.by, params |-> Only(d.params, Declared(doc.delete) \ {d.by}), arrives |-> d.as, dependsOn |-> d.as # {}]

Record(d) == IF d.form = "graph" THEN aboutOf(d) ELSE about(d)

\* aboutRecord.inputs: its values, the parent's identity as each arrival, or for a record
\* without arrivals under the parameter that addresses the parent, unless that has a value.
inputs(rec) ==
  IF rec.arrives # {} THEN [n \in rec.arrives |-> parent.id] @@ rec.params
  ELSE IF rec.dependsOn THEN rec.params @@ (parent.by :> parent.id) ELSE rec.params

\* scoped.with, and destroy's delete: the record's inputs over the run's scope.
with(rec, scope) == inputs(rec) @@ scope

\* effector.inputs and declared, for a delete: what any delete declares, and the identity.
DeleteBound(e, scope) == (e.about.by :> e.id) @@ Only(with(e.about, scope), Declared(doc.delete))

----------------------------------------------------------------------------
\* The provider: an object is in the place its create bound, and a call that names a place
\* reaches only what is there.
In(o, bound) == \A n \in DOMAIN bound \intersect DOMAIN o.at : bound[n] = o.at[n]

\* Where a declaration asks for the object.
Place(d) == Only(Bound(d), doc.place)

\* What keeps a run from finding the object it made: the run asks for it in another place, or no
\* GET of the document takes what the resource has.
Elsewhere(d, o) == o.at # Place(d)
Unreadable(d) == \A m \in Range(doc.select) : m.get => ~(m.required \subseteq DOMAIN Bound(d) \union {d.by})

\* The objects known by the identity the ledger holds. Of several, in several places, a record
\* written for one passes the others by.
Held == {o \in objects : \E e \in entry : e.id = o.id}
PassedBy(d) ==
  LET here == {o \in Held : ~Elsewhere(d, o)}
  IN IF here = {} THEN astray ELSE (astray \union Held) \ here

\* The read finds the object the ledger holds the identity of.
Live(d) ==
  /\ entry # {} /\ Read(d) # None
  /\ \A e \in entry : \E o \in objects : o.id = e.id /\ In(o, ReadBound(d))

\* newDesiredPlan: what is refused before anything is looked up or held.
Refused(d) ==
  \/ \E n \in DOMAIN d.params : d.params[n] = <<>>
  \/ CreateMethods = <<>>
  \/ choose(CreateMethods, DOMAIN Bound(d), DOMAIN d.params \union Incoming(d)) = None

Refuse(d) ==
  /\ runs < MaxRuns /\ Refused(d) /\ last' = "refused" /\ runs' = runs + 1
  /\ UNCHANGED <<doc, parent, objects, entry, astray>>

\* The create arm, and its commit. An object is known by the name it was given, or by one the
\* provider makes up. One the ledger held is left where it is.
Make(d) ==
  /\ runs < MaxRuns /\ ~Refused(d) /\ ~Live(d)
  /\ LET id == IF d.by \in DOMAIN d.params THEN d.params[d.by] ELSE <<"made", ToString(runs)>>
         new == [id |-> id, at |-> Place(d)]
         missed == {o \in Held : Elsewhere(d, o) \/ Unreadable(d)}
     IN /\ objects' = objects \union {new}
        /\ entry' = {[id |-> id, about |-> Record(d), asked |-> d]}
        /\ astray' = (astray \union missed) \ {new}
  /\ last' = "made" /\ runs' = runs + 1
  /\ UNCHANGED <<doc, parent>>

\* The object is as asked.
Keep(d) ==
  /\ runs < MaxRuns /\ ~Refused(d) /\ Live(d)
  /\ last' = "kept" /\ runs' = runs + 1
  /\ UNCHANGED <<doc, parent, objects, entry, astray>>

\* It has drifted: an update that can be reached is sent, and the record written anew.
Update(d) ==
  /\ runs < MaxRuns /\ ~Refused(d) /\ Live(d)
  /\ \E m \in Range(UpdateMethods) : m.required \subseteq Have(d) \union {d.by}
  /\ entry' = {[e EXCEPT !.about = Record(d), !.asked = d] : e \in entry}
  /\ last' = "updated" /\ runs' = runs + 1
  /\ astray' = PassedBy(d)
  /\ UNCHANGED <<doc, parent, objects>>

\* The parent is found to be gone, with all that was in it, and is made again.
ParentRemade(id) ==
  /\ id # parent.id /\ parent' = [parent EXCEPT !.id = id]
  /\ objects' = {o \in objects : Range(o.at) \intersect {parent.id, <<"shaped">> \o parent.id} = {}}
  /\ last' = "parent" /\ runs < MaxRuns /\ runs' = runs + 1
  /\ UNCHANGED <<doc, entry, astray>>

\* destroy: the delete the record addresses under the caller's scope, and the key forgotten.
Target(e, scope) ==
  LET b == DeleteBound(e, scope)
      m == choose(doc.delete, DOMAIN b, DOMAIN b)
  IN IF m = None THEN {} ELSE {o \in objects : o.id = e.id /\ In(o, Only(b, m.declared))}

Destroy(scope) ==
  /\ entry # {} /\ runs < MaxRuns
  /\ LET hit == UNION {Target(e, scope) : e \in entry}
     IN /\ objects' = objects \ hit /\ astray' = astray \ hit
        /\ IF hit # {} THEN entry' = {} /\ last' = "destroyed" ELSE UNCHANGED entry /\ last' = "outstanding"
  /\ runs' = runs + 1
  /\ UNCHANGED <<doc, parent>>

-----------------------------------------------------------------------------

Method(required, optional) == [required |-> required, declared |-> required \union optional, get |-> TRUE]
Post(m) == [m EXCEPT !.get = FALSE]
Doc(insert, replace, update, select, delete, place) ==
  [insert |-> insert, replace |-> replace, update |-> update, select |-> select, delete |-> delete, place |-> place]

Documents ==
  { \* an object of a resource group, got by name or listed
    Doc(<<Method({"group", "id"}, {"tag"})>>, <<>>, <<Method({"group", "id"}, {})>>,
        <<Method({"group"}, {}), Method({"group", "id"}, {})>>, <<Method({"group", "id"}, {})>>, {"group"}),
    \* a container of an account, put whole; there is a list and no get
    Doc(<<>>, <<Method({"account"}, {"group"})>>, <<>>, <<Method({"tag"}, {}), Method({"account"}, {})>>,
        <<Method({"account", "id"}, {"group"})>>, {"account"}),
    \* an object of a region, made within a network it is not addressed by
    Doc(<<Method({"account"}, {"tag"})>>, <<>>, <<Method({"id"}, {"tag"})>>,
        <<Method({}, {"id", "region"}), Post(Method({"id", "account"}, {}))>>,
        <<Method({"id"}, {"region"}), Method({"id", "region"}, {})>>, {"region"}),
    \* an object of a group that only a POST reads back, with two deletes for two kinds of it
    Doc(<<Method({"group"}, {"id", "account"})>>, <<>>, <<>>, <<Post(Method({"group"}, {"id"}))>>,
        <<Method({"id", "group"}, {}), Method({"id", "region"}, {})>>, {"group"}),
    \* an object of a group that is read back by its name alone
    Doc(<<Method({"group"}, {"id", "account"})>>, <<>>, <<Method({"id"}, {"group"})>>,
        <<Method({"id"}, {})>>, <<Method({"id", "group"}, {})>>, {"group"}) }

Scopes == {"region" :> <<"r1">>, "region" :> <<"r2">>}
Params == {(<<>>), ("group" :> <<"g1">>), ("group" :> <<"g2">>),
           ("group" :> <<"g1">>) @@ ("id" :> <<"n">>), ("group" :> <<"g2">>) @@ ("id" :> <<"n">>),
           ("group" :> <<"g1">>) @@ ("id" :> <<>>), ("group" :> <<"g1">>) @@ ("id" :> <<"n">>) @@ ("tag" :> <<"t">>)}
\* What it reads from its parent: nothing, its account, or an input a transform shapes into one.
Reads == {[as |-> {}, provides |-> {}], [as |-> {"account"}, provides |-> {}], [as |-> {"inbox"}, provides |-> {"account"}]}
Decls ==
  {[form |-> f, params |-> p, as |-> a.as, provides |-> a.provides, by |-> "id", scope |-> s] :
     f \in {"desired", "graph"}, p \in Params, a \in Reads, s \in Scopes}

Init ==
  /\ doc \in Documents
  /\ \E by \in {"account", "name"} : parent = [id |-> <<"A1">>, by |-> by]
  /\ objects = {} /\ entry = {} /\ astray = {} /\ last = "none" /\ runs = 0

\* Every run may declare the resource anew: other values, another scope, other reads.
Next ==
  \/ \E d \in Decls : (d.form = "graph" => entry = {}) /\ (Refuse(d) \/ Make(d) \/ Keep(d) \/ Update(d))
  \/ \E id \in {<<"A1">>, <<"A2">>} : ParentRemade(id)
  \/ \E s \in Scopes : Destroy(s)
  \/ runs = MaxRuns /\ UNCHANGED vars

Spec == Init /\ [][Next]_vars

----------------------------------------------------------------------------
\* What a record cannot carry: where the object is, when the run that wrote it asked for another
\* place; an input a transform made, of which it has the unshaped one (desired.go:735); and values
\* that no one delete takes together, since those any delete declares are all kept
\* (docrun.go:228).
Undecided(d) ==
  LET names == {d.by} \union (DOMAIN Bound(d) \intersect Declared(doc.delete))
  IN choose(doc.delete, names, names) = None

\* An object the ledger holds is deleted by what the ledger records alone, under the scope of the
\* run that recorded it: exactly one method takes what the record gives, and it reaches that
\* object, whatever the runs since have declared (desired.go:666: "enough to delete it from the
\* ledger alone"), but for what a record cannot carry.
DeletableAlone ==
  \A e \in entry : \A o \in objects \ astray :
    o.id = e.id /\ ~Elsewhere(e.asked, o) /\ e.asked.provides = {} /\ ~Undecided(e.asked)
      => o \in Target(e, e.asked.scope)

\* However often a run is repeated, one object exists at most, and the ledger holds it: a
\* resource that is there is found again, and none is made beside it or left behind
\* (use_cases.md:65, resource_bindings.md:40), but for an object a run asked for in another place
\* than it is in (desired.go:254) or that no GET reads back (desired.go:568).
OneObject ==
  LET own == objects \ astray
  IN Cardinality(own) <= 1 /\ \A o \in own : \E e \in entry : e.id = o.id
=============================================================================
