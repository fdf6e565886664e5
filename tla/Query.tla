------------------------------- MODULE Query -------------------------------
\* A query resolved against its tables and run (pkg/omnisdk/query.go, graph.go): every
\* condition becomes a request parameter, a fan-out, an edge, a match condition of one node
\* or a filter on the finished rows, and the graph is run node by node. The reference is
\* SQL's own reading of the query over the whole tables.
\*
\* A table has one method here: the columns of its rows, the parameters it takes, those it
\* requires, and those that select a scope (path parameters; server inputs among them).
EXTENDS Integers, Sequences, SequencesExt, FiniteSets, TLC

CONSTANT Cases   \* [from, where, target, tables, data]: the queries and the providers' rows

NoTarget == [alias |-> "", set |-> <<>>]

-----------------------------------------------------------------------------
\* The values and conditions a query is evaluated with (pkg/omnisdk/relational.go): how two
\* values compare, the key a hash join looks one up by, and SQL's three-valued logic over a row.

\* A provider's value is its text and what that text reads as: an integer, a bounded
\* decimal, an infinity, a number too deep to hold exactly ("deep"), or no number at all
\* (NaN among them). Texts are numbered in their byte order, numbers scaled to integers.
Val(kind, text, num) == [kind |-> kind, text |-> text, num |-> num]
Null == Val("null", 0, 0)
Missing(v) == v.kind = "null"

\* exactNumber reads integers and bounded decimals; number adds the infinities.
Ordered(v) == v.kind \in {"int", "rat", "inf"}
Sign(n) == IF n < 0 THEN -1 ELSE IF n > 0 THEN 1 ELSE 0

\* compareValues of two values that are both there.
compareValues(a, b) ==
  IF a.text = b.text THEN 0
  ELSE IF Ordered(a) /\ Ordered(b) THEN Sign(a.num - b.num)
  ELSE Sign(a.text - b.text)

\* Expressions: a literal, a column of a node, or the model's one function of the dialect
\* applied to one: the integer after its argument, NULL of anything else.
Lit(v) == [k |-> "lit", v |-> v]
Col(alias, name) == [k |-> "col", alias |-> alias, name |-> name]
Call(e) == [k |-> "call", e |-> e]
Fn(v) == IF v.kind = "int" THEN Val("int", v.text + 1, v.num + 1) ELSE Null

RECURSIVE value(_, _)
\* value of an expression in env: each node's row, by alias.
value(e, env) ==
  CASE e.k = "lit" -> e.v
    [] e.k = "col" -> env[e.alias][e.name]
    [] e.k = "call" -> Fn(value(e.e, env))

RECURSIVE exprColumns(_)
exprColumns(e) ==
  CASE e.k = "lit" -> {}
    [] e.k = "col" -> {e}
    [] e.k = "call" -> exprColumns(e.e)

\* Conditions: a comparison, membership of a list of expressions, a disjunction, a negation,
\* and a test of a boolean function, of which the model has the one that is never unknown.
Cmp(op, l, r) == [k |-> "cmp", op |-> op, l |-> l, r |-> r]
Eq(l, r) == Cmp("eq", l, r)
In(e, list) == [k |-> "in", e |-> e, list |-> list]
Or(p, q) == [k |-> "or", p |-> p, q |-> q]
Not(p) == [k |-> "not", p |-> p]
IsNull(e) == [k |-> "test", e |-> e]

RECURSIVE predicateColumns(_)
predicateColumns(p) ==
  CASE p.k = "cmp" -> exprColumns(p.l) \union exprColumns(p.r)
    [] p.k = "in" -> exprColumns(p.e) \union UNION {exprColumns(x) : x \in {p.list[i] : i \in DOMAIN p.list}}
    [] p.k = "or" -> predicateColumns(p.p) \union predicateColumns(p.q)
    [] p.k = "not" -> predicateColumns(p.p)
    [] p.k = "test" -> exprColumns(p.e)

truthOf(b) == IF b THEN "true" ELSE "false"

\* A comparison with a missing value is unknown.
Compared(op, l, r) ==
  IF Missing(l) \/ Missing(r) THEN "unknown"
  ELSE LET c == compareValues(l, r) IN
       truthOf(CASE op = "eq" -> c = 0 [] op = "ne" -> c # 0
                 [] op = "lt" -> c < 0 [] op = "le" -> c <= 0
                 [] op = "gt" -> c > 0 [] op = "ge" -> c >= 0)

\* One true makes the whole true; failing that one unknown makes it unknown.
AnyTrue(ts) == IF "true" \in ts THEN "true" ELSE IF "unknown" \in ts THEN "unknown" ELSE "false"

Negated(t) == CASE t = "true" -> "false" [] t = "false" -> "true" [] OTHER -> t

RECURSIVE eval(_, _)
eval(p, env) ==
  CASE p.k = "cmp" -> Compared(p.op, value(p.l, env), value(p.r, env))
    [] p.k = "in" -> AnyTrue({Compared("eq", value(p.e, env), value(p.list[i], env)) : i \in DOMAIN p.list})
    [] p.k = "or" -> AnyTrue({eval(p.p, env), eval(p.q, env)})
    [] p.k = "not" -> Negated(eval(p.p, env))
    [] p.k = "test" -> truthOf(Missing(value(p.e, env)))

-----------------------------------------------------------------------------
VARIABLES case,   \* the query, its tables and what the providers hold
          pc,     \* how far the resolution and the run have come
          r,      \* the resolver
          todo,   \* conjuncts still to place
          rows,   \* the running rows: each node's row by alias
          ran,    \* nodes that have run
          effects \* the requests the target's method was sent

vars == <<case, pc, r, todo, rows, ran, effects>>

From == case.from
Order == [i \in DOMAIN From |-> From[i].alias] \o
         (IF case.target = NoTarget THEN <<>> ELSE <<case.target.alias>>)
Mutating == case.target.alias
Aliases == {Order[i] : i \in DOMAIN Order}
Form(a) == IF a = Mutating THEN "target" ELSE (CHOOSE j \in {From[i] : i \in DOMAIN From} : j.alias = a).form
Outer(a) == Form(a) = "left"
Before(a, b) == \E i, j \in DOMAIN Order : i < j /\ Order[i] = a /\ Order[j] = b
Table(a) == case.tables[a]
Names == UNION {Table(a).cols \union Table(a).params : a \in Aliases}

NewResolver ==
  [err |-> FALSE, empty |-> FALSE, onTarget |-> "", rest |-> <<>>, params |-> <<>>, wide |-> <<>>,
   node |-> [a \in Aliases |-> <<>>], fan |-> [a \in Aliases |-> <<>>],
   arrivals |-> [a \in Aliases |-> <<>>], on |-> [a \in Aliases |-> <<>>], filters |-> <<>>]

Refused(x) == [x EXCEPT !.err = TRUE]
Later(x, p) == [x EXCEPT !.rest = Append(@, p)]

hasColumn(a, name) == name \in Table(a).cols
accepts(a, name) == name \in Table(a).params
scopeInput(a, name) == name \in Table(a).scope
owners(name) == SelectSeq(Order, LAMBDA a : hasColumn(a, name) \/ accepts(a, name))
known(x, a) == DOMAIN x.params \union DOMAIN x.wide \union DOMAIN x.node[a] \union DOMAIN x.fan[a]

\* needs: the table cannot run on what is known, and takes name.
needs(x, c) ==
  /\ c.name \notin known(x, c.alias) /\ accepts(c.alias, c.name)
  /\ ~(Table(c.alias).required \subseteq known(x, c.alias))

Placeable(c) == c.alias # "" \/ Len(owners(c.name)) = 1
qualify(c) == IF c.alias # "" THEN c ELSE Col(owners(c.name)[1], c.name)

RECURSIVE rewriteExpr(_)
rewriteExpr(e) == CASE e.k = "lit" -> e [] e.k = "col" -> qualify(e) [] e.k = "call" -> Call(rewriteExpr(e.e))

RECURSIVE rewrite(_)
rewrite(p) ==
  CASE p.k = "cmp" -> Cmp(p.op, rewriteExpr(p.l), rewriteExpr(p.r))
    [] p.k = "in" -> In(rewriteExpr(p.e), [i \in DOMAIN p.list |-> rewriteExpr(p.list[i])])
    [] p.k = "or" -> Or(rewrite(p.p), rewrite(p.q))
    [] p.k = "not" -> Not(rewrite(p.p))
    [] p.k = "test" -> IsNull(rewriteExpr(p.e))

\* A value wired into a node: sent under the input as, or private to its match conditions.
arrive(x, to, from, e, as, private) ==
  [x EXCEPT !.arrivals[to] = Append(@, [from |-> from, e |-> e, as |-> as, private |-> private])]

\* Mutant of filter: in a mutation a condition on the rows is dropped instead of refused.
filter_Mutation(x, p) ==
  IF Mutating # "" THEN x ELSE IF \E c \in predicateColumns(p) : ~Placeable(c) THEN Refused(x)
  ELSE LET q == rewrite(p)
           foreign == {c \in predicateColumns(q) : c.alias # x.onTarget}
           Deliver(y, c) ==
             IF \E i \in DOMAIN y.arrivals[x.onTarget] :
                  y.arrivals[x.onTarget][i].private /\ y.arrivals[x.onTarget][i].e = c
             THEN y ELSE arrive(y, x.onTarget, c.alias, c, c.name, TRUE)
       IN IF x.onTarget = "" THEN [x EXCEPT !.filters = Append(@, q)]
          ELSE [FoldLeft(Deliver, x, SetToSeq(foreign)) EXCEPT !.on[x.onTarget] = Append(@, q)]

\* filter: a condition on the finished rows, or on the rows of the node whose ON is being placed,
\* to which the other nodes' columns it reads are then delivered.
filter(x, p) ==
  IF Mutating # "" \/ \E c \in predicateColumns(p) : ~Placeable(c) THEN Refused(x)
  ELSE LET q == rewrite(p)
           foreign == {c \in predicateColumns(q) : c.alias # x.onTarget}
           Deliver(y, c) ==
             IF \E i \in DOMAIN y.arrivals[x.onTarget] :
                  y.arrivals[x.onTarget][i].private /\ y.arrivals[x.onTarget][i].e = c
             THEN y ELSE arrive(y, x.onTarget, c.alias, c, c.name, TRUE)
       IN IF x.onTarget = "" THEN [x EXCEPT !.filters = Append(@, q)]
          ELSE [FoldLeft(Deliver, x, SetToSeq(foreign)) EXCEPT !.on[x.onTarget] = Append(@, q)]

\* An expression without columns is evaluated as the query is read.
constant(e) == IF e.k = "call" /\ exprColumns(e) = {} THEN Lit(value(e, <<>>)) ELSE e

\* column = literal, or column IN (literals): the column and the values, else no column.
Unbindable == [col |-> Lit(Null), vals |-> <<>>]
Binding(p) ==
  IF p.k = "cmp" /\ p.op = "eq"
  THEN LET a == constant(p.l)
           b == constant(p.r)
       IN IF a.k = "col" /\ b.k = "lit" THEN [col |-> a, vals |-> <<b.v>>]
          ELSE IF b.k = "col" /\ a.k = "lit" THEN [col |-> b, vals |-> <<a.v>>] ELSE Unbindable
  ELSE IF p.k = "in" /\ p.e.k = "col" /\ \A i \in DOMAIN p.list : p.list[i].k = "lit"
  THEN [col |-> p.e, vals |-> [i \in DOMAIN p.list |-> p.list[i].v]]
  ELSE Unbindable

Put(f, k, v) == (k :> v) @@ f

\* A condition on constants alone decides whether the query has rows at all.
OnConstants(p) == p.k = "cmp" /\ p.l.k = "lit" /\ p.r.k = "lit"

bindConstant(x, p) ==
  LET b == Binding(p)
      name == b.col.name
      own == owners(name)
      shared == \E a \in Aliases : name \in Table(a).server
      alias == IF b.col.alias = "" THEN own[1] ELSE b.col.alias
      placed == IF Len(b.vals) = 1 THEN [x EXCEPT !.node[alias] = Put(@, name, b.vals[1])]
                ELSE [x EXCEPT !.fan[alias] = Put(@, name, b.vals)]
  IN IF x.err THEN x
     ELSE IF b = Unbindable THEN Later(x, p)
     ELSE IF b.col.alias = "" /\ own = <<>> /\ ~shared THEN Refused(x)
     ELSE IF b.col.alias = "" /\ (Len(own) # 1 \/ shared)
     THEN IF Len(b.vals) = 1 THEN [x EXCEPT !.params = Put(@, name, b.vals[1])]
          ELSE [x EXCEPT !.wide = Put(@, name, b.vals)]
     ELSE IF ~accepts(alias, name) THEN Later(x, p)
     ELSE IF Mutating = "" /\ hasColumn(alias, name) /\ ~scopeInput(alias, name) THEN filter(placed, p)
     ELSE placed

bindOne(x, p) ==
  IF OnConstants(p) THEN [x EXCEPT !.empty = @ \/ eval(p, <<>>) # "true"] ELSE bindConstant(x, p)

\* optionalEdge: an equality flows into the side that takes the parameter and has no value for
\* it; where both do, into the one joined later, and under a left join into the joined side.
NoEdge == <<>>
optionalEdge(x, a, b) ==
  LET takes(c) == accepts(c.alias, c.name) /\ c.name \notin known(x, c.alias)
  IN IF x.onTarget # ""
     THEN IF a.alias = x.onTarget /\ takes(a) THEN <<a, b>>
          ELSE IF b.alias = x.onTarget /\ takes(b) THEN <<b, a>> ELSE NoEdge
     ELSE IF takes(a) /\ (takes(b) => Before(b.alias, a.alias)) THEN <<a, b>>
     ELSE IF takes(b) THEN <<b, a>> ELSE NoEdge

\* bindComputed: column = f(another table's columns), where the column's table needs the value.
bindComputed(x, p, col, e) ==
  LET froms == {qualify(c).alias : c \in exprColumns(e)}
      c == qualify(col)
      from == CHOOSE a \in froms : TRUE
      wired == arrive(x, c.alias, from, rewriteExpr(e), c.name, FALSE)
  IN IF ~Placeable(col) THEN Refused(x)
     ELSE IF e.k # "call" \/ (\E d \in exprColumns(e) : ~Placeable(d)) \/ Cardinality(froms) # 1 \/ froms = {c.alias}
             \/ ~needs(x, c) THEN Later(x, p)
     ELSE IF x.onTarget # "" /\ c.alias # x.onTarget THEN Refused(x)
     ELSE IF Mutating = "" /\ hasColumn(c.alias, c.name) THEN filter(wired, p) ELSE wired

bindJoin(x, p) ==
  LET flow(to, from) ==
        LET wired == arrive(x, to.alias, from.alias, from, to.name, FALSE)
        IN IF (x.onTarget # "" /\ to.alias # x.onTarget) \/ from.alias = Mutating THEN Refused(x)
           ELSE IF Mutating = "" /\ hasColumn(to.alias, to.name) THEN filter(wired, p) ELSE wired
      along(edge) == IF edge = NoEdge THEN Later(x, p) ELSE flow(edge[1], edge[2])
      join(a, b) ==
        IF a.alias = b.alias THEN Later(x, p)
        ELSE IF needs(x, a) /\ needs(x, b) THEN Refused(x)
        ELSE along(IF needs(x, a) THEN <<a, b>> ELSE IF needs(x, b) THEN <<b, a>> ELSE optionalEdge(x, a, b))
  IN IF x.err THEN x
     ELSE IF ~(p.k = "cmp" /\ p.op = "eq") \/ (p.l.k # "col" /\ p.r.k # "col") THEN Later(x, p)
     ELSE IF p.r.k # "col" THEN bindComputed(x, p, p.l, p.r)
     ELSE IF p.l.k # "col" THEN bindComputed(x, p, p.r, p.l)
     ELSE IF ~Placeable(p.l) \/ ~Placeable(p.r) THEN Refused(x)
     ELSE join(qualify(p.l), qualify(p.r))

\* reaches: a value of one table travels, directly or through others, to another.
Feeds(x, a) == {x.arrivals[a][i].from : i \in DOMAIN x.arrivals[a]}
RECURSIVE Upstream(_, _)
Upstream(x, as) == LET more == as \union UNION {Feeds(x, a) : a \in as} IN IF more = as THEN as ELSE Upstream(x, more)
reaches(x, from, to) == from \in Upstream(x, Feeds(x, to))

\* hashJoin: an equality neither side needs is matched on the later side, listed once.
hashJoin(x, p) ==
  LET a == qualify(p.l).alias
      b == qualify(p.r).alias
      first == IF Before(b, a) THEN b ELSE a
      last == IF Before(b, a) THEN a ELSE b
  IN IF x.err THEN x
     ELSE IF ~(p.k = "cmp" /\ p.op = "eq" /\ Mutating = "" /\ p.l.k = "col" /\ p.r.k = "col") THEN filter(x, p)
     ELSE IF ~Placeable(p.l) \/ ~Placeable(p.r) THEN Refused(x)
     ELSE IF a = b \/ Outer(a) \/ Outer(b) \/ reaches(x, last, first) THEN filter(x, p)
     ELSE [filter([x EXCEPT !.onTarget = last], p) EXCEPT !.onTarget = ""]

\* leftJoin places a left join's ON against its node.
leftJoin(x, j) ==
  LET filters(y) == IF y.err THEN Refused(x)
                    ELSE [FoldLeft(filter, [y EXCEPT !.rest = <<>>], y.rest) EXCEPT !.onTarget = ""]
      joins(y) == FoldLeft(bindJoin, [y EXCEPT !.rest = <<>>], y.rest)
  IN IF x.err \/ j.form # "left" THEN x
     ELSE filters(joins(FoldLeft(bindConstant, [x EXCEPT !.onTarget = j.alias, !.rest = <<>>], j.on)))

\* target places what a mutation sets: a literal is a parameter, a source's column or a
\* function of one is an edge. What is no parameter is a field of the body, where there is one.
setOne(x, s) ==
  LET t == Mutating
      e == constant(s.e)
      froms == {qualify(c).alias : c \in exprColumns(e)}
  IN IF x.err \/ ~(accepts(t, s.col) \/ Table(t).body) \/ \E c \in exprColumns(e) : ~Placeable(c) THEN Refused(x)
     ELSE IF e.k = "lit" THEN [x EXCEPT !.node[t] = Put(@, s.col, e.v)]
     ELSE IF Cardinality(froms) # 1 \/ t \in froms THEN Refused(x)
     ELSE arrive(x, t, CHOOSE a \in froms : TRUE, rewriteExpr(e), s.col, FALSE)

\* New and NewMutation refuse what is wrong in the query itself: a first resource that is not
\* the base, an alias used twice, a cross join with an ON, a column out of scope, a column set
\* twice, a value that reads the row being written.
Scope(c, n) == {c.from[i].alias : i \in 1..n} \union {""}
InScope(p, scope) == \A x \in predicateColumns(p) : x.alias \in scope
New(c) ==
  LET n == Len(c.from)
      t == c.target
      all == Scope(c, n) \union {t.alias}
  IN /\ \A i \in 1..n : (i = 1) = (c.from[i].form = "base")
     /\ Cardinality(Scope(c, n) \ {""}) = n
     /\ \A i \in 1..n : c.from[i].form = "cross" => c.from[i].on = <<>>
     /\ \A i \in 1..n : \A k \in DOMAIN c.from[i].on : InScope(c.from[i].on[k], Scope(c, i))
     /\ t = NoTarget => n > 0
     /\ t # NoTarget =>
          /\ t.alias \notin Scope(c, n)
          /\ Cardinality({t.set[i].col : i \in DOMAIN t.set}) = Len(t.set)
          /\ \A i \in DOMAIN t.set : \A x \in exprColumns(t.set[i].e) : x.alias \in Scope(c, n)
     /\ \A k \in DOMAIN c.where : InScope(c.where[k], all)

\* ResolveIn reads FROM: an inner join's ON is WHERE, a listed one's waits for every edge.
Conjuncts == FoldLeft(LAMBDA acc, j : IF j.form = "inner" THEN acc \o j.on ELSE acc, <<>>, From) \o case.where
Listed == FoldLeft(LAMBDA acc, j : IF j.form = "listed" THEN acc \o j.on ELSE acc, <<>>, From)

Init ==
  /\ case \in {c \in Cases : New(c)}
  /\ pc = "constants"
  /\ r = FoldLeft(setOne, NewResolver, case.target.set)
  /\ todo = Conjuncts /\ rows = <<>> /\ ran = {} /\ effects = <<>>

\* The resolver after a step, and the conjuncts left to place: what it deferred, and more.
Step(from, to, x, more) ==
  /\ pc = from /\ r' = x /\ pc' = IF x.err THEN "refused" ELSE to
  /\ todo' = x.rest \o more
  /\ UNCHANGED case

BindConstants == Step("constants", "joins", FoldLeft(bindOne, r, todo), <<>>) /\ UNCHANGED <<rows, ran, effects>>

BindJoins ==
  Step("joins", "hash", FoldLeft(bindJoin, [r EXCEPT !.rest = <<>>], todo), Listed) /\ UNCHANGED <<rows, ran, effects>>

HashJoins ==
  Step("hash", "left", FoldLeft(hashJoin, [r EXCEPT !.rest = <<>>], todo), <<>>) /\ UNCHANGED <<rows, ran, effects>>

\* An effect nothing reaches would repeat once per source row.
LeftJoins ==
  LET fed(x) == IF Mutating # "" /\ From # <<>> /\ r.arrivals[Mutating] = <<>> THEN Refused(x) ELSE x
  IN Step("left", "build", fed(FoldLeft(leftJoin, r, From)), <<>>) /\ UNCHANGED <<rows, ran, effects>>

Wired(x, a) == {x.arrivals[a][i].as : i \in {i \in DOMAIN x.arrivals[a] : ~x.arrivals[a][i].private}}

RECURSIVE Spread(_, _)
\* valuesSpec: one row per combination of the values given, repeats included.
Spread(f, keys) ==
  IF keys = {} THEN << <<>> >>
  ELSE LET k == CHOOSE k \in keys : TRUE
           less == Spread(f, keys \ {k})
       IN FlattenSeq([i \in DOMAIN less |-> [n \in DOMAIN f[k] |-> Put(less[i], k, f[k][n])]])

\* NewGraphQuery refuses an input given twice over, a node none of whose methods what is
\* known and what arrives satisfies, and a cycle of edges.
Build ==
  LET clash == \E a \in Aliases :
        \/ DOMAIN r.node[a] \intersect DOMAIN r.fan[a] # {}
        \/ Wired(r, a) \intersect (DOMAIN r.node[a] \union DOMAIN r.fan[a]) # {}
      cyclic == \E a \in Aliases : a \in Upstream(r, Feeds(r, a))
      double == DOMAIN r.params \intersect DOMAIN r.wide # {}
      starved == \E a \in Aliases : ~(Table(a).required \subseteq known(r, a) \union Wired(r, a))
  IN /\ Step("build", "run", IF clash \/ cyclic \/ double \/ starved THEN Refused(r) ELSE r, <<>>)
     /\ rows' = IF r.empty THEN <<>>
                ELSE LET seeds == Spread(r.wide, DOMAIN r.wide) IN [i \in DOMAIN seeds |-> [wide |-> seeds[i]]]
     /\ UNCHANGED <<ran, effects>>

Absent == [n \in Names |-> Null]
Env(row) == [a \in Aliases |-> IF a \in DOMAIN row THEN row[a] ELSE Absent]

\* The inputs node a's request carries for a row: query-wide values it takes, its own, its
\* share of a fan-out, and what arrives; a missing value is not sent.
Inputs(a, row, fan) ==
  LET as == r.arrivals[a]
      last(n) == CHOOSE i \in DOMAIN as : ~as[i].private /\ as[i].as = n
                   /\ \A k \in DOMAIN as : k > i /\ ~as[k].private => as[k].as # n
      wired == [n \in Wired(r, a) |-> value(as[last(n)].e, Env(row))]
      all == wired @@ fan @@ r.node[a] @@ row.wide @@ r.params
  IN [n \in {n \in DOMAIN all : (accepts(a, n) \/ Table(a).body) /\ ~Missing(all[n])} |-> all[n]]

\* What the provider lists: it applies the parameters it was sent.
Listing(a, in) == SetToSeq({x \in case.data[a] : \A n \in DOMAIN in : in[n] = x[n]})

\* Mutant of OwnFilters: a filter is applied to the rows of an outer node as well.
OwnFilters_Outer(a) == SelectSeq(r.filters, LAMBDA p : {c.alias : c \in predicateColumns(p)} = {a})

\* ownFilters are applied to a node's rows before they travel, unless it is an outer one.
OwnFilters(a) ==
  IF Outer(a) THEN <<>> ELSE SelectSeq(r.filters, LAMBDA p : {c.alias : c \in predicateColumns(p)} = {a})

AllTrue(ps, env) == \A i \in DOMAIN ps : eval(ps[i], env) = "true"

\* One node for one row: nothing is asked where a required input is missing; its rows meet
\* its own filters and its match conditions; an outer node keeps the row it matched nothing for.
NodeRows(a, row) ==
  LET fans == Spread(r.fan[a], DOMAIN r.fan[a])
      asked(fan) ==
        LET in == Inputs(a, row, fan)
            got == IF Wired(r, a) \intersect Table(a).required \subseteq DOMAIN in THEN Listing(a, in) ELSE <<>>
            kept == SelectSeq(got, LAMBDA x : LET env == [Env(row) EXCEPT ![a] = x] IN
                                              AllTrue(OwnFilters(a), env) /\ AllTrue(r.on[a], env))
        IN IF Outer(a) /\ kept = <<>> THEN << Put(row, a, Absent) >>
           ELSE [i \in DOMAIN kept |-> Put(row, a, kept[i])]
  IN FlattenSeq([i \in DOMAIN fans |-> asked(fans[i])])

\* The next node in plan order whose producers have run.
NextNode == CHOOSE a \in Aliases \ ran :
  /\ Feeds(r, a) \subseteq ran
  /\ \A b \in Aliases \ ran : Feeds(r, b) \subseteq ran => ~Before(b, a)

RunNode ==
  LET a == NextNode
  IN /\ pc = "run" /\ ran # Aliases /\ a # Mutating
     /\ rows' = FlattenSeq([i \in DOMAIN rows |-> NodeRows(a, rows[i])])
     /\ ran' = ran \union {a}
     /\ UNCHANGED <<case, pc, r, todo, effects>>

\* The target, last: one effect per row, unless an input it requires is missing there.
RunTarget ==
  LET a == Mutating
      in(i) == Inputs(a, rows[i], <<>>)
      reached == SelectSeq([i \in DOMAIN rows |-> i],
                           LAMBDA i : Wired(r, a) \intersect Table(a).required \subseteq DOMAIN in(i))
  IN /\ pc = "run" /\ ran = Aliases \ {a} /\ a # ""
     /\ effects' = [k \in DOMAIN reached |-> in(reached[k])]
     /\ ran' = ran \union {a}
     /\ UNCHANGED <<case, pc, r, todo, rows>>

\* egress: the rows every filter holds for.
Egress ==
  /\ pc = "run" /\ ran = Aliases
  /\ rows' = SelectSeq(rows, LAMBDA x : AllTrue(r.filters, Env(x)))
  /\ pc' = "done"
  /\ UNCHANGED <<case, r, todo, ran, effects>>

Done == pc \in {"done", "refused"} /\ UNCHANGED vars

Next == BindConstants \/ BindJoins \/ HashJoins \/ LeftJoins \/ Build \/ RunNode \/ RunTarget \/ Egress \/ Done

Spec == Init /\ [][Next]_vars

----------------------------------------------------------------------------
\* A name no table has as a column is no column at all: a scope such as region, which every
\* table whose methods take it has.
ScopeOnly(p) == \A c \in predicateColumns(p) : c.alias = "" /\ \A a \in Aliases : ~hasColumn(a, c.name)

\* A condition as SQL reads it. Of an unqualified column that several tables have SQL makes an
\* error (Ambiguous).
Reads(p, env) ==
  IF predicateColumns(p) # {} /\ ScopeOnly(p)
  THEN \A a \in Aliases : (\E c \in predicateColumns(p) : accepts(a, c.name)) => eval(p, [b \in {""} |-> env[a]]) = "true"
  ELSE eval(rewrite(p), env) = "true"
ReadAll(ps, env) == \A i \in DOMAIN ps : Reads(ps[i], env)

\* SQL's reading: join by join over the whole tables, then WHERE. A mutation's WHERE on its
\* target says which effect each source row has, and is no condition on the sources.
Joined(acc, j) ==
  LET matches(row) == SelectSeq(SetToSeq(case.data[j.alias]),
                                LAMBDA x : ReadAll(j.on, [Env(row) EXCEPT ![j.alias] = x]))
      one(row) == LET ms == matches(row) IN
                  IF ms = <<>> /\ j.form = "left" THEN << Put(row, j.alias, Absent) >>
                  ELSE [i \in DOMAIN ms |-> Put(row, j.alias, ms[i])]
  IN FlattenSeq([i \in DOMAIN acc |-> one(acc[i])])
OnTarget(p) == Mutating # "" /\ \E c \in predicateColumns(p) : c.alias = Mutating
Sources == SelectSeq(FoldLeft(Joined, << [wide |-> <<>>] >>, From),
                     LAMBDA row : ReadAll(SelectSeq(case.where, LAMBDA p : ~OnTarget(p)), Env(row)))

Times(s, x) == Cardinality({i \in DOMAIN s : s[i] = x})
SameBag(s, t) == Len(s) = Len(t) /\ \A i \in DOMAIN s : Times(s, s[i]) = Times(t, s[i])
Plain(s) == [i \in DOMAIN s |-> [a \in Aliases \ {Mutating} |-> s[i][a]]]

Within(s, t) == \A i \in DOMAIN s : Times(s, s[i]) <= Times(t, s[i])

\* Where the code is not SQL. An unqualified constant on a column of several tables is bound
\* query-wide and checked nowhere (query.go:955), where SQL calls it ambiguous.
Ambiguous == \E i \in DOMAIN Conjuncts : \E c \in predicateColumns(Conjuncts[i]) :
  c.alias = "" /\ Cardinality({a \in Aliases : hasColumn(a, c.name)}) > 1

\* The conditions of left ONs that bindConstant takes for a parameter of table a.
BoundInLeftOn(a, j) == {p \in {j.on[i] : i \in DOMAIN j.on} :
  j.form = "left" /\ Binding(p) # Unbindable /\ Binding(p).col.alias = a /\ accepts(a, Binding(p).col.name)}

\* A constant on the preserved side of a left join, in its ON, is sent with that side's own
\* request (query.go:979), so rows that SQL preserves are not even listed.
NarrowsPreserved == \E i \in DOMAIN From : \E a \in Aliases \ {From[i].alias} : BoundInLeftOn(a, From[i]) # {}

\* A list in a left ON is one request per value, and each that matches nothing keeps the row
\* (query.go:984); a value listed twice is asked for twice, in whatever clause.
AsksAgain == \/ \E i \in DOMAIN From : \E p \in BoundInLeftOn(From[i].alias, From[i]) : Len(Binding(p).vals) > 1
             \/ \E a \in Aliases : \E n \in DOMAIN r.fan[a] : ~IsInjective(r.fan[a][n])

\* A query that was not refused returns exactly the rows SQL says, as many times as SQL says:
\* wherever each condition was placed (a parameter, an edge, a match, a filter), under every
\* join form and with NULLs on either side (query.go:401). The three exceptions are the ones
\* above: the first has no meaning in SQL, the second only loses rows, and the third only adds.
ResultIsSQL == pc = "done" /\ Mutating = "" /\ ~Ambiguous =>
  /\ ~AsksAgain => Within(Plain(rows), Plain(Sources))
  /\ ~NarrowsPreserved => Within(Plain(Sources), Plain(rows))

\* The effects SQL asks for: each source row's assignments and target equalities.
Asked(row) ==
  LET eqs == SelectSeq(case.where, OnTarget)
      all == [i \in DOMAIN case.target.set |-> case.target.set[i]] \o
             [i \in DOMAIN eqs |-> IF eqs[i].l.k = "col" /\ eqs[i].l.alias = Mutating
                                   THEN [col |-> eqs[i].l.name, e |-> eqs[i].r]
                                   ELSE [col |-> eqs[i].r.name, e |-> eqs[i].l]]
      vals == [n \in {all[i].col : i \in DOMAIN all} |->
                 value(all[CHOOSE i \in DOMAIN all : all[i].col = n].e, Env(row))]
  IN [n \in {n \in DOMAIN vals : ~Missing(vals[n])} |-> vals[n]]
Expected ==
  LET all == [i \in DOMAIN Sources |-> Asked(Sources[i])]
  IN SelectSeq(all, LAMBDA in : Table(Mutating).required \subseteq DOMAIN in)

\* A mutation that was not refused sends one request for every source row SQL gives, with
\* that row's values, and none for a row whose required values are missing: no condition is
\* left to be checked after the effect (query.go:1238).
EffectsAsAsked == pc = "done" /\ Mutating # "" => SameBag(effects, Expected)

-----------------------------------------------------------------------------
\* Two or three tables over the columns x and y and the values 1, 2 and NULL, with methods
\* that take or require none, one or both columns; joins of every form, and conditions of
\* every kind a resolver tells apart.

V(n) == Val("int", n, n)
R(x, y) == [x |-> x, y |-> y]
T(params, required) == [cols |-> {"x", "y"}, params |-> params, required |-> required,
                        scope |-> {}, server |-> {}, body |-> FALSE]
AX == Col("a", "x")
AY == Col("a", "y")
BX == Col("b", "x")
BY_ == Col("b", "y")
One == Lit(V(1))
J(alias, form, on) == [alias |-> alias, form |-> form, on |-> on]

Joins == Eq(AX, BX)
OneOf == In(BY_, <<One, Lit(V(2))>>)
Ons(form) ==
  CASE form = "cross" -> {<<>>}
    [] form = "left" -> {<<Joins>>, <<Joins, Eq(BY_, One)>>, <<Eq(BX, Call(AX))>>, <<Cmp("ne", One, BY_), Joins>>,
                         <<Not(Eq(BY_, One))>>, <<Eq(AX, BX), Eq(AY, BY_)>>, <<Joins, Eq(AY, One)>>, <<Joins, OneOf>>}
    [] OTHER -> {<<Joins>>, <<Joins, Eq(BY_, Call(Lit(V(1))))>>, <<Eq(BX, Call(AX))>>, <<Cmp("lt", AX, BY_)>>,
                 <<Eq(AX, BX), Eq(AY, BY_)>>}
Wheres == {<<>>, <<Joins>>, <<Eq(BY_, One)>>, <<Eq(One, AY), Joins>>, <<OneOf>>, <<Not(Eq(BY_, One))>>,
           <<Or(Eq(AY, One), Eq(BY_, One))>>, <<Eq(AX, AY)>>, <<IsNull(BX)>>, <<Eq(One, One)>>, <<Eq(One, Lit(V(2)))>>,
           <<Eq(Col("", "y"), One)>>, <<Joins, In(BY_, <<One, One>>)>>}
ATables == {T({}, {}), T({"y"}, {}), T({"x"}, {"x"})}
BTables == {T({}, {}), T({"x"}, {}), T({"x"}, {"x"}), T({"y"}, {}), T({"x", "y"}, {"x"})}
ARows == {{R(V(1), V(1)), R(V(2), Null)}, {R(V(1), V(2)), R(Null, V(1))}}
BRows == {{R(V(1), V(1)), R(V(1), V(2))}, {R(V(2), Null), R(V(2), V(1)), R(Null, V(1))}}

Two == {[from |-> <<J("a", "base", <<>>), J("b", form, on)>>, where |-> w, target |-> NoTarget,
         tables |-> [a |-> ta, b |-> tb], data |-> [a |-> da, b |-> db]] :
        <<form, on, w, ta, tb, da, db>> \in
          UNION {{form} \X Ons(form) \X Wheres \X ATables \X BTables \X ARows \X BRows :
                 form \in {"inner", "left", "cross", "listed"}}}

\* A third table, after an inner or a left join, and an unqualified column only it has.
CT(params) == [cols |-> {"x", "z"}, params |-> params, required |-> {}, scope |-> {}, server |-> {}, body |-> FALSE]
Wide(rs) == {[x |-> d.x, y |-> d.y, z |-> Null] : d \in rs}
CRows == {[x |-> V(1), y |-> Null, z |-> V(1)], [x |-> V(2), y |-> Null, z |-> V(2)]}
Three == {[from |-> <<J("a", "base", <<>>), J("b", form, <<Joins>>), J("c", "inner", on)>>, where |-> w,
           target |-> NoTarget, tables |-> [a |-> ta, b |-> tb, c |-> tc],
           data |-> [a |-> Wide(da), b |-> Wide(db), c |-> CRows]] :
          <<form, on, w, ta, tb, tc, da, db>> \in
            {"inner", "left"} \X {<<Eq(Col("c", "x"), BX)>>, <<Eq(Col("c", "z"), AX), Eq(Col("c", "x"), BY_)>>} \X
            {<<>>, <<Eq(Col("", "z"), One)>>, <<Eq(BY_, Col("", "z"))>>} \X
            ATables \X BTables \X {CT({}), CT({"x"}), CT({"z"})} \X ARows \X BRows}

\* A scope both tables take, unqualified: one value or several.
ST == [cols |-> {"x"}, params |-> {"y"}, required |-> {"y"}, scope |-> {"y"}, server |-> {"y"}, body |-> FALSE]
Scoped == {[from |-> <<J("a", "base", <<>>), J("b", "inner", <<Joins>>)>>, where |-> <<w>>, target |-> NoTarget,
            tables |-> [a |-> ST, b |-> ST], data |-> [a |-> da, b |-> db]] :
           <<w, da, db>> \in {Eq(Col("", "y"), One)} \X ARows \X BRows}

\* Mutations: what t is set to, and for which rows of a.
TT == [cols |-> {"x"}, params |-> {"x", "y"}, required |-> {"x"}, scope |-> {}, server |-> {}, body |-> FALSE]
Set(col, e) == [col |-> col, e |-> e]
TX == Col("t", "x")
Writes == {[from |-> f, where |-> w, target |-> [alias |-> "t", set |-> s],
            tables |-> [a |-> ta, t |-> tt], data |-> [a |-> da]] :
           <<f, w, s, ta, tt, da>> \in
             {<<>>, <<J("a", "base", <<>>)>>} \X {<<>>, <<Eq(AY, One)>>, <<Eq(TX, AX)>>, <<Eq(TX, One)>>} \X
             {<<>>, <<Set("x", AX)>>, <<Set("x", Call(AX)), Set("y", One)>>, <<Set("y", AY)>>, <<Set("z", AY)>>} \X
             ATables \X {TT, [TT EXCEPT !.body = TRUE]} \X ARows}
\* What a mutation's WHERE selects it does not set as well.
WellFormed(c) ==
  /\ c.where \in {<<Eq(TX, AX)>>, <<Eq(TX, One)>>} => \A i \in DOMAIN c.target.set : c.target.set[i].col # "x"
MCCases == Two \union Three \union Scoped \union {c \in Writes : WellFormed(c)}

=============================================================================
