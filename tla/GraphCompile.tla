---------------------------- MODULE GraphCompile ----------------------------
\* A graph of references to addresses, checked (NewGraphWithFilters), compiled into exchanges
\* and the edges between them (NewGraphQuery in pkg/omnisdk/graph.go) and run, level by level,
\* on one flat running row. A value belongs to one node though every node writes the same row:
\* it travels under a cell private to its alias. Cycles, gates and terminations are Cycle's
\* and Output's.
EXTENDS Integers, FiniteSets, Sequences, SequencesExt, Functions

CONSTANTS Each,      \* how many values a multi-valued input or a list of tuples has
          Lists,     \* how many rows a read answers with
          Cols,      \* the columns of each alias's rows
          Required,  \* the inputs the method of each alias requires
          Auth       \* the aliases whose document declares a token exchange

VARIABLES g,       \* the graph: nodes, wirings, filters, query-wide fanout, the caller's params
          pc,      \* "graph", "index", a node to compile, "edges", "run", "done", "refused"
          at,      \* the node being compiled, then the level being run
          ix,      \* bound, provided, inbox and emits
          specs,   \* the exchanges, in the order they were made
          betas,   \* the edges, in the order they were made
          inputs,  \* the seed row
          rows,    \* the rows that reached this level
          asks     \* the requests made, as <<alias, inputs, how many times>>

vars == <<g, pc, at, ix, specs, betas, inputs, rows, asks>>

----------------------------------------------------------------------------
\* A cell of the running row: an owner and a name; the row's own columns have no owner.
hidden(alias, attr) == <<alias, attr>>
Plain(k) == <<"", k>>
IsPrivate(cell) == cell[1] # ""

Missing == <<"missing", "", "", 0>>
At(row, cell) == IF cell \in DOMAIN row THEN row[cell] ELSE Missing
Over(a, b) == [c \in DOMAIN a \union DOMAIN b |-> IF c \in DOMAIN b THEN b[c] ELSE a[c]]

NodeOf(x, alias) == CHOOSE n \in ToSet(x.nodes) : n.alias = alias
AliasesOf(x) == {n.alias : n \in ToSet(x.nodes)}
wiringFor(x, alias) == {w \in ToSet(x.wirings) : w.to = alias}
InboundOf(x, alias) == UNION {w.in : w \in wiringFor(x, alias)}

\* What NewGraphWithFilters refuses: a name twice, an edge, a condition or a filter of a node
\* the graph does not have, two wirings of one node, a wiring of nothing.
BadGraph(x) ==
  \/ x.nodes = <<>>
  \/ Cardinality(AliasesOf(x)) # Len(x.nodes)
  \/ \E w \in ToSet(x.wirings) : w.to \notin AliasesOf(x) \/ w.in = {} \/ (w.via /\ w.provides = {})
  \/ \E i, j \in DOMAIN x.wirings : i # j /\ x.wirings[i].to = x.wirings[j].to
  \/ \E w \in ToSet(x.wirings) : \E in \in w.in : in.from \notin AliasesOf(x)
  \/ \E f \in x.filters : f.alias \notin AliasesOf(x)
  \/ \E n \in ToSet(x.nodes) : \E c \in n.on : c[1] \notin AliasesOf(x)

\* deliverOn: a column another node's match condition reads arrives under its private cell.
Delivered(n) == {[from |-> c[1], src |-> c[2], as |-> hidden(c[1], c[2])] : c \in {d \in n.on : d[1] # n.alias}}
deliverOn(x) ==
  LET old == [i \in DOMAIN x.wirings |->
                [x.wirings[i] EXCEPT !.in = @ \union Delivered(NodeOf(x, x.wirings[i].to))]]
      more == {n \in ToSet(x.nodes) : Delivered(n) # {} /\ wiringFor(x, n.alias) = {}}
  IN old \o SetToSeq({[to |-> n.alias, in |-> Delivered(n), via |-> FALSE, provides |-> {}] : n \in more})

NewGraph ==
  /\ pc = "graph"
  /\ IF BadGraph(g) THEN pc' = "refused" /\ UNCHANGED g
     ELSE pc' = "index" /\ g' = [g EXCEPT !.wirings = deliverOn(g)]
  /\ UNCHANGED <<at, ix, specs, betas, inputs, rows, asks>>

----------------------------------------------------------------------------
\* The names that reach a node's request over its wiring; a reshaping one's own arrivals, and
\* those under private cells, only reach its inbox.
Shaped(x, alias) == \E w \in wiringFor(x, alias) : w.via
ArrivalsOf(x, alias) == {in.as : in \in InboundOf(x, alias)}
Bound(x, n) ==
  (IF Shaped(x, n.alias) THEN {} ELSE {c \in ArrivalsOf(x, n.alias) : ~IsPrivate(c)})
  \union {Plain(k) : k \in n.fan \union (n.tuples \ DOMAIN n.body)}
Provided(x, n) == {Plain(k) : k \in UNION {w.provides : w \in {v \in wiringFor(x, n.alias) : v.via}}}
Inbox(x, n) == IF Shaped(x, n.alias) THEN ArrivalsOf(x, n.alias) ELSE {c \in ArrivalsOf(x, n.alias) : IsPrivate(c)}

\* The columns of a node anything else reads: an edge or a filter.
Emits(x, alias) ==
  {in.src : in \in {i \in UNION {w.in : w \in ToSet(x.wirings)} : i.from = alias}}
  \union {f.col : f \in {h \in x.filters : h.alias = alias}}

\* The wired names of a node before its fanout and tuples are added to them.
WiredNames(x, n) ==
  IF Shaped(x, n.alias) THEN Provided(x, n) ELSE {c \in ArrivalsOf(x, n.alias) : ~IsPrivate(c)}
BadIndex(x) ==
  \E n \in ToSet(x.nodes) : \/ n.tuples # {} /\ n.fan # {}
                            \/ \E k \in n.tuples \union n.fan : Plain(k) \in WiredNames(x, n)

Index ==
  /\ pc = "index"
  /\ IF BadIndex(g) THEN pc' = "refused" /\ UNCHANGED ix
     ELSE /\ pc' = "node"
          /\ ix' = [a \in AliasesOf(g) |-> LET n == NodeOf(g, a) IN
                     [bound |-> Bound(g, n), provided |-> Provided(g, n), inbox |-> Inbox(g, n), emits |-> Emits(g, a)]]
  /\ UNCHANGED <<g, at, specs, betas, inputs, rows, asks>>

----------------------------------------------------------------------------
Exch(alias, role) == <<alias, role>>
Edge(from, to, src, tgt) == [from |-> from, to |-> to, src |-> src, tgt |-> tgt]
Seed == Exch("", "inputs")
QueryValues == Exch("", "values")
TokenAttr == "access_token"

\* valuesSpec and tupleSpec: rows of values, multiplied for a fanout and as given for tuples.
valuesSpec(name, alias, keys) ==
  [name |-> name, kind |-> "values", alias |-> alias, emits |-> {}, in |-> {},
   writes |-> {[c \in {<<alias, k>> : k \in keys} |-> <<IF alias = "" THEN "query" ELSE "each", alias, c[2], f[c[2]]>>] :
               f \in [keys -> 1..Each]}]
tupleSpec(name, alias, keys) ==
  [name |-> name, kind |-> "values", alias |-> alias, emits |-> {}, in |-> {},
   writes |-> {[c \in {<<alias, k>> : k \in keys} |-> <<"each", alias, c[2], i>>] : i \in 1..Each}]
authSpec(name, alias) ==
  [name |-> name, kind |-> "auth", alias |-> alias, emits |-> {}, in |-> {},
   writes |-> {(hidden(alias, TokenAttr) :> <<"token", alias, TokenAttr, 0>>)}]

\* A query-wide fanout runs first and is a value every node sees.
Values ==
  /\ pc = "node" /\ at = 0
  /\ IF g.fanout \cap g.params # {} THEN pc' = "refused" /\ UNCHANGED <<at, specs, inputs>>
     ELSE /\ at' = 1 /\ UNCHANGED pc
          /\ specs' = IF g.fanout = {} THEN <<>> ELSE <<valuesSpec(QueryValues, "", g.fanout)>>
          /\ inputs' = [c \in {Plain(k) : k \in g.params \union g.fanout} |->
                          IF c[2] \in g.params THEN <<"arg", "", c[2], 0>> ELSE <<"query", "", c[2], 1>>]
  /\ UNCHANGED <<g, ix, betas, rows, asks>>

\* requestWired: something wired in reaches the request.
requestWired(x, alias) ==
  Shaped(x, alias) \/ \E in \in InboundOf(x, alias) : ~IsPrivate(in.as)

\* The filters that read this node alone, applied to a read's rows unless the row may be
\* kept without them.
ownFilters(x, n) == IF n.verb = "select" /\ ~n.outer THEN {f \in x.filters : f.alias = n.alias} ELSE {}

Consts(n) == {k \in DOMAIN n.body : n.body[k] = "const"}

\* One node that sends a request, and its wrappers from the inside out: own filters, effect or
\* replay, match conditions, the outer join, the guard of the required inputs that are wired.
nodeSpec(n) ==
  LET i == ix[n.alias]
      local == {Plain(k) : k \in g.params \union g.fanout \union n.params \union Consts(n)}
  IN [name |-> Exch(n.alias, "node"), kind |-> IF n.verb = "select" THEN "read" ELSE "effect", alias |-> n.alias,
      in |-> local \union i.bound \union i.inbox \union {Plain(k) : k \in n.tuples}
             \union (IF n.alias \in Auth THEN {Plain(TokenAttr)} ELSE {}),
      provides |-> i.provided, inbox |-> i.inbox,
      own |-> ownFilters(g, n), replayed |-> n.verb = "select" /\ ~requestWired(g, n.alias), solo |-> FALSE,
      on |-> n.on, outer |-> n.outer,
      guards |-> {Plain(k) : k \in Required[n.alias]} \cap WiredNames(g, n),
      emits |-> i.emits]

functionSpec(n) ==
  [name |-> Exch(n.alias, "node"), kind |-> "function", alias |-> n.alias, in |-> ArrivalsOf(g, n.alias),
   provides |-> {}, inbox |-> ArrivalsOf(g, n.alias), own |-> {}, replayed |-> FALSE, solo |-> FALSE, on |-> n.on, outer |-> n.outer, guards |-> {},
   emits |-> ix[n.alias].emits]

\* An input stated twice, or one the method requires and nothing brings: no method is chosen.
BadNode(n) ==
  LET i == ix[n.alias]
      arrives == {Plain(k) : k \in g.params \union g.fanout \union n.params \union DOMAIN n.body \union n.tuples}
                 \union i.bound \union i.provided
  IN \/ \E k \in n.params : Plain(k) \in i.bound \union i.provided \/ k \in Consts(n)
     \/ ~({Plain(k) : k \in Required[n.alias]} \subseteq arrives)

\* The values of one reference, seeded under cells of its own.
Own(n) == [c \in {hidden(n.alias, k) : k \in n.params \union Consts(n)} |->
           <<IF c[2] \in n.params THEN "param" ELSE "body", n.alias, c[2], 0>>]

EdgesOf(from, to, alias, keys) == SetToSeq({Edge(from, to, <<alias, k>>, Plain(k)) : k \in keys})

\* One document node: its values exchange, its token exchange and itself, with the edges of
\* the query-wide values, its own, its lists' and its token's, in that order.
Compile ==
  /\ pc = "node" /\ at \in 1..Len(g.nodes) /\ g.nodes[at].verb # "function"
  /\ LET n == g.nodes[at]
         x == Exch(n.alias, "node")
         v == Exch(n.alias, "values")
         t == Exch(n.alias, "auth")
         listed == n.fan \union n.tuples
     IN IF BadNode(n) THEN pc' = "refused" /\ UNCHANGED <<at, specs, betas, inputs>>
        ELSE /\ specs' = specs
                  \o (IF n.fan # {} THEN <<valuesSpec(v, n.alias, n.fan)>> ELSE <<>>)
                  \o (IF n.tuples # {} THEN <<tupleSpec(v, n.alias, n.tuples)>> ELSE <<>>)
                  \o (IF n.alias \in Auth THEN <<authSpec(t, n.alias)>> ELSE <<>>)
                  \o <<nodeSpec(n)>>
             /\ betas' = betas
                  \o EdgesOf(QueryValues, x, "", g.fanout)
                  \o EdgesOf(Seed, x, n.alias, n.params \union Consts(n))
                  \o EdgesOf(v, x, n.alias, listed)
                  \o (IF n.alias \in Auth THEN EdgesOf(t, x, n.alias, {TokenAttr}) ELSE <<>>)
             /\ inputs' = Over(inputs, Own(n))
             /\ at' = at + 1
             /\ UNCHANGED pc
  /\ UNCHANGED <<g, ix, rows, asks>>

\* A table function takes its arguments from its wiring alone.
CompileFunction ==
  /\ pc = "node" /\ at \in 1..Len(g.nodes) /\ g.nodes[at].verb = "function"
  /\ specs' = Append(specs, functionSpec(g.nodes[at]))
  /\ at' = at + 1
  /\ UNCHANGED <<g, pc, ix, betas, inputs, rows, asks>>

----------------------------------------------------------------------------
\* Mutant of Wired: what is not sent is not delivered either.
Wired_Placed(w) ==
  SetToSeq({Edge(Exch(in.from, "node"), Exch(w.to, "node"), hidden(in.from, in.src), in.as) :
            in \in {i \in w.in : ~IsPrivate(i.as)}})

\* The edges of one wiring.
Wired(w) == SetToSeq({Edge(Exch(in.from, "node"), Exch(w.to, "node"), hidden(in.from, in.src), in.as) : in \in w.in})

Before(es, x) == {e.from : e \in {d \in ToSet(es) : d.to = x}} \ {Seed}

\* plan.Order for an acyclic plan: what is ready at the start, in the order of declaration, then
\* what each exchange frees, behind what was ready already.
Order(names, es) ==
  LET ready(done) == SelectSeq(names, LAMBDA x : Before(es, x) \subseteq done)
      step[i \in 0..Len(names)] ==
        IF i = 0 THEN ready({})
        ELSE LET q == step[i - 1] IN
             IF Len(q) < i THEN q
             ELSE q \o SelectSeq(ready(ToSet(SubSeq(q, 1, i))), LAMBDA x : x \notin ToSet(q))
  IN step[Len(names)]

\* The first node to run streams its rows, unrecorded.
FirstNode(names, es) == SelectSeq(Order(names, es), LAMBDA x : x[2] = "node")[1]

Wire ==
  /\ pc = "node" /\ at > Len(g.nodes)
  /\ LET es == betas \o FlattenSeq([i \in DOMAIN g.wirings |-> Wired(g.wirings[i])])
         first == FirstNode([i \in DOMAIN specs |-> specs[i].name], es)
     IN /\ betas' = es
        /\ specs' = [i \in DOMAIN specs |->
             IF specs[i].name = first /\ specs[i].kind = "read" /\ specs[i].replayed
             THEN [specs[i] EXCEPT !.solo = TRUE] ELSE specs[i]]
  /\ pc' = "run" /\ at' = 0
  /\ rows' = {[cells |-> inputs, of |-> << >>]}
  /\ UNCHANGED <<g, ix, inputs, asks>>

----------------------------------------------------------------------------
\* How deep an exchange is: those of one depth run side by side.
Depth(x) ==
  LET d[i \in 0..Len(specs)] ==
        IF i = 0 THEN [s \in ToSet(specs) |-> 0]
        ELSE [s \in ToSet(specs) |->
               LET b == {t \in ToSet(specs) : t.name \in Before(betas, s.name)}
               IN IF b = {} THEN 0 ELSE 1 + (CHOOSE m \in {d[i - 1][t] : t \in b} : \A t \in b : d[i - 1][t] <= m)]
  IN d[Len(specs)][x]
Level(i) == SelectSeq(specs, LAMBDA s : Depth(s) = i)

\* The inputs of an exchange bound on a row: of several edges the first with a value, by name
\* where there is none; then what its inbound program builds.
BoundOn(s, cells) ==
  LET edges(c) == SelectSeq(betas, LAMBDA e : e.to = s.name /\ e.tgt = c)
      from(c) == SelectSeq(edges(c), LAMBDA e : At(cells, e.src) # Missing)
      raw == [c \in s.in |-> IF edges(c) = <<>> THEN At(cells, c)
                             ELSE IF from(c) = <<>> THEN Missing ELSE At(cells, from(c)[1].src)]
  IN Over(raw, [c \in s.provides |-> <<"made", s.alias, c[2], 0>>])

\* What a request carries: never what only reached the inbox.
Requested(s, bound) == [c \in DOMAIN bound \ s.inbox |-> bound[c]]

Meets(f, v) == IF f.test = "null" THEN v = Missing ELSE v # Missing /\ v[4] = 1
Cell(s, col, i) == IF col \in Cols[s.alias] THEN <<"row", s.alias, col, i>> ELSE Missing

\* matched: the rows of a node that meet its filters and, against what was delivered, its
\* match conditions: a column of its own equal to another node's.
Matches(s, bound) ==
  {i \in 1..(IF s.kind = "effect" THEN 1 ELSE Lists) :
     /\ \A f \in s.own : Meets(f, Cell(s, f.col, i))
     /\ \A c \in s.on : c[1] # s.alias => At(bound, c)[4] = i}

Skipped(s, bound) == \E c \in s.guards : At(bound, c) = Missing

\* The rows one exchange gives for a row: its columns over the row and, under its own cells,
\* the ones that are read; an outer node's row when it has none.
OutOf(s, row) ==
  IF s.kind \in {"values", "auth"}
  THEN {[cells |-> Over(row.cells, w), of |-> row.of] : w \in s.writes}
  ELSE LET bound == BoundOn(s, row.cells)
           found == IF Skipped(s, bound) THEN {} ELSE Matches(s, bound)
           took(i) == Over(row.of, s.alias :> [asked |-> Requested(s, bound), row |-> i])
       IN {[cells |-> Over(row.cells,
                        [c \in {Plain(k) : k \in Cols[s.alias]}
                               \union {hidden(s.alias, k) : k \in s.emits \cap Cols[s.alias]} |-> Cell(s, c[2], i)]),
            of |-> took(i)] : i \in found}
          \union (IF found = {} /\ s.outer THEN {[cells |-> row.cells, of |-> took(0)]} ELSE {})

\* combine: every combination of the members' rows, each laid over the one before it.
combine(base, outs) ==
  LET acc[i \in 0..Len(outs)] ==
        IF i = 0 THEN {base}
        ELSE {[cells |-> Over(p[1].cells, p[2].cells), of |-> Over(p[1].of, p[2].of)] : p \in acc[i - 1] \X outs[i]}
  IN acc[Len(outs)]

\* A request is made each time a node is opened, unless its rows are recorded and were asked
\* for before.
AskedBy(s, row) ==
  LET bound == BoundOn(s, row.cells)
  IN IF s.kind \notin {"read", "effect"} \/ Skipped(s, bound) THEN {}
     ELSE {<<s.alias, Requested(s, bound), IF s.kind = "read" /\ s.replayed /\ ~s.solo THEN {} ELSE {row}>>}

RunLevel ==
  LET level == Level(at)
      outs(row) == combine(row, [i \in DOMAIN level |-> OutOf(level[i], row)])
  IN /\ pc = "run" /\ level # <<>>
     /\ rows' = UNION {outs(row) : row \in rows}
     /\ asks' = asks \union UNION {AskedBy(s, row) : s \in ToSet(level), row \in rows}
     /\ at' = at + 1
     /\ UNCHANGED <<g, pc, ix, specs, betas, inputs>>

\* The rest of the egress: every row meets every filter.
Egress ==
  /\ pc = "run" /\ Level(at) = <<>>
  /\ rows' = {r \in rows : \A f \in g.filters : Meets(f, At(r.cells, hidden(f.alias, f.col)))}
  /\ pc' = "done"
  /\ UNCHANGED <<g, at, ix, specs, betas, inputs, asks>>

Stop == pc \in {"done", "refused"} /\ UNCHANGED vars

Next == NewGraph \/ Index \/ Values \/ Compile \/ CompileFunction \/ Wire \/ RunLevel \/ Egress \/ Stop

----------------------------------------------------------------------------
\* What the graph says: its nodes taken in an order in which values flow forward, each asked
\* with the value its own statement, its lists, the node its wiring names or the query gives.
MeantInput(x, n, of, q, each, k) ==
  LET from == {in \in InboundOf(x, n.alias) : in.as = Plain(k)}
      in == CHOOSE i \in from : TRUE
  IN CASE k \in Consts(n) -> <<"body", n.alias, k, 0>>
       [] k \in n.fan \union n.tuples -> <<"each", n.alias, k, each[k]>>
       [] k \in n.params -> <<"param", n.alias, k, 0>>
       [] k = TokenAttr -> <<"token", n.alias, k, 0>>
       [] Plain(k) \in Provided(x, n) -> <<"made", n.alias, k, 0>>
       [] from # {} -> IF of[in.from].row = 0 \/ in.src \notin Cols[in.from] THEN Missing
                       ELSE <<"row", in.from, in.src, of[in.from].row>>
       [] k \in x.fanout -> <<"query", "", k, q[k]>>
       [] OTHER -> <<"arg", "", k, 0>>

MeantKeys(x, n) ==
  IF n.verb = "function" THEN {}
  ELSE x.params \union x.fanout \union n.params \union Consts(n) \union n.fan \union n.tuples
       \union {c[2] : c \in WiredNames(x, n)} \union (IF n.alias \in Auth THEN {TokenAttr} ELSE {})

MeantRowsOf(x, n, of, asked) ==
  IF \E k \in Required[n.alias] : Plain(k) \in WiredNames(x, n) /\ asked[Plain(k)] = Missing THEN {}
  ELSE {i \in 1..(IF n.verb \in {"select", "function"} THEN Lists ELSE 1) :
          \A c \in n.on : c[1] # n.alias => of[c[1]].row = i}

\* The lists of a node: the values of a fanout vary each by itself, those of a tuple together.
EachOf(n) == IF n.tuples # {} THEN {[k \in n.tuples |-> i] : i \in 1..Each} ELSE [n.fan -> 1..Each]

Meant(x, order) ==
  LET take(n, of, q, each) ==
        LET asked == [c \in {Plain(k) : k \in MeantKeys(x, n)} |-> MeantInput(x, n, of, q, each, c[2])]
            found == MeantRowsOf(x, n, of, asked)
            kept == IF found = {} /\ n.outer THEN {0} ELSE found
        IN {Over(of, n.alias :> [asked |-> asked, row |-> i]) : i \in kept}
      step[i \in 0..Len(order)] ==
        IF i = 0 THEN {[of |-> << >>, q |-> q] : q \in [x.fanout -> 1..Each]}
        ELSE UNION {{[of |-> o, q |-> r.q] : o \in UNION {take(NodeOf(x, order[i]), r.of, r.q, e) : e \in EachOf(NodeOf(x, order[i]))}} :
                    r \in step[i - 1]}
      column(of, f) == IF of[f.alias].row = 0 \/ f.col \notin Cols[f.alias] THEN Missing
                       ELSE <<"row", f.alias, f.col, of[f.alias].row>>
  IN {of \in {r.of : r \in step[Len(order)]} : \A f \in x.filters : Meets(f, column(of, f))}

-----------------------------------------------------------------------------

N(alias, verb) == [alias |-> alias, verb |-> verb, params |-> {}, fan |-> {}, tuples |-> {}, body |-> << >>,
                   outer |-> FALSE, on |-> {}]
In(from, as) == [from |-> from, src |-> "id", as |-> as]
To(to, in) == <<[to |-> to, in |-> in, via |-> FALSE, provides |-> {}]>>

As == {N("a", "select"), [N("a", "select") EXCEPT !.params = {"k"}], [N("a", "select") EXCEPT !.fan = {"k"}]}
Bs == UNION {{<<[N("b", "select") EXCEPT !.outer = o, !.on = m], w>> :
               o \in BOOLEAN, m \in {{}, {<<"a", "id">>}}, w \in {<< >>, To("b", {In("a", Plain("k"))})}},
             {<<[N("b", "function") EXCEPT !.outer = o], To("b", {In("a", hidden("a", "id"))})>> : o \in BOOLEAN}}
Cs == LET wired == To("c", {In("b", Plain("k"))})
          shaped == <<[to |-> "c", in |-> {In("a", Plain("x")), In("b", Plain("y"))}, via |-> TRUE, provides |-> {"k"}]>>
          c(v) == N("c", v)
      IN {<<c("select"), To("c", {In("a", Plain("k"))})>>, <<c("select"), wired>>, <<c("select"), shaped>>,
          <<[c("select") EXCEPT !.params = {"k"}], << >>>>, <<[c("select") EXCEPT !.params = {"k"}], wired>>,
          <<[c("select") EXCEPT !.params = {"k"}, !.on = {<<"b", "id">>}, !.outer = TRUE], << >>>>,
          <<[c("select") EXCEPT !.fan = {"k"}], wired>>,
          <<[c("insert") EXCEPT !.body = [k |-> "nil"]], wired>>, <<[c("insert") EXCEPT !.body = [k |-> "const"]], << >>>>,
          <<[c("insert") EXCEPT !.body = [k |-> "nil"], !.tuples = {"k"}], << >>>>, <<c("select"), << >>>>}

Graph(order, wirings, filters, params, fanout) ==
  [nodes |-> order, wirings |-> wirings, filters |-> filters, params |-> params, fanout |-> fanout]
Filters == {{}, {[alias |-> "b", col |-> "id", test |-> "first"]}, {[alias |-> "b", col |-> "id", test |-> "null"]}}

B == N("b", "select")

\* Every graph of the three nodes, declared forwards or backwards; of two of them,
\* with a query-wide fanout nothing runs beside; and graphs that are refused. A query-wide
\* name may be one no node has, one of a node's own, or a column.
AnyGraph(x) ==
  \/ \E a \in As, b \in Bs, c \in Cs, f \in Filters, forward \in BOOLEAN, params \in {{}, {"r"}, {"k"}, {"q"}} :
       x = Graph(IF forward THEN <<a, b[1], c[1]>> ELSE <<c[1], b[1], a>>, b[2] \o c[2], f, params, {})
  \/ \E outer \in BOOLEAN, c \in Cs, f \in Filters, forward \in BOOLEAN, wide \in {"r", "k", "q"} :
       LET b == [B EXCEPT !.outer = outer] IN
       /\ c[1].fan = {} /\ c[1].tuples = {} /\ \A w \in ToSet(c[2]) : \A in \in w.in : in.from = "b"
       /\ x = Graph(IF forward THEN <<b, c[1]>> ELSE <<c[1], b>>, c[2], f, {}, {wide})
  \/ x = Graph(<<N("a", "select"), N("a", "select"), N("b", "select")>>, << >>, {}, {}, {})
  \/ x = Graph(<<N("a", "select"), N("b", "select"), N("c", "select")>>,
               To("b", {In("a", Plain("k"))}) \o To("b", {In("c", Plain("k"))}), {}, {}, {})
  \/ x = Graph(<<N("a", "select"), N("b", "select"), N("c", "select")>>, << >>, {}, {"r"}, {"r"})

Init ==
  /\ AnyGraph(g)
  /\ pc = "graph" /\ at = 0 /\ ix = << >> /\ specs = <<>> /\ betas = <<>> /\ inputs = << >>
  /\ rows = {} /\ asks = {}

Spec == Init /\ [][Next]_vars

----------------------------------------------------------------------------
\* Two ways a node is asked with another value than the statement's. A query-wide fanout's edge
\* comes before the node's own of that name (graph.go:757), though the reference's "own pushdown
\* overlays the query-wide inputs"; and a query-wide value lies in a plain cell of the row, which
\* a column of that name overwrites, though "every node in one run sees the same value".
Shadowed == \E n \in ToSet(g.nodes) :
  g.fanout \cap (n.params \union Consts(n) \union n.fan \union n.tuples \union {c[2] : c \in WiredNames(g, n)}) # {}
Overwritten == \E a \in AliasesOf(g) : (g.params \union g.fanout) \cap Cols[a] # {}

\* The rows a compiled graph returns are the ones its statement means, each node asked with
\* the value of the node the edge names though every node writes a column of that name, with
\* its own value where another reference to the address has another, early filters fabricate
\* no unmatched row, and no node is asked without an input it requires (graph.go:637). Where a
\* query-wide value is Shadowed or Overwritten, all but what the nodes are asked with is.
RowsAsMeant ==
  LET got == {r.of : r \in rows}
      meant == Meant(g, SelectSeq(<<"a", "b", "c">>, LAMBDA a : a \in AliasesOf(g)))
      places(ofs) == {[a \in DOMAIN of |-> of[a].row] : of \in ofs}
  IN pc = "done" => IF Shadowed \/ Overwritten THEN places(got) = places(meant) ELSE got = meant

\* A read nothing is wired to is asked once for each set of inputs, its rows recorded for replay,
\* and so is the first node, which streams (graph.go:1039). The first node is asked again only
\* where another node's list of values runs before it as well.
AskedOnce == pc = "done" => \A s \in ToSet(specs) : s.kind = "read" /\ s.replayed =>
  \/ s.solo /\ \E v \in ToSet(specs) : v.kind = "values" /\ v.alias \notin {s.alias, ""}
  \/ \A x, y \in asks : x[1] = s.alias /\ y[1] = s.alias /\ x[2] = y[2] => x = y

\* Every edge reads a cell its producer writes: what a match condition, a filter or a wiring
\* reads of a node is emitted by it under its own cell (graph.go:637-671).
EdgesAreFed ==
  pc = "run" => \A e \in ToSet(betas), s \in ToSet(specs) : e.from = s.name =>
    IF s.kind \in {"values", "auth"} THEN \A w \in s.writes : e.src \in DOMAIN w
    ELSE e.src \in {hidden(s.alias, k) : k \in s.emits}

\* A graph that is not refused has, for every input of every exchange, an edge or a value the
\* seed row has: plan.Validate refuses none of them.
AcceptedIsComplete ==
  pc = "run" => \A s \in ToSet(specs) : \A c \in s.in :
    (\E e \in ToSet(betas) : e.to = s.name /\ e.tgt = c) \/ c \in DOMAIN inputs

=============================================================================
