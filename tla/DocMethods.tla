----------------------------- MODULE DocMethods -----------------------------
(***************************************************************************)
(* How a stackql document's methods become exchanges: which methods a SQL  *)
(* verb names (document.Verb), which document a method's operation lives   *)
(* in (operationDocument), where its servers, parameters, configuration    *)
(* and paging come from (resolve, parameters, build, pagination), the call *)
(* that completes it (beta), and what a listing says of it (Methods).      *)
(*                                                                         *)
(* A document is a record.  Text (URLs, schemas, transforms) is left out;  *)
(* a pointer is the file, path and HTTP verb it names.  "W" is the service *)
(* document asked; "A" and "B" are documents of the same bundle.           *)
(***************************************************************************)
EXTENDS Naturals, Sequences, FiniteSets, SequencesExt

CONSTANTS SQLVerbs,     \* the SQL verbs asked for
          MaxHops       \* how many $refs a parameter may take (8 in the code)

VARIABLES bundle,       \* the bundle read: file name -> document
          answer        \* what the last question was answered

vars == <<bundle, answer>>

None == "none"
Failed(why) == [ok |-> FALSE, why |-> why]

-----------------------------------------------------------------------------
(* Parameters.                                                             *)

\* A parameter with its $refs followed, or {} when they lead nowhere.
RECURSIVE follow(_, _, _)
follow(d, p, hops) ==
    IF p.ref = "" THEN {p}
    ELSE IF p.ref \notin DOMAIN d.shared \/ hops > MaxHops THEN {}
    ELSE follow(d, d.shared[p.ref], hops + 1)

Slot(p) == <<p.in, p.name>>

\* An operation's parameters: its own, then the path's that it does not redeclare.
parameters(d, path, own) ==
    LET refs == d.paths[path].params
        loose(ps) == \E i \in DOMAIN ps : follow(d, ps[i], 0) = {}
        plain(ps) == [i \in DOMAIN ps |-> CHOOSE p \in follow(d, ps[i], 0) : TRUE]
        declared == {Slot(plain(own)[i]) : i \in DOMAIN own}
        Kept(p) == Slot(p) \notin declared
    IN IF loose(refs) \/ loose(own) THEN Failed("parameter")
       ELSE [ok |-> TRUE, list |-> plain(own) \o SelectSeq(plain(refs), Kept)]

\* What a request of the operation takes: its parameters, without the markers of its identity,
\* and every variable of its server, a path input where nothing else is named so.
requestParams(list, variables) ==
    LET Told(p) == ~p.marker
        given == SelectSeq(list, Told)
        named == {given[i].name : i \in DOMAIN given}
        asPath(v) == [name |-> v, in |-> "path", required |-> FALSE, ref |-> "", marker |-> FALSE]
    IN ToSet(given) \cup {asPath(v) : v \in variables \ named}

\* The body's properties as inputs: required where the method or a required body says so and the
\* method's base does not supply them.
bodyParams(op, m) ==
    LET must == m.required \cup IF op.bodyRequired THEN op.bodyMust ELSE {}
        asBody(n) == [name |-> n, in |-> "body", required |-> n \in must \ m.base, ref |-> "", marker |-> FALSE]
    IN {asBody(n) : n \in op.body}

-----------------------------------------------------------------------------
(* Configuration.                                                          *)

\* Mutant of nearest: the document's word is final.
nearest_Farthest(attr, d, m) ==
    IF attr \in d.config THEN "document"
    ELSE IF attr \in m.config THEN "method"
    ELSE IF attr \in d.resource THEN "resource"
    ELSE None

\* Where an attribute's declaration is taken from: the method, its resource, its document.
nearest(attr, d, m) ==
    IF attr \in m.config THEN "method"
    ELSE IF attr \in d.resource THEN "resource"
    ELSE IF attr \in d.config THEN "document"
    ELSE None

\* The servers of an operation, each the set of its variables: its own, its path's, its document's.
servers(d, op) ==
    IF op.servers # <<>> THEN op.servers
    ELSE IF d.paths[op.path].servers # <<>> THEN d.paths[op.path].servers
    ELSE d.servers

\* How the method's results continue past the first page.
pagination(d, m, op) ==
    LET declared == nearest("pagination", d, m)
        Pages(p) == \/ p.name = "pageToken" /\ p.in = "query" /\ op.nextPageToken
                    \/ p.name \in {"Marker", "NextToken"}
        paged == SelectSeq(op.params, Pages)
    IN IF declared # None THEN declared
       ELSE IF op.pageable THEN "native"
       ELSE IF paged # <<>> THEN Head(paged).name
       ELSE IF op.verb # "get" THEN None
       ELSE IF d.provider \in {"github", "okta"} THEN "Link"
       ELSE "default"

-----------------------------------------------------------------------------
(* Methods.                                                                *)

\* The document owning method n's operation, with d's resources attached to it and n's pointer
\* made local; d itself when the operation is its own.
operationDocument(d, n) ==
    LET m == d.methods[n]
        file == IF m.op.file # "" THEN m.op.file ELSE d.serviceDoc
    IN IF file = "" THEN d
       ELSE [bundle[file] EXCEPT !.serviceDoc = "",
                                 !.resource = d.resource,
                                 !.methods = [d.methods EXCEPT ![n].op.file = ""]]

\* The exchange of a command run locally: no document of its own to look in.
inline(n, m) ==
    [ok |-> TRUE, method |-> n, file |-> None, path |-> None, verb |-> "post",
     params |-> m.params, config |-> {}, paging |-> None,
     beta |-> <<>>, variables |-> {}]

\* The exchange of one operation d owns, before the call that completes it.
build(d, n, op) ==
    LET m == d.methods[n]
        srv == servers(d, op)
        ps == parameters(d, op.path, op.params)
    IN IF srv = <<>> THEN Failed("servers")
       ELSE IF ~ps.ok THEN ps
       ELSE [ok |-> TRUE, method |-> n, file |-> d.file, path |-> op.path, verb |-> op.verb,
             params |-> requestParams(ps.list, srv[1]) \cup bodyParams(op, m),
             config |-> {<<a, nearest(a, d, m)>> : a \in {"translate", "transpose", "retry", "pushdown"}},
             paging |-> pagination(d, m, op), beta |-> <<>>, variables |-> srv[1]]

\* One method of the resource; withBeta follows the call that completes it.
RECURSIVE resolve(_, _, _)
resolve(d, n, withBeta) ==
    IF n \notin DOMAIN d.methods THEN Failed("method")
    ELSE LET m == d.methods[n]
             owner == operationDocument(d, n)
         IN IF m.inline THEN inline(n, m)
            ELSE IF owner # d THEN resolve(owner, n, withBeta)
            ELSE IF m.op.path \notin DOMAIN d.paths
                    \/ m.op.verb \notin DOMAIN d.paths[m.op.path].ops THEN Failed("operation")
            ELSE LET ex == build(d, n, d.paths[m.op.path].ops[m.op.verb])
                     ended == resolve(d, m.beta, FALSE)
                 IN IF ~ex.ok \/ ~withBeta \/ m.beta = None THEN ex
                    ELSE IF ~ended.ok \/ ~m.awaits THEN Failed("beta")
                    ELSE [ex EXCEPT !.beta = <<ended.file, ended.path, ended.verb>>]

\* The names a verb takes when the document maps nothing to it, in order.
defaultMethodKeys(verb) ==
    CASE verb = "select" -> <<"select", "list", "aggregatedList", "get">>
      [] verb = "insert" -> <<"insert", "create">>
      [] verb = "delete" -> <<"delete">>
      [] OTHER -> <<>>

\* The methods a verb names, in the order their signatures are tried.
named(d, verb) ==
    LET Exists(n) == n \in DOMAIN d.methods
        mapped == IF verb \in DOMAIN d.sqlVerbs THEN d.sqlVerbs[verb] ELSE <<>>
    IN IF verb = "exec" THEN mapped \o SetToSortSeq(DOMAIN d.methods, LAMBDA a, b : d.rank[a] < d.rank[b])
       ELSE IF verb \in DOMAIN d.sqlVerbs THEN mapped
       ELSE SelectSeq(defaultMethodKeys(verb), Exists)

\* What a verb resolves to: its methods that can be built, one at least.
Verb(d, verb) ==
    LET each == [i \in DOMAIN named(d, verb) |-> resolve(d, named(d, verb)[i], TRUE)]
        Built(ex) == ex.ok
        built == SelectSeq(each, Built)
    IN IF each = <<>> THEN Failed("verb")
       ELSE IF built = <<>> THEN each[1]
       ELSE [ok |-> TRUE, exchanges |-> built]

\* The verb a listing shows a method under: the first that maps it, else the one that takes
\* its name by default.
listedVerb(d, n) ==
    LET order == <<"select", "insert", "delete", "update", "replace", "exec">>
        Maps(v) == v \in DOMAIN d.sqlVerbs /\ n \in ToSet(d.sqlVerbs[v])
        Defaults(v) == n \in ToSet(defaultMethodKeys(v))
        by == SelectSeq(order, Maps) \o SelectSeq(SubSeq(order, 1, 3), Defaults)
    IN IF by = <<>> THEN None ELSE Head(by)

\* The prefix an input is published with.
published(p) == IF p.in = "body" THEN "data__" ELSE ""

\* The inputs a listing says a method needs.
required(ex) ==
    LET needed == {p \in ex.params : p.required /\ p.name \notin ex.variables}
    IN {<<"", v>> : v \in ex.variables} \cup {<<published(p), p.name>> : p \in needed}

\* A resource's methods, one line each, whether or not they can be built.
Methods(d) ==
    [n \in DOMAIN d.methods |->
        LET ex == resolve(d, n, FALSE)
        IN [verb |-> listedVerb(d, n), required |-> IF ex.ok THEN required(ex) ELSE {}]]

-----------------------------------------------------------------------------

\* A verb of the service document's resource is asked for.
AskVerb(v) == answer.ask = "nothing" /\ answer' = [ask |-> "verb", verb |-> v, got |-> Verb(bundle["W"], v)]
              /\ UNCHANGED bundle

\* Its methods are listed.
AskMethods == answer.ask = "nothing" /\ answer' = [ask |-> "methods", got |-> Methods(bundle["W"])]
              /\ UNCHANGED bundle

Next == (\E v \in SQLVerbs : AskVerb(v)) \/ AskMethods

-----------------------------------------------------------------------------
(* Properties.                                                             *)

W == bundle["W"]

\* The exchanges the last verb resolved to.
Answered == IF answer.ask = "verb" THEN IF answer.got.ok THEN ToSet(answer.got.exchanges) ELSE {} ELSE {}

\* The document, among the bundle's, that owns method n's operation.
Owner(n) ==
    LET m == W.methods[n]
    IN IF m.op.file # "" THEN m.op.file ELSE IF W.serviceDoc # "" THEN W.serviceDoc ELSE "W"

\* Every exchange is the operation its method points at, in the document the pointer names: a
\* method reached through another document is not looked for in a third (operationDocument).
ResolvedWhereItPoints ==
    \A ex \in Answered :
        LET m == W.methods[ex.method]
        IN ~m.inline => /\ ex.file = Owner(ex.method)
                        /\ ex.path = m.op.path /\ ex.verb = m.op.verb

\* An exchange takes every input its operation and its path declare, as OpenAPI reads them: one
\* declaration for each name and place, the operation's where both have one.  A shared declaration
\* that leads nowhere is never an omission (parameters).
NoInputIsLost ==
    \A ex \in Answered : ex.file # None =>
        LET d == bundle[ex.file]
            op == d.paths[ex.path].ops[ex.verb]
            seen(ps) == UNION {follow(d, ps[i], 0) : i \in DOMAIN ps}
            own == seen(op.params)
            inherited == {p \in seen(d.paths[ex.path].params) : \A q \in own : Slot(q) # Slot(p)}
        IN /\ {p \in own \cup inherited : ~p.marker} \subseteq ex.params
           /\ {p \in ex.params : p.name \notin ex.variables /\ p.in # "body"} \subseteq own \cup inherited
           /\ \A i \in DOMAIN op.params : follow(d, op.params[i], 0) # {}

\* A method that declares the call completing it is never resolved without it: it would read as
\* finished the moment it answers (resolve).  A command run locally answers when it is done.
NeverFinishedEarly ==
    \A ex \in Answered :
        LET m == W.methods[ex.method]
        IN ~m.inline => (ex.beta # <<>> <=> m.beta # None)

\* Nothing a document does not say pages a request that has an effect: repeated for a next page,
\* it would repeat the effect (pagination).
EffectsAreNotPaged ==
    \A ex \in Answered : ex.verb # "get" => ex.paging \notin {"Link", "default"}

\* The nearest declaration is the one that counts, for every setting a document may make at three
\* levels: no setting of the method is overridden by one above it (resolve).
NearestDeclarationCounts ==
    \A ex \in Answered : ex.file # None =>
        LET m == W.methods[ex.method]
        IN /\ \A c \in ex.config : /\ c[1] \in m.config => c[2] = "method"
                                   /\ c[2] = "document" => c[1] \notin W.resource
                                   /\ c[2] = None => c[1] \notin bundle[ex.file].config
           /\ "pagination" \in m.config => ex.paging = "method"

\* A verb names every method it can build: one broken pointer hides no other method, and a verb
\* the document maps to nothing answers nothing (Verb).
NoMethodIsHidden ==
    answer.ask = "verb" =>
        LET v == answer.verb
            meant == IF v \in DOMAIN W.sqlVerbs THEN ToSet(W.sqlVerbs[v])
                     ELSE ToSet(defaultMethodKeys(v)) \cap DOMAIN W.methods
            could == {n \in meant \cap DOMAIN W.methods : resolve(W, n, TRUE).ok}
        IN v # "exec" => {ex.method : ex \in Answered} = could

\* What a listing says a method needs is enough to ask it: every variable of its server, every
\* input its request requires and every field its body must hold that its base does not (Methods).
ListingIsEnough ==
    answer.ask = "methods" =>
        \A n \in DOMAIN W.methods :
            LET ex == resolve(W, n, TRUE)
                told == answer.got[n].required
                op == bundle[ex.file].paths[ex.path].ops[ex.verb]
            IN (ex.ok /\ ~W.methods[n].inline) =>
                  /\ \A v \in ex.variables : <<"", v>> \in told
                  /\ \A p \in ex.params : (p.required /\ p.in # "body") => <<"", p.name>> \in told
                  /\ op.bodyRequired =>
                        \A f \in (op.body \cap op.bodyMust) \ (W.methods[n].base \cup ex.variables) : <<"data__", f>> \in told

-----------------------------------------------------------------------------
\* Bundles for TLC: each family varies one part of a document and keeps the rest plain.

param(n, in, req) == [name |-> n, in |-> in, required |-> req, ref |-> "", marker |-> FALSE]
refTo(c) == [name |-> "", in |-> "", required |-> FALSE, ref |-> c, marker |-> FALSE]
marker == [name |-> "Action", in |-> "query", required |-> TRUE, ref |-> "", marker |-> TRUE]

op(path, verb) == [path |-> path, verb |-> verb, servers |-> <<>>, params |-> <<>>,
                   pageable |-> FALSE, nextPageToken |-> FALSE,
                   body |-> {}, bodyMust |-> {}, bodyRequired |-> FALSE]
pathItem(path) == [params |-> <<>>, servers |-> <<>>, ops |-> [v \in {"get", "post"} |-> op(path, v)]]
at(file, path, verb) == [file |-> file, path |-> path, verb |-> verb]
method(ref) == [inline |-> FALSE, params |-> {}, op |-> ref, config |-> {}, beta |-> None, awaits |-> TRUE,
                required |-> {}, base |-> {}]
command == [method(at("", "p", "get")) EXCEPT !.inline = TRUE, !.params = {param("a", "query", TRUE)}]

document(file) ==
    [file |-> file, serviceDoc |-> "", resource |-> {}, config |-> {}, provider |-> "aws",
     servers |-> <<{}>>, shared |-> << >>, sqlVerbs |-> [v \in {"select"} |-> <<"get">>],
     rank |-> [n \in {"create", "get", "insert", "list", "other"} |->
                 CASE n = "create" -> 1 [] n = "get" -> 2 [] n = "insert" -> 3 [] n = "list" -> 4 [] OTHER -> 5],
     paths |-> [p \in {"p", "q"} |-> pathItem(p)],
     methods |-> [n \in {"get"} |-> method(at("", "p", "get"))]]

\* "A" has a serviceDoc of its own, which nothing pointing into it follows; "B" lacks path "q".
others == [A |-> [document("A") EXCEPT !.serviceDoc = "B", !.config = {"retry"}],
           B |-> [document("B") EXCEPT !.paths = [p \in {"p"} |-> pathItem(p)]]]
bundleOf(w) == [W |-> w, A |-> others.A, B |-> others.B]

\* Which methods a verb names: names, mappings and broken pointers.
Broken == method(at("", "nowhere", "get"))
Verbs ==
    \E ms \in [{"get", "list", "insert", "other"} -> {method(at("", "p", "get")), Broken, command}],
       vs \in {<<>>, [v \in {"select"} |-> <<>>], [v \in {"select"} |-> <<"list">>],
               [v \in {"insert"} |-> <<"other", "insert">>],
               [v \in {"select", "delete"} |-> IF v = "select" THEN <<"get", "other">> ELSE <<"other">>],
               [v \in {"exec"} |-> <<"other", "absent">>]} :
        bundle = bundleOf([document("W") EXCEPT !.methods = ms, !.sqlVerbs = vs])

\* Which document an operation, and the call completing it, live in.
Refs == {at(f, p, v) : f \in {"", "A", "B"}, p \in {"p", "q"}, v \in {"get", "post"}}
Documents ==
    \E s \in {"", "A", "B"}, r \in Refs, r2 \in Refs, b \in {None, "other", "absent"}, a \in BOOLEAN :
        bundle = bundleOf([document("W") EXCEPT !.serviceDoc = s,
                    !.methods = [n \in {"get", "other"} |->
                        IF n = "get" THEN [method(r) EXCEPT !.beta = b, !.awaits = a] ELSE method(r2)]])

\* Settings at three levels.
Settings ==
    \E m \in SUBSET {"retry", "pagination", "pushdown"}, r \in SUBSET {"retry", "pagination", "translate"},
       d \in SUBSET {"retry", "pagination", "transpose"} :
        bundle = bundleOf([document("W") EXCEPT !.resource = r, !.config = d,
                    !.methods = [n \in {"get"} |-> [method(at("", "p", "get")) EXCEPT !.config = m]]])

\* Paging, for reads and for effects.
Paging ==
    \E pr \in {"aws", "okta"}, c \in {{}, {"pagination"}}, v \in {"get", "post"}, g \in BOOLEAN, k \in BOOLEAN,
       ps \in {<<>>, <<param("pageToken", "query", FALSE)>>, <<param("pageToken", "header", FALSE)>>,
               <<marker, param("Marker", "query", FALSE)>>} :
        bundle = bundleOf([document("W") EXCEPT !.provider = pr, !.config = c,
                    !.methods = [n \in {"get"} |-> method(at("", "p", v))],
                    !.paths = [p \in {"p"} |-> [pathItem("p") EXCEPT !.ops = [x \in {v} |->
                        [op("p", v) EXCEPT !.pageable = g, !.nextPageToken = k, !.params = ps]]]]])

\* Parameters, shared declarations and server variables.
Shared == [c1 |-> param("a", "path", TRUE), c2 |-> refTo("c1"), loop |-> refTo("loop")]
Some == {param("a", "query", TRUE), param("a", "path", FALSE), param("v", "path", TRUE),
         refTo("c2"), refTo("loop"), refTo("c0"), marker}
Short == {<<>>} \cup {<<x>> : x \in Some}
Lists == Short \cup {<<x, y>> : x, y \in Some}
Parameters ==
    \E s \in {<<>>, <<{"v"}>>}, ss \in {<<>>, <<{"v", "w"}>>}, shared \in Short, own \in Lists :
        bundle = bundleOf([document("W") EXCEPT !.shared = Shared, !.servers = s,
                    !.paths = [p \in {"p"} |-> [pathItem("p") EXCEPT !.params = shared, !.servers = ss,
                        !.ops = [x \in {"get"} |-> [op("p", "get") EXCEPT !.params = own]]]]])

\* Fields of a body.
Bodies ==
    \E must \in SUBSET {"a", "b", "v"}, req \in SUBSET {"a", "c"}, base \in SUBSET {"a", "b"}, whole \in BOOLEAN :
        bundle = bundleOf([document("W") EXCEPT !.servers = <<{"v"}>>,
                    !.methods = [n \in {"get"} |-> [method(at("", "p", "post")) EXCEPT !.required = req, !.base = base]],
                    !.paths["p"].ops["post"] = [op("p", "post") EXCEPT !.params = <<param("a", "query", TRUE)>>,
                        !.body = {"a", "b", "v"}, !.bodyMust = must, !.bodyRequired = whole]])

Init == /\ answer = [ask |-> "nothing"]
        /\ Verbs \/ Documents \/ Settings \/ Paging \/ Parameters \/ Bodies

Spec == Init /\ [][Next]_vars
=============================================================================
