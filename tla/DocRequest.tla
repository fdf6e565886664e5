----------------------------- MODULE DocRequest -----------------------------
(***************************************************************************)
(* How a document's operation becomes a request (docx.compile, PlanFor):   *)
(* each name is placed where the document, or failing it the caller, says  *)
(* it belongs, and bound so that a value reaches it; the body is put       *)
(* together from up to six sources; the request is changed and signed.     *)
(* A template is its name; a literal is written Lit.                       *)
(***************************************************************************)
EXTENDS Naturals, Sequences, FiniteSets, TLC

CONSTANTS Declared,      \* for each name, the places a document may declare it
          Given,         \* for each name, how the caller may give it
          Requests,      \* the rest of the operation: body media, base body, fixed parameters...
          Security       \* schemes, credentials and overrides

VARIABLES doc,           \* the operation: params, a set of [n, in, req, def], and a request
          opt,           \* for each name, how it is given
          sec,           \* scheme declared by operation and provider, credentials held, overrides
          req,           \* the compiled request
          wire           \* what was sent

vars == <<doc, opt, sec, req, wire>>

Names == DOMAIN Given
Lit == "literal"
None == [query |-> <<>>, headers |-> <<>>, params |-> <<>>, hasParams |-> FALSE, raw |-> FALSE, from |-> "none",
         bindings |-> {}, auth |-> FALSE, err |-> FALSE, ready |-> FALSE]

how(k) == {n \in Names : opt[n] = k}
supplied == how("input")
bound == how("bound")
provided == how("provided")
bodyFields == how("field")
slots == how("slot")                 \* a query slot's wire name; its value is bound under Slot(n)
Slot(n) == "slot_" \o n

params == doc.params
scoped == {p.n : p \in {x \in params : x.in # "body"}}
takesBody == doc.media # "none"

----------------------------------------------------------------------------
(* Placement of the declared parameters. *)

\* A name declared in the body and elsewhere is the one elsewhere, unless the caller writes a body field.
skips(p) == \/ p.in = "body" /\ p.n \in scoped /\ p.n \notin bodyFields
            \/ p.n \in bodyFields /\ p.in # "body"

given(n) == n \in supplied \cup bound \cup provided
byDefault(p) == ~given(p.n) /\ p.in = "header" /\ p.def
absent(p) == ~given(p.n) /\ ~p.req                         \* an optional nobody supplied is absent, not empty
placeable == {p \in params : ~skips(p) /\ ~byDefault(p) /\ ~absent(p)}
defaulted == {p \in params : ~skips(p) /\ byDefault(p)}
placed == {p.n : p \in placeable \cup defaulted}
listed(p) == p.list /\ doc.fixed                           \* the Query protocol numbers a list's members
At(place) == {p \in placeable : p.in = place}

----------------------------------------------------------------------------
(* The body's fields, bindings and the names nothing declares. *)

bindings ==
    (doc.inputs \cup ({p.n : p \in placeable} \ provided) \cup bodyFields \cup bound)
    \cup {Slot(n) : n \in slots} \cup how("inbox") \cup (doc.url \cap supplied)

undeclared == (provided \cup bound) \ placed
bodyNames == {p.n : p \in At("body")} \cup (bodyFields \ placed) \cup (bodyFields \cap {p.n : p \in At("body")})
slotInBody(n) == \E p \in params : p.n = n /\ p.in = "body"

fixedParams == IF doc.fixed THEN "Action" :> Lit ELSE <<>>
fields == [n \in bodyNames |-> n] @@ fixedParams

\* The document's base fills in what was not given.
baseBody(f) == f @@ ("base" :> Lit) @@ ("a" :> Lit)

\* Whole, from the caller; else fields; else the fallback; then the base; then the slots that belong here.
body ==
    LET f == fields
        some == DOMAIN f # {}
        whole == doc.sent /\ takesBody
        start == CASE whole -> [from |-> "caller", f |-> <<>>]
                   [] ~whole /\ ~some /\ doc.fallback -> [from |-> "fallback", f |-> <<>>]
                   [] ~whole /\ ~(~some /\ doc.fallback) /\ doc.base /\ ~some -> [from |-> "base", f |-> <<>>]
                   [] ~whole /\ some /\ doc.base /\ doc.media = "json" -> [from |-> "fields", f |-> baseBody(f)]
                   [] OTHER -> [from |-> IF some THEN "fields" ELSE "none", f |-> f]
        ctl == {n \in slots : slotInBody(n)}
    IN  IF ctl = {} THEN start
        ELSE [from |-> IF start.from = "none" THEN "fields" ELSE start.from,
              f |-> [n \in ctl |-> Slot(n)] @@ start.f]

----------------------------------------------------------------------------
(* Security. *)

effectiveSecurity == IF sec.operation # "none" THEN sec.operation ELSE sec.provider

\* A declared scheme with no way to satisfy it is an error.
satisfied == sec.noSign \/ sec.signer \/ effectiveSecurity = "none" \/ effectiveSecurity \in sec.creds
tokened == ~sec.noSign /\ effectiveSecurity \in {"service_account", "oauth"} \cap sec.creds
signed == ~sec.noSign /\ (sec.signer \/ effectiveSecurity = "sigv4")
regional == ~sec.noSign /\ ~sec.signer /\ effectiveSecurity = "sigv4"

----------------------------------------------------------------------------
Init ==
    /\ opt \in [Names -> {"none", "input", "bound", "provided", "field", "slot", "inbox"}]
    /\ \A n \in Names : opt[n] \in Given[n]
    /\ \E ds \in [Names -> UNION {Declared[n] : n \in Names}], r \in Requests :
         /\ \A n \in Names : ds[n] \in Declared[n]
         /\ doc = [params |-> UNION {ds[n] : n \in Names}] @@ r
    /\ sec \in Security
    /\ req = None /\ wire = <<>>

nowhere == \E n \in bodyFields : n \notin placed /\ ~takesBody     \* "takes no request body"

Compile ==
    /\ ~req.ready
    /\ LET b == body
           q == [n \in {p.n : p \in {x \in At("query") : ~listed(x)}} |-> n]
                @@ [w \in {p.n \o ".1" : p \in {x \in At("query") : listed(x)}} |-> CHOOSE n \in Names : w = n \o ".1"]
                @@ [n \in undeclared |-> n]
           h == [n \in {p.n : p \in At("header")} |-> n] @@ [n \in {p.n : p \in defaulted} |-> Lit]
       IN  req' = [query |-> [n \in {x \in slots : ~slotInBody(x)} |-> Slot(n)] @@ q,
                   headers |-> IF tokened THEN ("Authorization" :> "token") @@ h ELSE h,
                   params |-> b.f, hasParams |-> DOMAIN b.f # {}, raw |-> b.from \notin {"fields", "none"},
                   from |-> b.from,
                   bindings |-> bindings \cup (IF tokened THEN {"token"} ELSE {})
                                         \cup (IF regional THEN {"region"} ELSE {}),
                   auth |-> tokened, err |-> nowhere \/ ~satisfied, ready |-> TRUE]
    /\ UNCHANGED <<doc, opt, sec, wire>>

\* What the row carries when the call is made: what the caller supplied, what producers deliver, the
\* region, and the token of the exchange that ran first.
onRow == supplied \cup bound \cup bodyFields \cup how("inbox") \cup {Slot(n) : n \in slots} \cup {"region"}
         \cup (IF req.auth THEN {"token"} ELSE {})

\* PlanFor refuses a required input or parameter that is not in the inputs; Validate, a plan with an
\* input of an exchange that neither an input nor an edge supplies.
required == doc.inputs \cup {p.n : p \in {x \in params : x.req}}
inputs == supplied \cup bodyFields \cup {"region"}
refused == (doc.alone /\ ~(required \subseteq inputs)) \/ ~(req.bindings \subseteq onRow)

value(t) == IF t = Lit THEN Lit ELSE IF t \in provided \cup req.bindings THEN "value" ELSE "empty"

\* What changes a request on its way out.
stages == <<"shape", "program", "translate", "sign">>

\* How many changes the request had seen when it was signed, and when it was sent.
changes(upTo) == Cardinality({i \in 1 .. upTo : stages[i] # "sign"})
SignedAt == changes(CHOOSE i \in 1 .. Len(stages) : stages[i] = "sign")

Send ==
    /\ req.ready /\ ~req.err /\ ~refused /\ wire = <<>>
    /\ wire' = [query |-> [n \in DOMAIN req.query |-> value(req.query[n])],
                headers |-> [n \in DOMAIN req.headers |-> value(req.headers[n])],
                body |-> [n \in DOMAIN req.params |-> value(req.params[n])],
                path |-> [n \in doc.url |-> value(n)],
                signed |-> IF signed THEN SignedAt ELSE 0, sent |-> changes(Len(stages))]
    /\ UNCHANGED <<doc, opt, sec, req>>

Next == Compile \/ Send
Spec == Init /\ [][Next]_vars

----------------------------------------------------------------------------
Sent == wire # <<>>
declaredAt(n) == {p.in : p \in {x \in params : x.n = n}}
elsewhere(n) == declaredAt(n) \ {"body"}

\* Where a name the caller gave belongs: a body field in the body; else where the document declares
\* it, the body last; else, for one bound or built, the query.  One not given is sent where it is required.
Belongs(n) ==
    CASE opt[n] = "field" -> {"body"}
      [] opt[n] \in {"input", "bound", "provided"} /\ elsewhere(n) # {} -> elsewhere(n)
      [] opt[n] \in {"input", "bound", "provided"} /\ elsewhere(n) = {} /\ declaredAt(n) # {} -> {"body"}
      [] opt[n] \in {"bound", "provided"} /\ declaredAt(n) = {} -> {"query"}
      [] OTHER -> {p.in : p \in {x \in params : x.n = n /\ x.req}}

Under(n, f) == {w \in DOMAIN f : f[w] = n}
Places(n) == (IF Under(n, req.query) # {} THEN {"query"} ELSE {})
             \cup (IF Under(n, req.headers) # {} THEN {"header"} ELSE {})
             \cup (IF Under(n, req.params) # {} THEN {"body"} ELSE {})

\* Whatever the document declares and however a name is given, it is sent where it belongs and nowhere
\* else, whatever defaults the document has (compile's placement).  A path's name is in the URL already; a body sent whole displaces fields.
PlacedWhereItBelongs ==
    Sent => \A n \in Names :
        LET want == Belongs(n) \ {"path"}
            free == IF req.raw THEN {"body"} ELSE {}
        IN  Places(n) \ free = want \ free

\* No template goes out empty: every name on the wire was bound and given, or built by the inbound
\* transform (compile's bindings, PlanFor's checks).
NothingGoesOutEmpty ==
    Sent => /\ \A n \in DOMAIN wire.query : wire.query[n] # "empty"
            /\ \A n \in DOMAIN wire.headers : wire.headers[n] # "empty"
            /\ \A n \in DOMAIN wire.body : wire.body[n] # "empty"
            /\ \A n \in {p.n : p \in {x \in params : x.in = "path" /\ x.req}} \cap doc.url : wire.path[n] # "empty"

\* A call whose document declares a scheme goes out with it: with a token that is bound, or signed over
\* exactly the request that is sent (compile's security, the order of the request's transforms).
SentAsDeclared ==
    Sent /\ ~sec.noSign /\ ~sec.signer =>
        CASE effectiveSecurity = "sigv4" -> wire.signed = wire.sent /\ "region" \in req.bindings
          [] effectiveSecurity \in {"service_account", "oauth"} ->
                "Authorization" \in DOMAIN wire.headers /\ wire.headers["Authorization"] = "value"
          [] OTHER -> TRUE
=============================================================================
