----------------------------- MODULE DocEffect -----------------------------
(***************************************************************************)
(* One object changed and read through a provider document: the call the   *)
(* document describes (docx), the long-running operation its beta follows  *)
(* (beta.go), the row that comes back and what the callers make of it      *)
(* (docrun, and the durable records of a graph run).  A value is a scalar  *)
(* [s |-> ..], an object [o |-> ..] or a list [l |-> ..].                  *)
(***************************************************************************)
EXTENDS Naturals, Sequences, TLC

CONSTANTS Objects,       \* what may be created: the fields of an object, its id among them
          Wraps,         \* how a read answers: "flat", or "listed" in the list every reply shares
          Betas,         \* whether the document says the operation is unfinished when it answers
          MaxAttempts,   \* bound: polls of a followed call
          MaxCalls       \* bound: calls made

VARIABLES remote,        \* the provider's object, or NoObject
          lro,           \* its long-running operation: none, running, done or error
          making,        \* what that operation will leave behind
          beta, wrap,    \* what the document says
          call,          \* the call under way
          intent,        \* the ledger's entry: none, pending, withdrawn or resolved
          ident,         \* the identity recorded
          actual,        \* what the last read reported, and the object it was about
          calls

vars == <<remote, lro, making, beta, wrap, call, intent, ident, actual, calls>>

S(x) == [s |-> x]
O(f) == [o |-> f]
L(q) == [l |-> q]
isObject(v) == DOMAIN v = {"o"}
isList(v) == DOMAIN v = {"l"}
NoDoc == <<>>
NoObject == NoDoc
Override(f, g) == [n \in DOMAIN f \cup DOMAIN g |-> IF n \in DOMAIN g THEN g[n] ELSE f[n]]
Without(f, names) == [n \in DOMAIN f \ names |-> f[n]]

MetadataKey == "_response"
Identity == "id"         \* the residue's identity and addressedBy
Region == "region"       \* the run's scope

----------------------------------------------------------------------------
(* The row of a call. *)

\* What the call reported about itself beside what it returned; the body wins a clash.
withMetadata(body) == Override((MetadataKey :> O("status" :> S("200"))), body)

\* The row: the plan's inputs, the request's scope and the response, each over the one before.
row(inputs, doc) == Override(inputs, doc)

\* The inputs a plan carries on its row are not the target's state.
run(inputs, doc) == Without(row(inputs, doc), DOMAIN inputs)

\* The object's own state: what the one-element list holds, with the metadata.  Go's map order decides
\* between several such lists.
actualOf(r) ==
    LET rows == {n \in DOMAIN r : isList(r[n]) /\ Len(r[n].l) = 1 /\ isObject(r[n].l[1])}
    IN  IF rows = {} THEN {r}
        ELSE {Override(r[n].l[1].o, [k \in {MetadataKey} \cap DOMAIN r |-> r[k]]) : n \in rows}

\* A one-step path into a row: a list of one is stepped through.
at(r, name) ==
    IF name \notin DOMAIN r THEN [ok |-> FALSE]
    ELSE LET v == IF isList(r[name]) /\ Len(r[name].l) = 1 THEN r[name].l[1] ELSE r[name]
         IN  [ok |-> TRUE, v |-> v]

----------------------------------------------------------------------------
(* Calls. *)

Idle == [verb |-> "none", phase |-> "idle", tries |-> 0, inputs |-> NoDoc, doc |-> NoDoc, status |-> 0,
         cause |-> "none"]

Init ==
    /\ remote = NoObject /\ lro = "none" /\ making = NoObject
    /\ beta \in Betas /\ wrap \in Wraps
    /\ call = Idle /\ intent = "none" /\ ident = "" /\ actual = {} /\ calls = 0

\* The identity recorded addresses the object; the region is scope.
inputs == IF ident = "" THEN Region :> S("r") ELSE (Region :> S("r")) @@ (Identity :> S(ident))

Begin(verb) ==
    /\ call.phase = "idle" /\ calls < MaxCalls
    /\ CASE verb = "insert" -> intent \in {"none", "withdrawn"}
         [] verb = "delete" -> intent = "resolved" /\ ident # ""
         [] OTHER -> ident # ""                         \* an unknown identity is not readable
    /\ call' = [Idle EXCEPT !.verb = verb, !.phase = "sent", !.inputs = inputs]
    /\ intent' = IF verb = "insert" THEN "pending" ELSE intent
    /\ calls' = calls + 1 /\ actual' = {}
    /\ UNCHANGED <<remote, lro, making, beta, wrap, ident>>

\* The provider's answer to a mutation: accepted, refused, or lost with or without effect.
Made(verb, o) == IF verb = "insert" THEN o ELSE NoObject

Accept(o) ==
    /\ call.phase = "sent" /\ call.verb # "select"
    /\ call.verb = "insert" \/ o = remote
    /\ IF beta
       THEN /\ lro' = "running" /\ making' = Made(call.verb, o) /\ UNCHANGED remote
            /\ \E told \in BOOLEAN :
                 call' = [call EXCEPT !.phase = "await", !.doc = IF told THEN "op" :> S("op") ELSE NoDoc]
       ELSE /\ remote' = Made(call.verb, o) /\ UNCHANGED <<lro, making>>
            /\ call' = [call EXCEPT !.phase = "row", !.doc = IF call.verb = "insert" THEN o ELSE NoDoc]
    /\ UNCHANGED <<beta, wrap, intent, ident, actual, calls>>

Refuse ==
    /\ call.phase = "sent"
    /\ call' = [call EXCEPT !.phase = "error", !.status = 400]
    /\ UNCHANGED <<remote, lro, making, beta, wrap, intent, ident, actual, calls>>

Lose(o) ==
    /\ call.phase = "sent" /\ call.verb # "select"
    /\ call.verb = "insert" \/ o = remote
    /\ \E applied \in BOOLEAN, status \in {0, 500} :
         /\ remote' = IF applied THEN Made(call.verb, o) ELSE remote
         /\ call' = [call EXCEPT !.phase = "error", !.status = status]
    /\ UNCHANGED <<lro, making, beta, wrap, intent, ident, actual, calls>>

\* The operation ends in its own time, whether or not anyone is asking.
Mature(how) ==
    /\ lro = "running"
    /\ lro' = how
    /\ remote' = IF how = "done" THEN making ELSE remote
    /\ UNCHANGED <<making, beta, wrap, call, intent, ident, actual, calls>>

----------------------------------------------------------------------------
(* Following the operation. *)

\* What is known when the followed call did not report done: the cause is written out, never wrapped.
awaitUnknown(status) == [phase |-> "error", status |-> 0, cause |-> "ErrAwaitUnknown"]

\* The final answer: an error at the error path ends it.
awaitDone(final, failed) ==
    IF failed THEN [phase |-> "error", status |-> 0, cause |-> "ErrAwaitFailed"]
    ELSE [phase |-> "row", status |-> 0, cause |-> "none"]

Became(r, doc) == call' = [call EXCEPT !.phase = r.phase, !.status = r.status, !.cause = r.cause, !.doc = doc]

\* One poll: the operation's state, a refusal, or nothing.
Poll ==
    /\ call.phase = "await" /\ DOMAIN call.doc # {} /\ call.tries < MaxAttempts
    /\ \/ /\ lro = "running"
          /\ call' = [call EXCEPT !.tries = @ + 1]
       \/ /\ lro \in {"done", "error"}
          /\ LET final == [n \in {"status"} |-> S("DONE")]
                 about == IF call.verb = "insert" THEN final @@ making ELSE final
             IN  Became(awaitDone(about, lro = "error"), Override(call.doc, about))
       \/ \E status \in {0, 404, 500} : Became(awaitUnknown(status), call.doc)
    /\ UNCHANGED <<remote, lro, making, beta, wrap, intent, ident, actual, calls>>

\* Out of attempts, or the answer lacks the field the followed call is bound with.
GiveUp ==
    /\ call.phase = "await" /\ (call.tries = MaxAttempts \/ DOMAIN call.doc = {})
    /\ Became(awaitUnknown(0), call.doc)
    /\ UNCHANGED <<remote, lro, making, beta, wrap, intent, ident, actual, calls>>

----------------------------------------------------------------------------
(* What the callers make of it. *)

\* A 4xx is the provider refusing, so it did not take effect; anything else says nothing either way.
outcome(status) == IF status >= 400 /\ status < 500 THEN "rejected" ELSE "unknown"

\* The intent of a refused create is withdrawn, so that it does not read as possibly applied.
Fail ==
    /\ call.phase = "error"
    /\ intent' = IF outcome(call.status) = "rejected" /\ call.verb = "insert" THEN "withdrawn" ELSE intent
    /\ call' = [Idle EXCEPT !.verb = call.verb]
    /\ UNCHANGED <<remote, lro, making, beta, wrap, ident, actual, calls>>

\* A create's identity is read off the row; one without it fails, and its intent stays pending.
Commit ==
    /\ call.phase = "row"
    /\ LET id == at(run(call.inputs, withMetadata(call.doc)), Identity)
       IN  IF call.verb = "insert" /\ ~id.ok
           THEN UNCHANGED <<intent, ident>>
           ELSE /\ ident' = IF call.verb = "insert" THEN id.v.s ELSE ""
                /\ intent' = IF call.verb = "insert" THEN "resolved" ELSE "none"
    /\ call' = [Idle EXCEPT !.verb = call.verb]
    /\ UNCHANGED <<remote, lro, making, beta, wrap, actual, calls>>

\* A read of one object; an absent one is refused.
Read ==
    /\ call.phase = "sent" /\ call.verb = "select" /\ remote # NoObject
    /\ LET body == IF wrap = "flat" THEN remote ELSE "line_items" :> L(<<O(remote)>>)
       IN  actual' = {[seen |-> a, of |-> remote, echoed |-> DOMAIN call.inputs] :
                         a \in actualOf(run(call.inputs, withMetadata(body)))}
    /\ call' = [Idle EXCEPT !.verb = call.verb]
    /\ UNCHANGED <<remote, lro, making, beta, wrap, intent, ident, calls>>

Next ==
    \/ \E verb \in {"insert", "delete", "select"} : Begin(verb)
    \/ \E o \in Objects : Accept(o) \/ Lose(o)
    \/ Refuse \/ Poll \/ GiveUp \/ Fail \/ Commit \/ Read
    \/ \E how \in {"done", "error"} : Mature(how)

Spec == Init /\ [][Next]_vars

----------------------------------------------------------------------------
\* A create whose intent was withdrawn made nothing and never will: no operation is left running, and
\* no object exists (durableRecords.Next, effectRecords.Err, awaitedOp.await).
WithdrawnMadeNothing == intent = "withdrawn" => remote = NoObject /\ lro # "running"

\* A create that was reported is there, under the identity recorded for it; and one that ended in an
\* error is not (awaitedOp.await, docrun's Effect).
ResolvedExists ==
    intent = "resolved" /\ call.phase = "idle" /\ call.verb = "insert" =>
        remote # NoObject /\ remote[Identity] = S(ident)

\* A flat reply that itself holds a list of one object is taken for the envelope (docrun.go:412).
Unwrapped(o) == \E n \in DOMAIN o : isList(o[n]) /\ Len(o[n].l) = 1 /\ isObject(o[n].l[1])

\* A read reports the object's own fields as the provider holds them, whatever was sent to ask for it
\* (docrun's Read, run and actualOf; docrun.go:404), but for a flat one that is Unwrapped.
ActualIsTheObject ==
    \A a \in actual :
        LET own == Without(a.of, a.echoed)
        IN  ~(wrap = "flat" /\ Unwrapped(own)) =>
                Without(a.seen, {MetadataKey} \cup a.echoed) = own /\ (DOMAIN a.seen) \cap {Region} = {}

-----------------------------------------------------------------------------
\* Objects with scalar fields, and with lists among them.

Plain == ("id" :> S("i1")) @@ ("size" :> S("1"))
Other == ("id" :> S("i2")) @@ ("size" :> S("2"))
Tagged == ("id" :> S("i1")) @@ ("tags" :> L(<<S("t")>>)) @@ ("disks" :> L(<<O("n" :> S("1")), O("n" :> S("2"))>>))

Disked == ("id" :> S("i1")) @@ ("disks" :> L(<<O("n" :> S("1"))>>))

MCObjects == {Plain, Other, Tagged, Disked}
=============================================================================
