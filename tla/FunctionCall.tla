---------------------------- MODULE FunctionCall ----------------------------
(***************************************************************************)
(* A call of a Postgres function (pkg/sqlfn/pg_resolve.go, pg_call.go):    *)
(* the arguments' types choose one overload of the name, every argument    *)
(* is read or cast to the type that overload takes, and only then does a   *)
(* NULL decide a strict function's result.                                 *)
(*                                                                         *)
(* A value is its type and, where it is text, the text.  An untyped        *)
(* literal and NULL both have the type "unknown".                          *)
(***************************************************************************)
EXTENDS Integers, FiniteSets, SequencesExt

CONSTANTS
    Procs,          \* name -> the sequence of its overloads
    Implemented,    \* the overloads with an implementation: <<name, args>>
    Category,       \* type -> its category and whether it is preferred in it
    ImplicitCasts,  \* <<from, to>>
    Element,        \* array type -> its element's type
    Reads,          \* text -> the types whose input function accepts it
    Calls           \* the calls made: a name and its argument values

VARIABLES
    name,   \* the function called
    args,   \* its arguments
    pc,     \* "idle", "resolve", "coerce", "invoke" or "done"
    cand,   \* the overload chosen
    got,    \* the arguments coerced so far
    out     \* how the call ended

vars == <<name, args, pc, cand, got, out>>

Null == [type |-> "unknown", text |-> "NULL"]
Nothing == [proc |-> [args |-> <<>>, variadic |-> "", strict |-> FALSE, defaults |-> <<>>],
            args |-> <<>>, fill |-> <<>>]

Types(a) == [i \in DOMAIN a |-> a[i].type]
Known(in) == {i \in DOMAIN in : in[i] # "unknown"}

-----------------------------------------------------------------------------
(* Which overloads take the arguments at all.                              *)

Family == {"anyelement", "anyarray", "anynonarray", "anyenum", "anyrange", "anymultirange"}
Compatible == {"anycompatible", "anycompatiblearray", "anycompatiblenonarray",
               "anycompatiblerange", "anycompatiblemultirange"}
isPolymorphic(t) == t \in Family \union Compatible
isArrayType(t) == t \in DOMAIN Element

\* Enums and ranges are no types of stackql's data.
genericConsistent(in, target) ==
    LET At(ts) == {in[i] : i \in {k \in Known(in) : target[k] \in ts}}
        elem == At({"anyelement", "anynonarray"})
        arr == At({"anyarray"})
        compat == At({"anycompatible", "anycompatiblenonarray"})
                    \union {Element[t] : t \in At({"anycompatiblearray"}) \intersect DOMAIN Element}
    IN  /\ \A i \in DOMAIN target :
               target[i] \notin {"anyenum", "anyrange", "anymultirange",
                                 "anycompatiblerange", "anycompatiblemultirange"}
        /\ Cardinality(elem) <= 1
        /\ Cardinality(arr) <= 1
        /\ \A t \in At({"anynonarray", "anycompatiblenonarray"}) : ~isArrayType(t)
        /\ \A t \in arr \union At({"anycompatiblearray"}) : isArrayType(t)
        /\ \A e \in elem, a \in arr : Element[a] = e
        /\ \A s, t \in compat : Category[s].cat = Category[t].cat

canCoerce(in, target) ==
    /\ \A i \in DOMAIN in :
           \/ in[i] = target[i]
           \/ target[i] = "any"
           \/ isPolymorphic(target[i])
           \/ in[i] = "unknown"
           \/ <<in[i], target[i]>> \in ImplicitCasts
    /\ genericConsistent(in, target)

\* An overload as one call of n arguments would use it: a variadic parameter
\* repeated to fill the call, or trailing parameters left to their defaults.
Fits(p, n) ==
    \/ p.variadic # "" /\ n >= Len(p.args)
    \/ p.variadic = "" /\ n <= Len(p.args) /\ Len(p.args) - n <= Len(p.defaults)

Expanded(p, n) ==
    [proc |-> p,
     args |-> [i \in 1..n |-> IF p.variadic # "" /\ i >= Len(p.args) THEN p.variadic ELSE p.args[i]],
     fill |-> IF p.variadic # "" THEN <<>>
              ELSE SubSeq(p.defaults, Len(p.defaults) - (Len(p.args) - n) + 1, Len(p.defaults))]

expand(procs, n) ==
    LET fitting == SelectSeq(procs, LAMBDA p : Fits(p, n))
    IN  [k \in DOMAIN fitting |-> Expanded(fitting[k], n)]

-----------------------------------------------------------------------------
(* The choice between them: func_select_candidate.                         *)

keepBest(cs, Score(_)) ==
    SelectSeq(cs, LAMBDA c : \A k \in DOMAIN cs : Score(cs[k]) <= Score(c))

Exact(in, c) == Cardinality({i \in Known(in) : c.args[i] = in[i]})

Preferred(in, c) ==
    Cardinality({i \in Known(in) :
        \/ c.args[i] = in[i]
        \/ Category[c.args[i]].pref /\ Category[c.args[i]].cat = Category[in[i]].cat})

\* Mutant of SlotStep: a string category met after another is a conflict.
SlotStep_NoString(slot, t) ==
    LET c == Category[t] IN
    IF slot.cat \in {"", c.cat}
    THEN [slot EXCEPT !.cat = c.cat, !.pref = @ \/ c.pref]
    ELSE [slot EXCEPT !.conflict = TRUE]

\* What an untyped argument is taken for: a string if any candidate takes one
\* there, else the one category they agree on.
SlotStep(slot, t) ==
    LET c == Category[t] IN
    IF slot.cat \in {"", c.cat}
    THEN [slot EXCEPT !.cat = c.cat, !.pref = @ \/ c.pref]
    ELSE IF c.cat = "S" THEN [slot EXCEPT !.cat = "S", !.pref = c.pref]
    ELSE [slot EXCEPT !.conflict = TRUE]

Slot(cs, i) ==
    FoldLeft(LAMBDA slot, c : SlotStep(slot, c.args[i]),
             [cat |-> "", pref |-> FALSE, conflict |-> FALSE], cs)

bySlots(in, cs) ==
    LET slots == [i \in DOMAIN in \ Known(in) |-> Slot(cs, i)]
        kept == SelectSeq(cs, LAMBDA c : \A i \in DOMAIN slots :
                    /\ Category[c.args[i]].cat = slots[i].cat
                    /\ slots[i].pref => Category[c.args[i]].pref)
    IN  IF \/ \E i \in DOMAIN slots : slots[i].conflict /\ slots[i].cat # "S"
           \/ kept = <<>>
        THEN cs ELSE kept

\* The untyped arguments taken to have the one type the others have.
byKnown(in, cs) ==
    LET known == {in[i] : i \in Known(in)}
    IN  IF Cardinality(known) # 1 THEN <<>>
        ELSE SelectSeq(cs, LAMBDA c : canCoerce([i \in DOMAIN in |-> CHOOSE t \in known : TRUE], c.args))

\* At most one candidate: none when the call is not unique.
selectCandidate(in, cands) ==
    LET exact == keepBest(cands, LAMBDA c : Exact(in, c))
        preferred == keepBest(exact, LAMBDA c : Preferred(in, c))
        slotted == bySlots(in, preferred)
        unique == byKnown(in, slotted)
    IN  CASE Len(exact) = 1                                  -> exact
          [] Len(exact) # 1 /\ Len(preferred) = 1            -> preferred
          [] Len(preferred) # 1 /\ Known(in) = DOMAIN in     -> <<>>
          [] Len(preferred) # 1 /\ Known(in) # DOMAIN in /\ Len(slotted) = 1 -> slotted
          [] OTHER -> IF Len(unique) = 1 THEN unique ELSE <<>>

Matched(procs, in) == Reverse(SelectSeq(expand(procs, Len(in)), LAMBDA c : canCoerce(in, c.args)))

\* The overload of a call, as a sequence that is empty when there is none.
selectPg(procs, in) ==
    LET same == SelectSeq(expand(procs, Len(in)), LAMBDA c : c.args = in)
        matched == Matched(procs, in)
    IN  IF same # <<>> THEN <<same[1]>>
        ELSE IF Len(matched) <= 1 THEN matched
        ELSE selectCandidate(in, matched)

checkPolymorphic(c, in) ==
    LET family == {i \in DOMAIN c.args : c.args[i] \in Family}
    IN  family # {} => \E i \in family : in[i] # "unknown"

-----------------------------------------------------------------------------
(* Reading and casting the arguments.                                      *)

Untyped == {"text", "unknown"}

\* stackql appends ::json to the first argument of these.
pgPrepare(n, a) ==
    IF \/ n = "json_extract_path_text" /\ Len(a) > 1
       \/ n = "json_array_elements_text" /\ Len(a) >= 1
    THEN [a EXCEPT ![1] = IF @ = Null THEN Null ELSE [@ EXCEPT !.type = "json"]]
    ELSE a
NoJSONCast(n, a) ==
    /\ pgPrepare(n, a) # a
    /\ a[1].type \notin Untyped \union {"json", "jsonb"}

InputTypes == {"text", "varchar", "bpchar", "name", "int4", "int2", "int8", "numeric", "float8",
               "float4", "bool", "json", "jsonb", "_text", "timestamptz", "timestamp", "date",
               "interval"}
pgInput(text, t) == t \in InputTypes /\ t \in Reads[text]

\* The casts there are.
pgCast(from, t) ==
    \/ t = "int8" /\ from = "int4"
    \/ t = "numeric" /\ from \in {"int4", "int8"}
    \/ t = "float8" /\ from \in {"int4", "int8", "numeric"}
    \/ t \in {"varchar", "bpchar"} /\ from = "text"
    \/ t = "timestamp" /\ from = "date"
    \/ t = "timestamptz" /\ from \in {"date", "timestamp"}

\* The type an untyped literal takes in a polymorphic parameter: that of the
\* first typed argument of such a parameter.
resolvedPolymorphic(t, in, target) ==
    LET known == {i \in Known(in) : target[i] = t}
    IN  IF known = {} THEN "text" ELSE in[CHOOSE i \in known : \A j \in known : i <= j]

\* What the implementation is given for argument i, and whether it can be had.
Wanted(c, a, i) ==
    LET t == c.args[i] IN
    IF t # "any" /\ ~isPolymorphic(t) THEN t
    ELSE IF a[i].type # "unknown" THEN a[i].type
    ELSE IF t \in {"anyelement", "anynonarray", "anycompatible", "anycompatiblenonarray"}
         THEN resolvedPolymorphic(t, Types(a), c.args)
    ELSE "text"

pgCoerce(c, a, i) ==
    LET from == a[i].type
        t == Wanted(c, a, i)
    IN  /\ from = "json" => "json" \in Reads[a[i].text]
        /\ \/ from = t
           \/ from = "unknown" /\ pgInput(a[i].text, t)
           \/ from # "unknown" /\ pgCast(from, t)

-----------------------------------------------------------------------------
(* The call.                                                               *)

Init ==
    /\ name = "" /\ args = <<>> /\ pc = "idle" /\ cand = Nothing /\ got = <<>>
    /\ out = [how |-> "none", args |-> <<>>]

End(how) == pc' = "done" /\ out' = [how |-> how, args |-> <<>>] /\ UNCHANGED <<name, cand, got>>

pgCall ==
    /\ pc = "idle"
    /\ \E call \in Calls :
        /\ name' = call.name
        /\ args' = pgPrepare(call.name, call.args)
        /\ IF NoJSONCast(call.name, call.args)
           THEN pc' = "done" /\ out' = [how |-> "no json cast", args |-> <<>>]
           ELSE pc' = "resolve" /\ UNCHANGED out
        /\ UNCHANGED <<cand, got>>

resolvePg ==
    LET chosen == selectPg(Procs[name], Types(args)) IN
    /\ pc = "resolve" /\ UNCHANGED args
    /\ IF chosen = <<>> THEN End("no function")
       ELSE IF ~checkPolymorphic(chosen[1], Types(args)) THEN End("undetermined")
       ELSE IF <<name, chosen[1].proc.args>> \notin Implemented THEN End("not implemented")
       ELSE pc' = "coerce" /\ cand' = chosen[1] /\ UNCHANGED <<name, got, out>>

\* One argument read or cast; a NULL is left as it is.
Coerce ==
    LET i == Len(got) + 1 IN
    /\ pc = "coerce" /\ i <= Len(args) /\ UNCHANGED args
    /\ IF args[i] # Null /\ ~pgCoerce(cand, args, i) THEN End("bad argument")
       ELSE /\ got' = Append(got, IF args[i] = Null THEN [type |-> "null", of |-> <<i>>]
                                  ELSE [type |-> Wanted(cand, args, i), of |-> <<i>>])
            /\ UNCHANGED <<name, pc, cand, out>>

\* The trailing defaults, read as the literals they are; their place is told
\* from an argument's by being negative.
Filled == [k \in DOMAIN cand.fill |->
              [type |-> cand.proc.args[Len(cand.args) + k], of |-> <<0 - Len(cand.args) - k>>]]

\* The arguments of a variadic parameter that is not "any", as one array.
Gathered ==
    LET all == got \o Filled
        fixed == Len(cand.proc.args) - 1
    IN  IF cand.proc.variadic \in {"", "any"} THEN all
        ELSE Append(SubSeq(all, 1, fixed),
                    [type |-> "_text", of |-> [k \in 1..(Len(all) - fixed) |-> fixed + k]])

Invoke ==
    /\ pc = "coerce" /\ Len(got) = Len(args)
    /\ pc' = "done"
    /\ out' = IF cand.proc.strict /\ \E k \in DOMAIN args : args[k] = Null
              THEN [how |-> "null", args |-> <<>>]
              ELSE [how |-> "invoked", args |-> Gathered]
    /\ UNCHANGED <<name, args, cand, got>>

Return ==
    /\ pc = "done"
    /\ name' = "" /\ args' = <<>> /\ pc' = "idle" /\ cand' = Nothing /\ got' = <<>>
    /\ out' = [how |-> "none", args |-> <<>>]

Next == pgCall \/ resolvePg \/ Coerce \/ Invoke \/ Return

Spec == Init /\ [][Next]_vars

-----------------------------------------------------------------------------
Chosen == cand # Nothing

Closeness(t, have) ==
    IF t = have THEN 2
    ELSE IF Category[t].pref /\ Category[t].cat = Category[have].cat THEN 1 ELSE 0

\* No overload that could have been called instead is at least as close to
\* the arguments' types everywhere and closer somewhere than the one
\* selectCandidate settled on, whatever the untyped arguments made of it.
NotDominated ==
    Chosen =>
        LET in == Types(args)
            all == Matched(Procs[name], in)
        IN  ~ \E k \in DOMAIN all :
                /\ \A i \in Known(in) : Closeness(all[k].args[i], in[i]) >= Closeness(cand.args[i], in[i])
                /\ \E i \in Known(in) : Closeness(all[k].args[i], in[i]) > Closeness(cand.args[i], in[i])

\* The overload chosen, or that there is none, does not depend on the order
\* the generated catalogue lists a function's overloads in, although the
\* candidates are folded over in that order.
OrderFree ==
    pc = "resolve" =>
        LET procs == Procs[name]
            in == Types(args)
            rotated(r) == [k \in DOMAIN procs |-> procs[((k + r - 1) % Len(procs)) + 1]]
        IN  \A r \in 0..(Len(procs) - 1) :
                /\ selectPg(rotated(r), in) = selectPg(procs, in)
                /\ selectPg(Reverse(rotated(r)), in) = selectPg(procs, in)

\* A call that resolves to an implemented overload never fails for want of a
\* cast: what the catalogue lets resolution count on, pgCast does.
CastsExist ==
    out.how = "bad argument" =>
        LET i == Len(got) + 1 IN
        \/ args[i].type = "unknown"
        \/ args[i].type = "json" /\ "json" \notin Reads[args[i].text]

\* An invoked implementation gets one value per parameter it declares, each
\* of that parameter's type: the argument in its place, its own default, or
\* the array of all the arguments from its place on.
ArgsAsDeclared ==
    out.how = "invoked" /\ cand.proc.variadic # "any" =>
        /\ Len(out.args) = Len(cand.proc.args)
        /\ \A k \in DOMAIN out.args :
            LET v == out.args[k]
                t == cand.proc.args[k]
            IN  /\ \/ v.type \in {t, "null"}
                   \/ isPolymorphic(t)
                /\ v.of = IF cand.proc.variadic # "" /\ k = Len(cand.proc.args)
                          THEN [j \in 1..(Len(args) - k + 1) |-> k + j - 1]
                          ELSE IF k <= Len(args) THEN <<k>> ELSE <<0 - k>>

\* A literal its parameter cannot read fails the call even when a NULL beside
\* it would have made a strict function's result NULL.
LiteralsRead ==
    out.how \in {"null", "invoked"} =>
        \A i \in DOMAIN args : args[i] # Null => pgCoerce(cand, args, i)

-----------------------------------------------------------------------------
\* FunctionCall over entries of the generated catalogue that meet each rule
\* of the resolution.

Proc(a, v, s, d) == [args |-> a, variadic |-> v, strict |-> s, defaults |-> d]
Plain(a) == Proc(a, "", TRUE, <<>>)

MCProcs == [
    power |-> <<Plain(<<"float8", "float8">>), Plain(<<"numeric", "numeric">>)>>,
    to_char |-> <<Plain(<<"timestamptz", "text">>), Plain(<<"numeric", "text">>),
                  Plain(<<"int4", "text">>), Plain(<<"int8", "text">>), Plain(<<"float4", "text">>),
                  Plain(<<"float8", "text">>), Plain(<<"interval", "text">>),
                  Plain(<<"timestamp", "text">>)>>,
    generate_series |-> <<Plain(<<"int4", "int4">>), Plain(<<"int8", "int8">>),
                          Plain(<<"numeric", "numeric">>),
                          Plain(<<"timestamp", "timestamp", "interval">>),
                          Plain(<<"timestamptz", "timestamptz", "interval">>)>>,
    length |-> <<Plain(<<"text">>), Plain(<<"bpchar">>), Plain(<<"lseg">>), Plain(<<"bytea">>),
                 Plain(<<"tsvector">>)>>,
    date_part |-> <<Plain(<<"text", "timestamptz">>), Plain(<<"text", "interval">>),
                    Plain(<<"text", "date">>), Plain(<<"text", "timestamp">>)>>,
    quote_literal |-> <<Plain(<<"text">>), Plain(<<"anyelement">>)>>,
    unnest |-> <<Plain(<<"anyarray">>), Plain(<<"tsvector">>), Plain(<<"anymultirange">>)>>,
    array_to_string |-> <<Plain(<<"anyarray", "text">>),
                          Proc(<<"anyarray", "text", "text">>, "", FALSE, <<>>)>>,
    concat_ws |-> <<Proc(<<"text", "any">>, "any", FALSE, <<>>)>>,
    jsonb_extract_path |-> <<Proc(<<"jsonb", "_text">>, "text", TRUE, <<>>)>>,
    json_extract_path_text |-> <<Proc(<<"json", "_text">>, "text", TRUE, <<>>)>>,
    jsonb_set |-> <<Proc(<<"jsonb", "_text", "jsonb", "bool">>, "", TRUE, <<"true">>)>>]

Unimplemented == {"float4", "bpchar", "lseg", "bytea", "tsvector", "anymultirange"}
Built(p) == /\ ToSet(p.args) \intersect Unimplemented = {}
            /\ ~(Len(p.args) = 3 /\ p.args[3] = "interval")
MCImplemented == UNION {{<<n, p.args>> : p \in {q \in ToSet(MCProcs[n]) : Built(q)}} : n \in DOMAIN MCProcs}

Cat(c, p) == [cat |-> c, pref |-> p]
MCCategory ==
    [t \in {"text"} |-> Cat("S", TRUE)] @@ [t \in {"bpchar", "name"} |-> Cat("S", FALSE)]
    @@ [t \in {"int4", "int8", "numeric", "float4"} |-> Cat("N", FALSE)]
    @@ [t \in {"float8"} |-> Cat("N", TRUE)] @@ [t \in {"bool"} |-> Cat("B", TRUE)]
    @@ [t \in {"date", "timestamp"} |-> Cat("D", FALSE)] @@ [t \in {"timestamptz"} |-> Cat("D", TRUE)]
    @@ [t \in {"interval"} |-> Cat("T", TRUE)]
    @@ [t \in {"json", "jsonb", "bytea", "tsvector"} |-> Cat("U", FALSE)]
    @@ [t \in {"_text", "_int4"} |-> Cat("A", FALSE)] @@ [t \in {"lseg"} |-> Cat("G", FALSE)]
    @@ [t \in {"unknown"} |-> Cat("X", FALSE)]
    @@ [t \in {"any", "anyelement", "anyarray", "anymultirange"} |-> Cat("P", FALSE)]

MCCasts ==
    ({"int4"} \X {"int8", "float4", "float8", "numeric"})
    \union ({"int8"} \X {"float4", "float8", "numeric"})
    \union ({"numeric"} \X {"float4", "float8"})
    \union ({"text"} \X {"bpchar", "name"})
    \union ({"date"} \X {"timestamp", "timestamptz"}) \union {<<"timestamp", "timestamptz">>}

MCElement == [_text |-> "text", _int4 |-> "int4"]

Numbers == {"int4", "int8", "numeric", "float8"}
MCReads == ("12" :> Numbers \union {"text", "json", "jsonb"})
    @@ ("{}" :> {"text", "_text", "json", "jsonb"})
    @@ ("day" :> {"text"})
    @@ ("2024-01-01" :> {"text", "date", "timestamp", "timestamptz"})

Literals == {Null} \union {[type |-> "unknown", text |-> x] : x \in DOMAIN MCReads}
Texts == {[type |-> "text", text |-> x] : x \in {"{}", "day"}}
Typed == {[type |-> t, text |-> "{}"] :
            t \in Numbers \union {"bool", "json", "jsonb", "_text", "_int4", "timestamptz",
                                  "timestamp", "date", "interval"}}
Values == Literals \union Texts \union Typed

\* Every pair of values for every function; three and four arguments for those
\* that take them.
Long == {"generate_series", "array_to_string", "concat_ws", "jsonb_set", "json_extract_path_text"}
Few == Literals \union {v \in Texts \union Typed : v.text = "{}" /\
            v.type \in {"text", "int4", "bool", "jsonb", "_text", "date", "interval"}}
MCCalls ==
    [name : DOMAIN MCProcs, args : UNION {[1..n -> Values] : n \in 1..2}]
    \union [name : Long, args : [1..3 -> Few]]
    \union {[name |-> "jsonb_set", args |-> <<a, b, c, d>>] :
                a \in {Null, [type |-> "jsonb", text |-> "{}"]}, b \in Few, c \in Few, d \in Few}
=============================================================================
