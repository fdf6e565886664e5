------------------------------- MODULE PgJson -------------------------------
(* Postgres's json and jsonb functions (pkg/sqlfn/pg_json.go, pg_json_modify.go): a path is     *)
(* followed in a json text by the callbacks of its parse, in a jsonb value by walking it;       *)
(* jsonb_set and jsonb_insert rebuild a value, and nulls are stripped from both.  A text is a   *)
(* tree of what it says, fields in the order they are written; a leaf is where it stands in the *)
(* text it came from.                                                                           *)
EXTENDS Integers, Sequences, SequencesExt, FiniteSetsExt

CONSTANTS Texts,     \* json texts
          Keys,      \* keys of objects, in jsonb's order (shorter first, then bytes)
          Elements,  \* path elements; "null" is an SQL null
          IndexOf,   \* the path elements that are integers
          MaxPath,   \* the length of a path
          Edits      \* edits of one value in a row

VARIABLES text, path, value, did, edits
vars == <<text, path, value, did, edits>>

Leaf(p) == [k |-> "leaf", at |-> p]
Null == [k |-> "null"]
New == [k |-> "new"]
Arr(es) == [k |-> "array", es |-> es]
Obj(fs) == [k |-> "object", fs |-> fs]      \* fs: a sequence of [key, val]
Field(f, x) == [key |-> f, val |-> x]
Nothing == [k |-> "nothing"]                \* SQL null
MIN == -100                                 \* math.MinInt32
ElementOf(p) == IF p \in DOMAIN IndexOf THEN IndexOf[p] ELSE MIN

\* A subtree, by the numbers of the children on the way.
Kids(t) == CASE t.k = "array" -> t.es [] t.k = "object" -> [n \in DOMAIN t.fs |-> t.fs[n].val] [] OTHER -> <<>>
RECURSIVE Sub(_, _)
Sub(t, pos) == IF pos = <<>> THEN t ELSE Sub(Kids(t)[pos[1]], Tail(pos))

-----------------------------------------------------------------------------
(* jsonb: uniqueify sorts keys and keeps the last of equal ones. *)
KeyAt(f) == CHOOSE n \in DOMAIN Keys : Keys[n] = f
Chosen(fs, f) == Max({n \in DOMAIN fs : fs[n].key = f})
uniqueify(fs) ==
  LET present == SelectSeq(Keys, LAMBDA f : \E n \in DOMAIN fs : fs[n].key = f) IN
  [n \in DOMAIN present |-> fs[Chosen(fs, present[n])]]

\* parseJSONB.
RECURSIVE parseJSONB(_)
parseJSONB(t) == CASE t.k = "array" -> Arr([n \in DOMAIN t.es |-> parseJSONB(t.es[n])])
                   [] t.k = "object" -> Obj(uniqueify([n \in DOMAIN t.fs |-> Field(t.fs[n].key, parseJSONB(t.fs[n].val))]))
                   [] OTHER -> t

lookup(o, f) == LET S == {n \in DOMAIN o.fs : o.fs[n].key = f} IN IF S = {} THEN Nothing ELSE o.fs[Min(S)].val
FromEnd(n, len) == IF n >= 0 THEN n ELSE IF n = MIN \/ -n > len THEN len ELSE n + len

\* jsonb_extract_path.
Child(v, p) == CASE v.k = "object" -> lookup(v, p)
                 [] v.k = "array" -> LET n == IF ElementOf(p) = MIN THEN Len(v.es) ELSE FromEnd(ElementOf(p), Len(v.es)) IN
                                     IF n >= Len(v.es) THEN Nothing ELSE v.es[n + 1]
                 [] OTHER -> Nothing
jsonbPath(v, ps) == IF "null" \in ToSet(ps) THEN Nothing ELSE FoldLeft(Child, v, ps)

-----------------------------------------------------------------------------
(* json_extract_path: jsonGetPath's callbacks, as the parse of the text makes them.  The level  *)
(* of a value is the number of containers around it.                                            *)
GetInit(ps) == [ok |-> [n \in 1..Len(ps) |-> n = 1], cur |-> [n \in 1..Len(ps) |-> 0],
                idx |-> [n \in 1..Len(ps) |-> ElementOf(ps[n])], res |-> <<"none">>]
Found(pos) == <<"at", pos>>

\* objectFieldStart and arrayElementStart, and the ends: named says whether the path names it.
Enter(g, ps, lv, named, pos) ==
  IF lv <= Len(ps) /\ g.ok[lv] /\ named
    THEN IF lv < Len(ps) THEN [g EXCEPT !.ok[lv + 1] = TRUE] ELSE [g EXCEPT !.res = Found(pos)]
    ELSE g
Exit(g, ps, lv, named) == IF lv < Len(ps) /\ g.ok[lv] /\ named THEN [g EXCEPT !.ok[lv + 1] = FALSE] ELSE g

\* arrayStart: elements are counted from the start of the array, and an index from its end is
\* made one from its start, whether or not the path leads here.
Opened(g, ps, lv, len) ==
  IF lv >= Len(ps) THEN g
  ELSE [g EXCEPT !.cur[lv + 1] = -1,
                 !.idx[lv + 1] = IF @ < 0 /\ @ # MIN /\ -@ <= len THEN @ + len ELSE @]
Counted(g, ps, lv) == IF lv <= Len(ps) THEN [g EXCEPT !.cur[lv] = @ + 1] ELSE g

RECURSIVE Walk(_, _, _, _), WalkKids(_, _, _, _, _)
WalkKids(g, t, ps, pos, n) ==
  IF n > Len(Kids(t)) THEN g
  ELSE LET lv == Len(pos) + 1
           here == Append(pos, n)
           g1 == IF t.k = "array" THEN Counted(g, ps, lv) ELSE g
           named(x) == lv <= Len(ps) /\ IF t.k = "array" THEN x.cur[lv] = x.idx[lv] ELSE t.fs[n].key = ps[lv]
           g2 == Walk(Enter(g1, ps, lv, named(g1), here), Kids(t)[n], ps, here)
       IN WalkKids(Exit(g2, ps, lv, named(g2)), t, ps, pos, n + 1)
Walk(g, t, ps, pos) ==
  WalkKids(IF t.k = "array" THEN Opened(g, ps, Len(pos), Len(t.es)) ELSE g, t, ps, pos, 1)

jsonGetPath(t, ps) ==
  LET r == Walk(GetInit(ps), t, ps, <<>>).res IN
  CASE "null" \in ToSet(ps) -> Nothing
    [] ps = <<>> -> t
    [] OTHER -> IF r = <<"none">> THEN Nothing ELSE Sub(t, r[2])

-----------------------------------------------------------------------------
(* jsonb_set and jsonb_insert: setPath.  An operation is its bits. *)
Ops == [create |-> {"create"}, replace |-> {"replace"}, before |-> {"before"}, after |-> {"after"}]
CreateOrIns == {"create", "before", "after"}
Makes(op) == Ops[op] \intersect CreateOrIns # {}
Inserts(op) == Ops[op] \intersect {"before", "after"} # {}
Fail(v) == [v |-> v, err |-> TRUE]
Done(v) == [v |-> v, err |-> FALSE]

RECURSIVE set(_, _, _)
\* The index in 0 .. n, or MIN before the first.
Index(p, n) == LET i == ElementOf(p) IN
               IF i < 0 THEN (IF -i > n THEN MIN ELSE n + i) ELSE Min({i, n})
\* What stands where the element e was.
\* Mutant of Placed: insertion after puts the new one first.
Placed_Before(e, op) == (IF Ops[op] \intersect {"before", "after", "create"} # {} THEN <<New>> ELSE <<>>)
                        \o (IF Inserts(op) THEN <<e>> ELSE <<>>) \o (IF op = "replace" THEN <<New>> ELSE <<>>)
Placed(e, op) == (IF Ops[op] \intersect {"before", "create"} # {} THEN <<New>> ELSE <<>>)
                 \o (IF Inserts(op) THEN <<e>> ELSE <<>>)
                 \o (IF Ops[op] \intersect {"after", "replace"} # {} THEN <<New>> ELSE <<>>)

setArray(a, ps, op) ==
  LET n == Len(a.es)
      last == Len(ps) = 1
      i == Index(ps[1], n)
      first == (i = MIN \/ n = 0) /\ last /\ Makes(op)
      inner == set(a.es[i + 1], Tail(ps), op)
      head == IF first THEN <<New>> ELSE <<>>
  IN CASE ps[1] \notin DOMAIN IndexOf -> Fail(a)
       [] ps[1] \in DOMAIN IndexOf /\ i \in 0..n - 1 /\ ~last ->
            [v |-> Arr([a.es EXCEPT ![i + 1] = inner.v]), err |-> inner.err]
       [] ps[1] \in DOMAIN IndexOf /\ i \in 0..n - 1 /\ last ->
            Done(Arr(SubSeq(a.es, 1, i) \o Placed(a.es[i + 1], op) \o SubSeq(a.es, i + 2, n)))
       [] OTHER -> Done(Arr(head \o a.es \o IF Makes(op) /\ ~first /\ last THEN <<New>> ELSE <<>>))

\* A key that is not there goes before the last one, and uniqueify puts it in its place.
setObject(o, ps, op) ==
  LET n == Len(o.fs)
      last == Len(ps) = 1
      S == {i \in 1..n : o.fs[i].key = ps[1]}
      inner == set(o.fs[Min(S)].val, Tail(ps), op)
  IN CASE S = {} /\ Makes(op) /\ last ->
            Done(Obj(uniqueify(SubSeq(o.fs, 1, n - 1) \o <<Field(ps[1], New)>> \o SubSeq(o.fs, Max({n, 1}), n))))
       [] S = {} /\ ~(Makes(op) /\ last) -> Done(o)
       [] S # {} /\ last /\ Inserts(op) -> Fail(o)
       [] S # {} /\ last /\ ~Inserts(op) -> Done(Obj([o.fs EXCEPT ![Min(S)].val = New]))
       [] OTHER -> [v |-> Obj([o.fs EXCEPT ![Min(S)].val = inner.v]), err |-> inner.err]

set(v, ps, op) == CASE ps[1] = "null" -> Fail(v)
                    [] ps[1] # "null" /\ v.k = "array" -> setArray(v, ps, op)
                    [] ps[1] # "null" /\ v.k = "object" -> setObject(v, ps, op)
                    [] OTHER -> Done(v)

Scalar(v) == v.k \notin {"array", "object"}
\* jbSet: a scalar cannot be set into; nothing to replace in an empty one; no path, no change.
jbSet(v, ps, op) == CASE Scalar(v) -> Fail(v)
                      [] ~Scalar(v) /\ (ps = <<>> \/ (op = "replace" /\ Kids(v) = <<>>)) -> Done(v)
                      [] OTHER -> set(v, ps, op)

-----------------------------------------------------------------------------
(* jsonb_strip_nulls on a value, json_strip_nulls by the callbacks of a parse: a field whose    *)
(* value is null is not written, and the null that follows is skipped.                          *)
RECURSIVE jbStripNulls(_), Stripped(_, _)
NotNull(f) == f.val # Null
jbStripNulls(v) == CASE v.k = "array" -> Arr([n \in DOMAIN v.es |-> jbStripNulls(v.es[n])])
                     [] v.k = "object" -> LET fs == SelectSeq(v.fs, NotNull) IN
                                          Obj([n \in DOMAIN fs |-> Field(fs[n].key, jbStripNulls(fs[n].val))])
                     [] OTHER -> v
SkipNull(s) == [s EXCEPT !.skip = FALSE]
\* out: what is written of a value, skip: a null is to be left out.
Stripped(t, s) ==
  CASE t.k = "array" ->
         LET r == FoldLeft(LAMBDA a, e : LET x == Stripped(e, [a EXCEPT !.out = <<>>]) IN [x EXCEPT !.out = a.out \o x.out],
                           [s EXCEPT !.out = <<>>], t.es)
         IN [r EXCEPT !.out = <<Arr(r.out)>>]
    [] t.k = "object" ->
         LET r == FoldLeft(LAMBDA a, f :
                     LET x == Stripped(f.val, [a EXCEPT !.out = <<>>, !.skip = IF f.val = Null THEN TRUE ELSE @])
                     IN [x EXCEPT !.out = a.out \o [n \in DOMAIN x.out |-> Field(f.key, x.out[n])]],
                     [s EXCEPT !.out = <<>>], t.fs)
         IN [r EXCEPT !.out = <<Obj(r.out)>>]
    [] OTHER -> IF s.skip THEN [SkipNull(s) EXCEPT !.out = <<>>] ELSE [s EXCEPT !.out = <<t>>]
jsonStripNulls(t) == Stripped(t, [out |-> <<>>, skip |-> FALSE]).out[1]

-----------------------------------------------------------------------------
Paths == UNION {[1..n -> Elements] : n \in 0..MaxPath}
Init == /\ text \in Texts /\ path \in Paths /\ value = parseJSONB(text)
        /\ did = [op |-> "none", err |-> FALSE] /\ edits = 0
Edit == \E op \in DOMAIN Ops, p \in Paths :
          LET r == jbSet(value, p, op) IN
          /\ edits < Edits
          /\ (edits = 0 => p = path)
          /\ path' = p
          /\ value' = IF r.err THEN value ELSE r.v
          /\ did' = [op |-> op, err |-> r.err]
          /\ edits' = edits + 1
          /\ UNCHANGED text
Next == Edit
Spec == Init /\ [][Next]_vars

-----------------------------------------------------------------------------
RECURSIVE Normal(_), UniqueKeys(_)
Normal(v) == /\ v.k = "object" => \A m, n \in DOMAIN v.fs : m < n => KeyAt(v.fs[m].key) < KeyAt(v.fs[n].key)
             /\ \A n \in DOMAIN Kids(v) : Normal(Kids(v)[n])
UniqueKeys(t) == /\ t.k = "object" => \A m, n \in DOMAIN t.fs : t.fs[m].key = t.fs[n].key => m = n
                 /\ \A n \in DOMAIN Kids(t) : UniqueKeys(Kids(t)[n])

\* Whatever edits are made, a value keeps the form the functions rely on: keys in order and once,
\* so that it is the same when it is written and read again; of keys written twice the last counts.
NormalForm == /\ Normal(value) /\ parseJSONB(value) = value
              /\ edits = 0 /\ text.k = "object" => \A n \in DOMAIN text.fs :
                   (\A m \in n + 1..Len(text.fs) : text.fs[m].key # text.fs[n].key)
                     => jsonbPath(value, <<text.fs[n].key>>) = parseJSONB(text.fs[n].val)

FromStart(ps) == \A n \in DOMAIN ps : ps[n] \in DOMAIN IndexOf => IndexOf[ps[n]] >= 0
\* A path leads to the same element in the text and in the value, for texts that give a key once
\* and paths that count from the start.
PathsAgree ==
  edits = 0 /\ UniqueKeys(text) /\ FromStart(path) =>
    parseJSONB(jsonGetPath(text, path)) = jsonbPath(value, path)

\* Nulls stripped from the text and from the value leave the same value.
StripsAgree ==
  edits = 0 /\ UniqueKeys(text) => parseJSONB(jsonStripNulls(text)) = jbStripNulls(value)

\* Where an index ends up once the array has taken the new element.
Settled(a, p, op) == LET n == Len(a.es)  i == Index(p, n) IN
                     CASE i = MIN -> 0 [] i = n -> n [] OTHER -> IF op = "after" THEN i + 1 ELSE i
Without(s, i) == SubSeq(s, 1, i) \o SubSeq(s, i + 2, Len(s))
\* The change an edit makes in the container its path leads to, and nowhere else.
Changed(old, new, p, op) ==
  CASE old.k = "object" ->
         IF lookup(old, p) = Nothing THEN (IF op = "replace" THEN new = old ELSE lookup(new, p) = New /\ Len(new.fs) = Len(old.fs) + 1)
         ELSE lookup(new, p) = New /\ \A f \in ToSet(Keys) \ {p} : lookup(new, f) = lookup(old, f)
    [] old.k = "array" ->
         LET i == Settled(old, p, op)  inside == Index(p, Len(old.es)) \in 0..Len(old.es) - 1 IN
         IF op = "replace" /\ ~inside THEN new = old
         ELSE /\ new.es[i + 1] = New
              /\ Without(new.es, i) = IF inside /\ ~Inserts(op) THEN Without(old.es, i) ELSE old.es
    [] OTHER -> new = old

\* What was set is what is read at its path, an element inserted stands where it was asked for and
\* taking it out gives the value before, what the path does not name is as it was, and an edit that
\* may not create, or whose path leads nowhere, changes nothing.
SetThenGet ==
  LET ps == path'  op == did'.op
         way == Front(ps)
         old == jsonbPath(value, way)
     IN IF did'.err \/ ps = <<>> \/ old = Nothing THEN value' = value
        ELSE /\ Changed(old, jsonbPath(value', way), ps[Len(ps)], op)
             /\ \A f \in ToSet(Keys) : value.k = "object" /\ f # ps[1] => lookup(value', f) = lookup(value, f)

-----------------------------------------------------------------------------
\* Texts of containers of up to two children in containers of up to two, nulls among them, keys
\* given twice; paths of up to two elements.

MCKeys == <<"0", "1", "9", "a", "-1", "-9", "bb">>
MCIndexOf == ("0" :> 0) @@ ("1" :> 1) @@ ("9" :> 9) @@ ("-1" :> -1) @@ ("-9" :> -9)
Bare == {Leaf(<<>>), Null}
Inner == Bare \union {Arr(s) : s \in UNION {[1..n -> Bare] : n \in 0..2}}
              \union {Obj(<<>>)} \union {Obj(<<Field(f, x)>>) : f \in {"a", "0"}, x \in Bare}
              \union {Obj(<<Field("bb", x), Field("a", y)>>) : x, y \in Bare}
              \union {Obj(<<Field("a", x), Field("a", y)>>) : x, y \in Bare}
Small == Bare \union {Arr(<<Null>>), Obj(<<Field("a", Leaf(<<>>))>>)}
Outer == Inner \union {Arr(<<x>>) : x \in Inner} \union {Arr(<<x, y>>) : x \in Inner, y \in Small}
              \union {Obj(<<Field("bb", x)>>) : x \in Inner}
              \union {Obj(<<Field("bb", x), Field(f, y)>>) : x \in Small, y \in Inner, f \in {"a", "bb"}}
RECURSIVE Place(_, _)
Place(t, pos) == CASE t.k = "leaf" -> Leaf(pos)
                   [] t.k = "array" -> Arr([n \in DOMAIN t.es |-> Place(t.es[n], Append(pos, n))])
                   [] t.k = "object" -> Obj([n \in DOMAIN t.fs |-> Field(t.fs[n].key, Place(t.fs[n].val, Append(pos, n)))])
                   [] OTHER -> t
MCTexts == {Place(t, <<>>) : t \in Outer}
=============================================================================
