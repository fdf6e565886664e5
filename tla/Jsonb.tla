------------------------------- MODULE Jsonb -------------------------------
(***************************************************************************)
(* JSONB, SQLite's binary JSON (pkg/sqlfn/sqlite_jsonb.go), edited in      *)
(* place by the functions of sqlite_json.go.  A blob is a sequence of      *)
(* cells: an element is a header, whose high part holds the payload's size *)
(* or says how many cells of it follow, and its payload.  An edit deep     *)
(* inside moves what follows and must correct the size in every header     *)
(* above it, each of which may itself grow or shrink.  The widths are      *)
(* parameters, so that small documents cross every size class.            *)
(***************************************************************************)
EXTENDS Integers, Sequences, FiniteSets

CONSTANTS inlineMax,    \* the largest size kept in the header cell (11)
          byteBase,     \* values of one size cell (256)
          maxDepth,     \* jsonMaxDepth
          Docs,         \* the documents an argument may be
          Values,       \* the values edits insert
          Paths,        \* the paths they name
          Patches       \* the documents of json_patch

VARIABLES doc,          \* the document given
          edit          \* the edit asked for first

vars == <<doc, edit>>

(* A document: its element type, payload and members; an object's members  *)
(* are labels and values in turn.                                          *)
jsonbNull == 0
jsonbInt == 3
jsonbText == 7
jsonbTextRaw == 10
jsonbArray == 11
jsonbObject == 12
node(t, p, xs) == [t |-> t, p |-> p, xs |-> xs]

last(s) == s[Len(s)]
splice(s, i, n, new) == SubSeq(s, 1, i) \o new \o SubSeq(s, i + n + 1, Len(s))

----------------------------------------------------------------------------
(* Elements. Positions count from 0, as in the code. *)

eType(b, i) == b[i + 1] % 16
szType(b, i) == b[i + 1] \div 16

\* The cells of size that follow a header of this class, and that a size needs.
nExtra(c) == CASE c <= 11 -> 0 [] c = 12 -> 1 [] c = 13 -> 2 [] c = 14 -> 4 [] OTHER -> 8
nNeeded(sz) == CASE sz <= inlineMax -> 0 [] sz < byteBase -> 1 [] sz < byteBase * byteBase -> 2
                 [] OTHER -> 4
sizeCells(sz, k) == [j \in 1 .. k |-> IF k - j > 4 THEN 0 ELSE (sz \div byteBase ^ (k - j)) % byteBase]
classOf(k) == CASE k = 1 -> 12 [] k = 2 -> 13 [] k = 4 -> 14 [] OTHER -> 15

\* A header with k size cells.
header(t, sz, k) == IF k = 0 THEN <<t + 16 * sz>> ELSE <<t + 16 * classOf(k)>> \o sizeCells(sz, k)

appendNode(t, sz) == header(t, sz, nNeeded(sz))

\* The header's length and the payload's size; length 0 for a malformed header.
payloadSizeIn(b, i, nBlob, delta) ==
    LET k == nExtra(szType(b, i))
        val[j \in 0 .. k] == IF j = 0 THEN 0 ELSE val[j - 1] * byteBase + b[i + 1 + j]
        sz == IF k = 0 THEN szType(b, i) ELSE val[k]
        bad == \/ i >= nBlob
               \/ i + k >= nBlob
               \/ k = 8 /\ \E j \in 1 .. 4 : b[i + 1 + j] # 0
               \/ i + sz + k + 1 > nBlob /\ i + sz + k + 1 > nBlob - delta
    IN  IF bad THEN [n |-> 0, sz |-> 0] ELSE [n |-> k + 1, sz |-> sz]
payloadSize(p, i) == payloadSizeIn(p.b, i, Len(p.b), p.delta)

\* An argument under edit: its cells, the change in length not yet in the headers above, its depth.
parse(b) == [b |-> b, delta |-> 0, iDepth |-> 0]

\* The header at i rewritten for sz; the change in length is added to the pending one.
changePayloadSize(p, i, sz) ==
    LET k == nExtra(szType(p.b, i))
        h == header(eType(p.b, i), sz, nNeeded(sz))
    IN  [p EXCEPT !.b = splice(@, i, k + 1, h), !.delta = @ + Len(h) - (k + 1)]

\* Mutant of afterEditSizeAdjust: the growth of this header is not passed on to those above.
afterEditSizeAdjust_Local(p, iRoot) ==
    LET s == payloadSizeIn(p.b, iRoot, 1000000, 0)
    IN  IF p.delta = 0 THEN p ELSE [changePayloadSize(p, iRoot, s.sz + p.delta) EXCEPT !.delta = p.delta]

afterEditSizeAdjust(p, iRoot) ==
    LET s == payloadSizeIn(p.b, iRoot, 1000000, 0)
    IN  IF p.delta = 0 THEN p ELSE changePayloadSize(p, iRoot, s.sz + p.delta)

\* The elements from j to iEnd, and -1 where the sizes run past the end.
RECURSIVE walk(_, _, _)
walk(p, j, iEnd) ==
    LET s == payloadSize(p, j)
    IN  IF j = iEnd THEN <<>>
        ELSE IF j > iEnd \/ s.n = 0 THEN <<-1>>
        ELSE <<j>> \o walk(p, j + s.n + s.sz, iEnd)
elements(p, i) == LET s == payloadSize(p, i) IN walk(p, i + s.n, i + s.n + s.sz)

\* validityCheck: every element ends where its container says, labels are text, members pair up.
RECURSIVE validAt(_, _, _, _)
validAt(p, i, iEnd, depth) ==
    LET s == payloadSize(p, i)
        xs == elements(p, i)
        ends(k) == IF k = Len(xs) THEN iEnd ELSE xs[k + 1]
    IN  /\ depth <= maxDepth
        /\ s.n > 0 /\ i + s.n + s.sz = iEnd
        /\ eType(p.b, i) = jsonbNull => s.sz = 0
        /\ eType(p.b, i) = jsonbInt => s.sz > 0
        /\ eType(p.b, i) \in {jsonbArray, jsonbObject} =>
              /\ xs # <<>> => last(xs) # -1
              /\ \A k \in DOMAIN xs : validAt(p, xs[k], ends(k), depth + 1)
        /\ eType(p.b, i) = jsonbObject =>
              /\ Len(xs) % 2 = 0
              /\ \A k \in DOMAIN xs : k % 2 = 1 => eType(p.b, xs[k]) \in {jsonbText, jsonbTextRaw}

\* translateBlobToText: what the element at i reads as.
RECURSIVE translateBlobToText(_, _)
translateBlobToText(p, i) ==
    LET s == payloadSize(p, i)
        xs == elements(p, i)
    IN  IF eType(p.b, i) \in {jsonbArray, jsonbObject}
        THEN node(eType(p.b, i), <<>>, [k \in DOMAIN xs |-> translateBlobToText(p, xs[k])])
        ELSE node(eType(p.b, i), SubSeq(p.b, i + s.n + 1, i + s.n + s.sz), <<>>)

\* A value as JSONB (jsonFunctionArgToBlob, and the nodes the parser appends).
RECURSIVE toBlob(_)
toBlob(v) ==
    LET body[k \in 0 .. Len(v.xs)] == IF k = 0 THEN v.p ELSE body[k - 1] \o toBlob(v.xs[k])
    IN  appendNode(v.t, Len(body[Len(v.xs)])) \o body[Len(v.xs)]

----------------------------------------------------------------------------
(* Editing. *)

\* Whether a header of this class can be widened by d cells, and the class it gets.
widened(c, d) ==
    CASE c <= 11 -> d \in {1, 2, 4, 8}
      [] c = 12 -> d \in {1, 3, 7}
      [] c = 13 -> d \in {2, 6}
      [] c = 14 -> d = 4
      [] OTHER -> FALSE

\* The insertion with its header widened by d, so that it takes the place of d more cells.
blobOverwrite(aIns, d) ==
    LET k == nExtra(aIns[1] \div 16)
    IN  header(aIns[1] % 16, Len(aIns) - k - 1, k + d) \o SubSeq(aIns, k + 2, Len(aIns))

\* nDel cells at iDel replaced; a slightly shorter value overwrites in place.
blobEdit(p, iDel, nDel, aIns, over) ==
    LET d == Len(aIns) - nDel
        wide == /\ over /\ d < 0 /\ d >= -8 /\ aIns # <<>> /\ aIns[1] % 16 > 2
                /\ widened(aIns[1] \div 16, -d)
    IN  IF wide THEN [p EXCEPT !.b = splice(@, iDel, nDel, blobOverwrite(aIns, -d))]
        ELSE [p EXCEPT !.b = splice(@, iDel, nDel, aIns), !.delta = @ + d]

\* An edit: its kind, the value, and the path, a sequence of steps: a label, an index from the
\* start, or one from the end ("#-n").
keyStep(key) == [k |-> "key", key |-> key, n |-> 0]
atStep(n) == [k |-> "at", key |-> <<>>, n |-> n]
endStep(n) == [k |-> "end", key |-> <<>>, n |-> n]
Inserts == {"ins", "set", "ains"}

found(p, i) == [p |-> p, rc |-> "ok", i |-> i]
failed(p, rc) == [p |-> p, rc |-> rc, i |-> 0]

\* The path is used up: the edit itself.  iLabel is the label's position, -1 outside an object.
applyEdit(p, e, iRoot, prev, iLabel) ==
    LET s == payloadSize(p, iRoot)
        size == s.n + s.sz
        from == IF iLabel >= 0 THEN iLabel ELSE iRoot
    IN  CASE e.op = "del" -> found(blobEdit(p, from, size + iRoot - from, <<>>, FALSE), iRoot)
          [] e.op \in {"find", "ins"} -> found(p, iRoot)
          [] e.op = "ains" -> IF prev = "key" THEN failed(p, "notarray")
                              ELSE found(blobEdit(p, iRoot, 0, e.v, TRUE), iRoot)
          [] OTHER -> found(blobEdit(p, iRoot, size, e.v, TRUE), iRoot)

\* Back from a member of the element at iRoot: its size follows the edit.
deeper(r, iRoot) == [r EXCEPT !.p = afterEditSizeAdjust([@ EXCEPT !.iDepth = @ - 1], iRoot)]

RECURSIVE lookupStep(_, _, _, _, _, _)

\* What the rest of the path calls for around a new value, and the lookup's outcome.
createEditSubstructure(p, e, path) ==
    LET root == IF path[1].k = "key" THEN jsonbObject ELSE jsonbArray
        inner == [parse(<<root>>) EXCEPT !.iDepth = p.iDepth + 1]
        r == lookupStep(inner, e, 0, path, "", -1)
    IN  IF path = <<>> THEN [b |-> e.v, rc |-> "ok"]
        ELSE IF p.iDepth + 1 >= maxDepth THEN [b |-> <<>>, rc |-> "toodeep"]
        ELSE [b |-> r.p.b, rc |-> r.rc]

\* A new member at j, the end of the element at iRoot.
insertAt(p, e, iRoot, j, label, path) ==
    LET v == createEditSubstructure(p, e, path)
    IN  IF v.rc # "ok" THEN failed(p, v.rc)
        ELSE found(afterEditSizeAdjust(blobEdit(p, j, 0, label \o v.b, FALSE), iRoot), j)

lookupStep(p, e, iRoot, path, prev, iLabel) ==
    LET step == Head(path)
        rest == Tail(path)
        s == payloadSize(p, iRoot)
        xs == elements(p, iRoot)
        iEnd == iRoot + s.n + s.sz
        payload(i) == LET z == payloadSize(p, i) IN SubSeq(p.b, i + z.n + 1, i + z.n + z.sz)
        into(v, label) ==
            IF p.iDepth + 1 >= maxDepth THEN failed(p, "toodeep")
            ELSE deeper(lookupStep([p EXCEPT !.iDepth = @ + 1], e, v, rest, step.k, label), iRoot)
        hits == {k \in DOMAIN xs : k % 2 = 1 /\ payload(xs[k]) = step.key}
        hit == CHOOSE k \in hits : \A m \in hits : k <= m
        kk == IF step.k = "at" THEN step.n ELSE Len(xs) - step.n
        lastIsIndex == rest # <<>> /\ last(rest).k # "key"
    IN  CASE path = <<>> -> applyEdit(p, e, iRoot, prev, iLabel)
          [] path # <<>> /\ step.k = "key" ->
                IF eType(p.b, iRoot) # jsonbObject THEN failed(p, "notfound")
                ELSE IF xs # <<>> /\ last(xs) = -1 THEN failed(p, "malformed")
                ELSE IF hits # {} THEN into(xs[hit + 1], xs[hit])
                ELSE IF e.op \notin Inserts THEN failed(p, "notfound")
                ELSE IF e.op = "ains" /\ ~lastIsIndex THEN failed(p, "notarray")
                ELSE insertAt(p, e, iRoot, iEnd, appendNode(jsonbTextRaw, Len(step.key)) \o step.key, rest)
          [] OTHER ->
                IF eType(p.b, iRoot) # jsonbArray \/ kk < 0 THEN failed(p, "notfound")
                ELSE IF xs # <<>> /\ last(xs) = -1 THEN failed(p, "malformed")
                ELSE IF kk < Len(xs) THEN into(xs[kk + 1], -1)
                ELSE IF kk > Len(xs) \/ e.op \notin Inserts THEN failed(p, "notfound")
                ELSE insertAt(p, e, iRoot, iEnd, <<>>, rest)

----------------------------------------------------------------------------
(* json_patch: RFC 7396's MergePatch, in place. *)

RECURSIVE mergePatch(_, _, _, _, _)
RECURSIVE mergeMembers(_, _, _, _, _, _)

\* One patch member after another; the target's end moves with the pending change.
mergeMembers(t, iTarget, span, pp, ms, depth) ==
    LET pLabel == ms[1]
        pValue == ms[2]
        sl == payloadSize(pp, pLabel)
        sv == payloadSize(pp, pValue)
        label == SubSeq(pp.b, pLabel + 1, pLabel + sl.n + sl.sz)
        value == SubSeq(pp.b, pValue + 1, pValue + sv.n + sv.sz)
        iTEnd == span.end + t.delta
        xs == walk(t, span.start, iTEnd)
        name(q, i) == LET z == payloadSize(q, i) IN SubSeq(q.b, i + z.n + 1, i + z.n + z.sz)
        hits == {k \in DOMAIN xs : k % 2 = 1 /\ name(t, xs[k]) = name(pp, pLabel)}
        hit == CHOOSE k \in hits : \A m \in hits : k <= m
        size(i) == LET z == payloadSize(t, i) IN z.n + z.sz
        nested(q, i) ==
            LET r == mergePatch([q EXCEPT !.delta = 0], i, pp, pValue, depth + 1)
            IN  IF depth >= maxDepth THEN failed(q, "toodeep")
                ELSE [r EXCEPT !.p.delta = @ + q.delta]
        one == CASE hits # {} /\ eType(pp.b, pValue) = jsonbNull ->
                      found(blobEdit(t, xs[hit], size(xs[hit]) + size(xs[hit + 1]), <<>>, FALSE), 0)
                 [] hits # {} /\ eType(pp.b, pValue) # jsonbNull -> nested(t, xs[hit + 1])
                 [] hits = {} /\ eType(pp.b, pValue) = jsonbNull -> found(t, 0)
                 [] hits = {} /\ eType(pp.b, pValue) = jsonbObject ->
                      nested(blobEdit(t, iTEnd, 0, label \o <<0>>, FALSE), iTEnd + Len(label))
                 [] OTHER -> found(blobEdit(t, iTEnd, 0, label \o value, FALSE), 0)
    IN  IF ms = <<>> THEN found(afterEditSizeAdjust(t, iTarget), 0)
        ELSE IF xs # <<>> /\ last(xs) = -1 THEN failed(t, "malformed")
        ELSE IF one.rc # "ok" THEN one
        ELSE mergeMembers(one.p, iTarget, span, pp, SubSeq(ms, 3, Len(ms)), depth)

\* A target that is no object becomes an empty one; its size is corrected with the pending change.
emptied(t, i) ==
    LET s == payloadSize(t, i)
    IN  IF eType(t.b, i) = jsonbObject THEN t
        ELSE [blobEdit(t, i + s.n, s.sz, <<>>, FALSE) EXCEPT !.b[i + 1] = (@ - (@ % 16)) + jsonbObject]

mergePatch(t, iTarget, pp, iPatch, depth) ==
    LET sp == payloadSize(pp, iPatch)
        st == payloadSize(t, iTarget)
        t1 == emptied(t, iTarget)
        s1 == payloadSize(t1, iTarget)
        start == iTarget + s1.n
    IN  IF eType(pp.b, iPatch) # jsonbObject
        THEN found(blobEdit(t, iTarget, st.n + st.sz,
                            SubSeq(pp.b, iPatch + 1, iPatch + sp.n + sp.sz), TRUE), 0)
        ELSE mergeMembers(t1, iTarget, [start |-> start, end |-> start + s1.sz], pp,
                          elements(pp, iPatch), depth)

----------------------------------------------------------------------------
(* json_each and json_tree: a cursor over the cells, with the containers   *)
(* above the current element.                                              *)

\* The current value: past the label when the container is an object.
skipLabel(b, c) ==
    LET s == payloadSize(parse(b), c.i)
    IN  IF c.eType = jsonbObject /\ c.i + s.n + s.sz < Len(b) THEN c.i + s.n + s.sz ELSE c.i

\* The path with the current element's step.
appendPathName(b, c) ==
    LET s == payloadSize(parse(b), c.i)
    IN  Append(c.path, IF c.eType = jsonbArray THEN atStep(last(c.parents).iKey)
                       ELSE keyStep(SubSeq(b, c.i + s.n + 1, c.i + s.n + s.sz)))

\* The row at the cursor: id, value's position, parent's id and full key.
rowAt(b, c) ==
    [id |-> c.i, value |-> skipLabel(b, c),
     parent |-> IF c.parents # <<>> /\ c.recursive THEN last(c.parents).iHead ELSE -1,
     fullkey |-> IF c.parents = <<>> THEN c.path ELSE appendPathName(b, c)]

\* The containers the cursor has run out of, left with the part of the path they added.
popped(c) ==
    LET open == {k \in DOMAIN c.parents : c.i < c.parents[k].iEnd}
        n == Cardinality(open)
    IN  IF n = Len(c.parents) THEN c
        ELSE [c EXCEPT !.parents = SubSeq(@, 1, n), !.path = SubSeq(@, 1, c.parents[n + 1].nPath)]

nextRow(b, c) ==
    LET i == skipLabel(b, c)
        s == payloadSize(parse(b), i)
        enters == c.recursive /\ eType(b, i) \in {jsonbArray, jsonbObject}
        moved == IF enters
                 THEN [c EXCEPT !.i = i + s.n,
                                !.path = IF c.eType # 0 /\ c.parents # <<>> THEN appendPathName(b, c) ELSE @,
                                !.parents = Append(@, [iHead |-> c.i, iValue |-> i, iKey |-> -1,
                                                       iEnd |-> i + s.n + s.sz, nPath |-> Len(c.path)])]
                 ELSE [c EXCEPT !.i = i + s.n + s.sz]
        left == IF c.recursive THEN popped(moved) ELSE moved
        typed == IF c.recursive
                 THEN [left EXCEPT !.eType = IF left.parents = <<>> THEN 0
                                             ELSE eType(b, last(left.parents).iValue)]
                 ELSE left
    IN  IF typed.eType = jsonbArray /\ typed.parents # <<>>
        THEN [typed EXCEPT !.parents[Len(typed.parents)].iKey = @ + 1] ELSE typed

\* Filter: json_each or json_tree opened over the document.
opened(b, recursive) ==
    LET s == payloadSize(parse(b), 0)
        flat == ~recursive /\ eType(b, 0) \in {jsonbArray, jsonbObject}
    IN  [i |-> IF flat THEN s.n ELSE 0, iEnd |-> s.n + s.sz, recursive |-> recursive,
         eType |-> IF flat THEN eType(b, 0) ELSE 0, path |-> <<>>,
         parents |-> IF flat THEN <<[iHead |-> s.n, iValue |-> 0, iKey |-> 0,
                                     iEnd |-> s.n + s.sz, nPath |-> 0]>> ELSE <<>>]

\* The rows from a cursor to its end.
RECURSIVE rowsFrom(_, _)
rowsFrom(b, c) == IF c.i >= c.iEnd THEN <<>> ELSE <<rowAt(b, c)>> \o rowsFrom(b, nextRow(b, c))

----------------------------------------------------------------------------
(* The calls.  The reference: the same edit on the document. *)

RECURSIVE Built(_, _)
Built(path, v) ==
    IF path = <<>> THEN [ok |-> TRUE, v |-> v]
    ELSE LET in == Built(Tail(path), v)
         IN  IF path[1].k = "key"
             THEN [in EXCEPT !.v = node(jsonbObject, <<>>, <<node(jsonbTextRaw, path[1].key, <<>>), @>>)]
             ELSE [ok |-> in.ok /\ path[1].n = 0, v |-> node(jsonbArray, <<>>, <<in.v>>)]

RECURSIVE Edited(_, _, _, _)
Edited(d, op, path, v) ==
    LET step == Head(path)
        rest == Tail(path)
        hits == {k \in DOMAIN d.xs : k % 2 = 1 /\ d.xs[k].p = step.key}
        at == CASE step.k = "key" -> IF hits = {} THEN Len(d.xs) + 1
                                     ELSE (CHOOSE k \in hits : \A m \in hits : k <= m) + 1
                [] step.k = "at" -> step.n + 1
                [] OTHER -> Len(d.xs) - step.n + 1
        fits == d.t = IF step.k = "key" THEN jsonbObject ELSE jsonbArray
        from == IF step.k = "key" THEN at - 2 ELSE at - 1
        new == Built(rest, v)
        label == IF step.k = "key" THEN <<node(jsonbTextRaw, step.key, <<>>)>> ELSE <<>>
    IN  CASE ~fits \/ at > Len(d.xs) + 1 \/ at < 1 -> d
          [] fits /\ at = Len(d.xs) + 1 ->
                IF op \notin Inserts \/ ~new.ok THEN d ELSE [d EXCEPT !.xs = @ \o label \o <<new.v>>]
          [] fits /\ at \in DOMAIN d.xs /\ rest = <<>> ->
                CASE op = "del" -> [d EXCEPT !.xs = splice(@, from, at - from, <<>>)]
                  [] op = "ins" -> d
                  [] op = "ains" -> [d EXCEPT !.xs = splice(@, at - 1, 0, <<v>>)]
                  [] OTHER -> [d EXCEPT !.xs[at] = v]
          [] OTHER -> [d EXCEPT !.xs[at] = Edited(@, op, rest, v)]

RECURSIVE Patched(_, _)
Patched(d, patch) ==
    LET base == IF d.t = jsonbObject THEN d ELSE node(jsonbObject, <<>>, <<>>)
        hit(o, key) == {k \in DOMAIN o.xs : k % 2 = 1 /\ o.xs[k].p = key.p}
        one(o, key, v) ==
            LET hs == hit(o, key)
                k == CHOOSE j \in hs : \A m \in hs : j <= m
            IN  CASE hs = {} /\ v.t = jsonbNull -> o
                  [] hs = {} /\ v.t # jsonbNull ->
                        [o EXCEPT !.xs = @ \o <<key, Patched(node(jsonbNull, <<>>, <<>>), v)>>]
                  [] hs # {} /\ v.t = jsonbNull -> [o EXCEPT !.xs = splice(@, k - 1, 2, <<>>)]
                  [] OTHER -> [o EXCEPT !.xs[k + 1] = Patched(@, v)]
        upTo[m \in 0 .. Len(patch.xs) \div 2] ==
            IF m = 0 THEN base ELSE one(upTo[m - 1], patch.xs[2 * m - 1], patch.xs[2 * m])
    IN  IF patch.t # jsonbObject THEN patch ELSE upTo[Len(patch.xs) \div 2]

\* json_set, json_insert, json_replace, json_array_insert and json_remove of one path, a path that is
\* the whole document, and json_patch.  A path not found changes nothing, another failure ends the
\* call; the document is edited where the blob is.
Asked(op, path, v) == [op |-> op, path |-> path, v |-> v]
Edits == {Asked(op, path, v) : op \in {"set", "ins", "repl", "ains", "del"}, path \in Paths, v \in Values}
         \cup {Asked("root", <<>>, v) : v \in Values} \cup {Asked("patch", <<>>, d) : d \in Patches}

Looked(b, e) == lookupStep(parse(b), [op |-> e.op, v |-> toBlob(e.v)], 0, e.path, "", -1)
Merged(b, e) == mergePatch(parse(b), 0, parse(toBlob(e.v)), 0, 0)
applied(s, e) ==
    LET r == IF e.op = "patch" THEN Merged(s.blob, e) ELSE Looked(s.blob, e)
    IN  IF e.op = "root" THEN [blob |-> blobEdit(parse(s.blob), 0, Len(s.blob), toBlob(e.v), TRUE).b, doc |-> e.v]
        ELSE IF r.rc # "ok" THEN s
        ELSE [blob |-> r.p.b,
              doc |-> IF e.op = "patch" THEN Patched(s.doc, e.v) ELSE Edited(s.doc, e.op, e.path, e.v)]

NoEdit == [op |-> "none"]

Init == doc \in Docs /\ edit = NoEdit
Next == edit = NoEdit /\ edit' \in Edits /\ UNCHANGED doc

Spec == Init /\ [][Next]_vars

----------------------------------------------------------------------------
RECURSIVE Levels(_)
Levels(d) == 1 + LET below == {Levels(d.xs[k]) : k \in DOMAIN d.xs}
                 IN  IF below = {} THEN 0 ELSE CHOOSE n \in below : \A m \in below : m <= n

BlobIsTheDocument(s) ==
    /\ validAt(parse(s.blob), 0, Len(s.blob), 1) <=> Levels(s.doc) <= maxDepth
    /\ translateBlobToText(parse(s.blob), 0) = s.doc

RECURSIVE NodesOf(_)
NodesOf(d) ==
    LET kids == IF d.t = jsonbObject THEN {k \in DOMAIN d.xs : k % 2 = 0} ELSE DOMAIN d.xs
        sum[k \in 0 .. Len(d.xs)] ==
            IF k = 0 THEN 1 ELSE sum[k - 1] + (IF k \in kids THEN NodesOf(d.xs[k]) ELSE 0)
    IN  sum[Len(d.xs)]

RowsAreTheDocument(s, recursive) ==
    LET rows == rowsFrom(s.blob, opened(s.blob, recursive))
    IN  /\ \A j, k \in DOMAIN rows : j < k => rows[j].id < rows[k].id
        /\ \A j \in DOMAIN rows :
              LET r == Looked(s.blob, [op |-> "find", path |-> rows[j].fullkey, v |-> s.doc])
              IN  r.rc # "toodeep" => r.rc = "ok" /\ r.i = rows[j].value
        /\ recursive => Len(rows) = NodesOf(s.doc)
        /\ \A j \in DOMAIN rows :
              rows[j].parent # -1 => \E k \in 1 .. j - 1 : rows[k].id = rows[j].parent

\* After one edit and another every header holds the size of what it spans and the blob reads as the
\* document edited the same way: sizes above an edit follow it, headers that grow or shrink included,
\* and a value written over a longer one keeps its place (lookupStep, blobEdit, jsonMergePatch).  Only
\* values nested into values can take it past the depth json_valid accepts.  A cursor gives every
\* element once, in document order, and the full key of each row, looked up, finds that row's element
\* (jsonEachCursor.next, appendPathName).
EditsKeepTheBlob ==
    LET s == [blob |-> toBlob(doc), doc |-> doc]
        one == applied(s, edit)
        more == IF one = s THEN {} ELSE {applied(one, e) : e \in Edits}
    IN  edit # NoEdit =>
            /\ \A two \in {one} \cup more : BlobIsTheDocument(two)
            /\ one # s => \A recursive \in BOOLEAN : RowsAreTheDocument(one, recursive)

-----------------------------------------------------------------------------
\* Small documents whose sizes sit at the edges of the header classes: a
\* header holds up to 2, one size cell up to 5.

int(p) == node(jsonbInt, p, <<>>)
null == node(jsonbNull, <<>>, <<>>)
text(p) == node(jsonbTextRaw, p, <<>>)
arr(xs) == node(jsonbArray, <<>>, xs)
obj(xs) == node(jsonbObject, <<>>, xs)

a == text(<<1>>)
b == text(<<2, 2>>)

MCDocs == {obj(<<>>),
           obj(<<a, int(<<1>>)>>),
           obj(<<a, obj(<<b, int(<<1, 2>>)>>), b, null>>),
           obj(<<b, obj(<<a, arr(<<int(<<1, 2, 3, 4, 5>>), int(<<1>>)>>)>>)>>),
           arr(<<int(<<1>>), obj(<<a, int(<<2>>)>>)>>),
           arr(<<arr(<<>>), arr(<<int(<<1>>)>>)>>),
           int(<<1, 2, 3>>)}
MCValues == {null, int(<<5>>), int(<<5, 6, 7>>), text(<<5, 6, 7, 8, 9>>),
             obj(<<a, arr(<<int(<<1>>)>>)>>)}
MCPaths == {<<keyStep(<<1>>)>>, <<keyStep(<<2, 2>>)>>, <<atStep(0)>>, <<atStep(1)>>, <<endStep(0)>>,
            <<endStep(1)>>,
            <<keyStep(<<1>>), keyStep(<<2, 2>>)>>, <<keyStep(<<2, 2>>), keyStep(<<1>>), atStep(0)>>,
            <<keyStep(<<1>>), endStep(0)>>, <<atStep(1), keyStep(<<1>>)>>,
            <<atStep(0), atStep(0), keyStep(<<1>>)>>, <<keyStep(<<2, 2>>), keyStep(<<1>>), endStep(1)>>,
            <<atStep(0), atStep(0), keyStep(<<1>>), keyStep(<<1>>), atStep(0)>>}
MCPatches == {null, obj(<<>>), obj(<<a, null>>), obj(<<a, int(<<7, 7, 7>>)>>),
              obj(<<b, obj(<<a, null, b, int(<<7>>)>>), a, int(<<8>>)>>),
              obj(<<a, obj(<<b, obj(<<a, int(<<9>>)>>)>>), b, null>>),
              obj(<<a, arr(<<null>>), b, obj(<<>>)>>)}
=============================================================================
