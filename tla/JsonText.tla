------------------------------ MODULE JsonText ------------------------------
(***************************************************************************)
(* JSON text to JSONB and back (pkg/sqlfn/sqlite_jsonb.go): a parser of    *)
(* RFC-8259 and JSON5 that notes whether it used more than RFC-8259, the   *)
(* check of JSONB's scalars, the rendering as canonical text, plain and    *)
(* indented, and the SQL value of a scalar.  Text is a sequence of         *)
(* characters; a word (true, null, inf...) counts as one.  Module Jsonb    *)
(* has the sizes: here an element is its type, payload and, for a          *)
(* container, the number of elements in it.                                *)
(***************************************************************************)
EXTENDS Integers, Sequences, FiniteSets, TLC

CONSTANTS Texts,        \* the texts parsed
          Raws,         \* SQL texts made TEXTRAW elements
          uHex, xHex,   \* hex digits of \u (4) and \x (2)
          hexDigits,    \* hex digits of the widest integer (16)
          maxInt,       \* the largest integer (2^63 - 1)
          maxDepth      \* jsonMaxDepth

VARIABLES input         \* the JSON text given, or an SQL text

vars == <<input>>

dq == "\""
sq == "'"
bs == "\\"

Digit == {"0", "1", "2", "3", "4", "5", "6", "7", "8", "9"}
Hex == Digit \cup {"a", "b", "c", "d", "e", "f"}
Words == {"true", "null", "inf", "inity", "nan"}
Letter == {"a", "b", "c", "d", "e", "f", "n", "r", "u", "v", "x"} \cup Words
Space == {" ", "nl", "cr"}
Wide == {"nbsp", "ls"}                       \* spaces of more than one byte
Control == {"nl", "cr", "vt"}
Simple == {dq, bs, "/", "b", "f", "n", "r"}   \* escapes of one letter
Id1 == Letter \cup Wide
Id2 == Id1 \cup Digit

at(z, k) == IF k \in DOMAIN z THEN z[k] ELSE ""
jsonIsOk(c) == c \notin Control \cup {dq, sq, bs, ""}
isHex(z, k, n) == \A j \in k .. k + n - 1 : at(z, j) \in Hex
least(S) == CHOOSE k \in S : \A m \in S : k <= m
spaces(z, k) == least({j \in k .. Len(z) + 1 : at(z, j) \notin Space})
cut(z, a, b) == SubSeq(z, a, b - 1)

\* The first index past JSON5's white space and comments.
RECURSIVE json5Whitespace(_, _)
json5Whitespace(z, k) ==
    LET block == {j \in k + 3 .. Len(z) : z[j] = "/" /\ z[j - 1] = "*"}
        line == {j \in k + 2 .. Len(z) : z[j] \in {"nl", "cr", "ls"}}
    IN  CASE at(z, k) \in Space \cup Wide \cup {"vt"} -> json5Whitespace(z, k + 1)
          [] at(z, k) = "/" /\ at(z, k + 1) = "*" /\ block # {} -> json5Whitespace(z, least(block) + 1)
          [] at(z, k) = "/" /\ at(z, k + 1) = "/" ->
                IF line = {} THEN Len(z) + 1 ELSE json5Whitespace(z, least(line) + 1)
          [] OTHER -> k

----------------------------------------------------------------------------
(* The parser: its text, elements so far, use of JSON5, depth, and where a *)
(* punctuation mark stopped it.                                            *)

newParse(z) == [z |-> z, blob |-> <<>>, nonstd |-> FALSE, depth |-> 0, iErr |-> 0]
result(x, p) == [x |-> x, p |-> p]
syntaxError(p) == result(-1, p)
elem(t, pl) == [t |-> t, p |-> pl, n |-> 0]
appendNode(p, t, pl) == [p EXCEPT !.blob = Append(@, elem(t, pl))]
loosely(p) == [p EXCEPT !.nonstd = TRUE]

Infinity == <<"9", "e", "9", "9", "9">>

Ended == [j |-> -1, t |-> "", five |-> FALSE]

\* The string from k to its delimiter: where that is, the element's type, and JSON5 in it.
stringEnd(z, k, delim) ==
    LET RECURSIVE scan(_, _, _)
        scan(j, t, five) ==
            LET c == at(z, j)
                d == at(z, j + 1)
            IN  CASE c = delim -> [j |-> j, t |-> t, five |-> five]
                  [] c = "" -> Ended
                  [] c = bs ->
                        IF \/ d \in Simple
                           \/ d = "u" /\ isHex(z, j + 2, uHex)
                        THEN scan(j + 2, IF t = "text" THEN "textJ" ELSE t, five)
                        ELSE IF \/ d \in {sq, "v", "nl", "ls"}
                                \/ d = "0" /\ at(z, j + 2) \notin Digit
                                \/ d = "x" /\ isHex(z, j + 2, xHex)
                        THEN scan(j + 2, "text5", TRUE)
                        ELSE IF d = "cr"
                        THEN scan(IF at(z, j + 2) = "nl" THEN j + 3 ELSE j + 2, "text5", TRUE)
                        ELSE Ended
                  [] c \in Control -> scan(j + 1, "text5", TRUE)
                  [] c = dq /\ delim # dq -> scan(j + 1, "text5", five)
                  [] OTHER -> scan(j + 1, t, five)
    IN  scan(k, "text", delim = sq)

\* Digits, a point and an exponent from j on: the end, or -1, and whether it is a float, and JSON5.
digitsEnd(z, i, k, real0, five0) ==
    LET RECURSIVE scan(_, _, _, _)
        bare(j) == at(z, j - 1) \notin Digit
        point(j) == at(z, j - 1) = "." /\ j - 2 >= i /\ at(z, j - 2) \in Digit
        scan(j, real, five, seenE) ==
            LET c == at(z, j)
                past == IF at(z, j + 1) \in {"+", "-"} THEN j + 2 ELSE j + 1
                bad == [j |-> -1, real |-> real, five |-> five]
            IN  CASE c \in Digit -> scan(j + 1, real, five, seenE)
                  [] c = "." -> IF real THEN bad ELSE scan(j + 1, TRUE, five, seenE)
                  [] c = "e" -> IF (bare(j) /\ ~point(j)) \/ seenE \/ at(z, past) \notin Digit THEN bad
                                ELSE scan(past, TRUE, five \/ bare(j), TRUE)
                  [] OTHER -> IF bare(j) /\ ~point(j) THEN bad
                              ELSE [j |-> j, real |-> real, five |-> five \/ bare(j)]
    IN  scan(k, real0, five0, FALSE)

numberType(real, five) == CASE ~real /\ ~five -> "int" [] ~real /\ five -> "int5"
                            [] real /\ ~five -> "float" [] OTHER -> "float5"

translateNumber(p, i) ==
    LET z == p.z
        signed == z[i] \in {"+", "-"}
        k == IF signed THEN i + 1 ELSE i                 \* the first digit
        from == IF z[i] = "+" THEN i + 1 ELSE i          \* a plus is not kept
        hex == at(z, k) = "0" /\ at(z, k + 1) = "x" /\ at(z, k + 2) \in Hex
        hexEnd == least({j \in k + 2 .. Len(z) + 1 : at(z, j) \notin Hex})
        dotted == at(z, k) = "."
        d == digitsEnd(z, i, i + 1, dotted /\ ~signed, dotted)
        p1 == IF z[i] = "+" THEN loosely(p) ELSE p
        infinity == appendNode(loosely(p), "float", (IF z[i] = "-" THEN <<"-">> ELSE <<>>) \o Infinity)
    IN  CASE hex -> result(hexEnd, appendNode(loosely(p), "int5", cut(z, from, hexEnd)))
          [] ~hex /\ at(z, k) = "0" /\ at(z, k + 1) \in Digit -> syntaxError(p)
          [] ~signed /\ dotted /\ at(z, i + 1) \notin Digit -> syntaxError(p)
          [] signed /\ at(z, k) = "inf" ->
                result(IF at(z, k + 1) = "inity" THEN k + 2 ELSE k + 1, infinity)
          [] signed /\ at(z, k) \notin Digit \cup {".", "inf"} -> syntaxError(p)
          [] OTHER -> IF d.j = -1 THEN syntaxError(p)
                      ELSE result(d.j, appendNode(IF d.five THEN loosely(p1) ELSE p1,
                                                  numberType(d.real, d.five), cut(z, from, d.j)))

translateNanInf(p, i) ==
    LET z == p.z
        word(n) == at(z, i + n) \notin Letter \cup Digit
    IN  CASE at(z, i) = "inf" /\ word(1) -> result(i + 1, appendNode(loosely(p), "float", Infinity))
          [] at(z, i) = "inf" /\ at(z, i + 1) = "inity" /\ word(2) ->
                result(i + 2, appendNode(loosely(p), "float", Infinity))
          [] at(z, i) = "nan" /\ word(1) -> result(i + 1, appendNode(loosely(p), "null", <<>>))
          [] OTHER -> syntaxError(p)

RECURSIVE translateTextToBlob(_, _)
RECURSIVE members(_, _, _)
RECURSIVE items(_, _, _)

\* The comma or closing mark after a member: the mark and its index.
separator(p, j0, close) ==
    LET z == p.z
        j == IF at(z, j0) \in Space THEN spaces(z, j0) ELSE j0
        r == translateTextToBlob(p, j)
        mark(c, k, q) == [c |-> c, j |-> k, p |-> q]
    IN  CASE at(z, j) \in {",", close} -> mark(at(z, j), j, p)
          [] at(z, j) \notin {",", close} /\ r.x = -4 -> mark(",", r.p.iErr, r.p)
          [] at(z, j) \notin {",", close} /\ r.x = (IF close = "}" THEN -2 ELSE -3) ->
                mark(close, r.p.iErr, r.p)
          [] OTHER -> mark("", 0, p)

\* The container at iThis ends at j.
closed(p, iThis, j) ==
    result(j + 1, [p EXCEPT !.blob[iThis].n = Len(p.blob) - iThis, !.depth = @ - 1])

\* It ends where a member could be: after a comma, if it has members.
closedAtMember(p, iThis, j) == closed(IF Len(p.blob) = iThis THEN p ELSE loosely(p), iThis, j)

\* A label that is no string: an identifier.
label(p, r, j) ==
    LET z == p.z
        k == json5Whitespace(z, j)
        escape(m) == at(z, m) = bs /\ at(z, m + 1) = "u" /\ isHex(z, m + 2, uHex)
        inside(m) == (at(z, m) \in Id2 /\ json5Whitespace(z, m) = m) \/ escape(m)
        end == least({m \in k + 1 .. Len(z) + 1 : ~inside(m)})
        t == IF \E m \in k .. end - 1 : escape(m) THEN "textJ" ELSE "text"
    IN  IF r.x > 0 THEN r
        ELSE IF at(z, k) \in Id1 \/ escape(k)
        THEN result(end, appendNode(loosely(r.p), t, cut(z, k, end)))
        ELSE syntaxError(r.p)

isText(e) == e.t \in {"text", "textJ", "text5", "textRaw"}

\* The index past the colon that follows a label.
colon(p, j0) ==
    LET j == IF at(p.z, j0) \in Space THEN spaces(p.z, j0) ELSE j0
        r == translateTextToBlob(p, j)
    IN  IF at(p.z, j) = ":" THEN result(j + 1, p)
        ELSE IF r.x = -5 THEN result(r.p.iErr + 1, r.p) ELSE syntaxError(p)

\* The members of the object at iThis, the first at j.
members(p, iThis, j) ==
    LET r == translateTextToBlob(p, j)
        k == label(p, r, j)
        c == colon(k.p, k.x)
        v == translateTextToBlob(c.p, c.x)
        s == separator(v.p, v.x, "}")
    IN  IF r.x = -2 THEN closedAtMember(r.p, iThis, r.p.iErr)
        ELSE IF k.x <= 0 \/ ~isText(k.p.blob[Len(p.blob) + 1]) THEN syntaxError(p)
        ELSE IF c.x <= 0 \/ v.x <= 0 \/ s.c = "" THEN syntaxError(p)
        ELSE IF s.c = "," THEN members(s.p, iThis, s.j + 1)
        ELSE closed(s.p, iThis, s.j)

items(p, iThis, j) ==
    LET v == translateTextToBlob(p, j)
        s == separator(v.p, v.x, "]")
    IN  IF v.x = -3 THEN closedAtMember(v.p, iThis, v.p.iErr)
        ELSE IF v.x <= 0 \/ s.c = "" THEN syntaxError(p)
        ELSE IF s.c = "," THEN items(s.p, iThis, s.j + 1)
        ELSE closed(s.p, iThis, s.j)

translateTextToBlob(p, i) ==
    LET z == p.z
        c == at(z, i)
        str == stringEnd(z, i + 1, c)
        word(w) == c = w /\ at(z, i + 1) \notin Letter \cup Digit
        deeper(t) == [appendNode(p, t, <<>>) EXCEPT !.depth = @ + 1]
        stopped(x) == result(x, [p EXCEPT !.iErr = i])
        k == json5Whitespace(z, i)
    IN  CASE c = "{" -> IF p.depth >= maxDepth THEN syntaxError(p)
                        ELSE members(deeper("object"), Len(p.blob) + 1, i + 1)
          [] c = "[" -> IF p.depth >= maxDepth THEN syntaxError(p)
                        ELSE items(deeper("array"), Len(p.blob) + 1, i + 1)
          [] c \in {dq, sq} ->
                IF str.j = -1 THEN syntaxError(p)
                ELSE result(str.j + 1, appendNode(IF str.five THEN loosely(p) ELSE p, str.t, cut(z, i + 1, str.j)))
          [] c \in {"true", "null"} /\ word(c) -> result(i + 1, appendNode(p, c, <<>>))
          [] c \in {"+", "-", "."} \cup Digit -> translateNumber(p, i)
          [] c = "}" -> stopped(-2)
          [] c = "]" -> stopped(-3)
          [] c = "," -> stopped(-4)
          [] c = ":" -> stopped(-5)
          [] c = "" -> result(0, p)
          [] c \in Space -> translateTextToBlob(p, spaces(z, i))
          [] c \in Wide \cup {"vt", "/"} ->
                IF k = i THEN syntaxError(p) ELSE translateTextToBlob(loosely(p), k)
          [] OTHER -> translateNanInf(p, i)

Rejected == [ok |-> FALSE, blob |-> <<>>, nonstd |-> FALSE]

\* The whole text, white space after it included.
convertTextToBlob(z) ==
    LET r == translateTextToBlob(newParse(z), 1)
        j == spaces(z, r.x)
        k == json5Whitespace(z, j)
    IN  IF z = <<>> \/ r.x <= 0 THEN Rejected
        ELSE IF at(z, k) # "" THEN Rejected
        ELSE [ok |-> TRUE, blob |-> r.p.blob, nonstd |-> r.p.nonstd \/ j <= Len(z)]

----------------------------------------------------------------------------
(* JSONB's scalars: the check json_valid makes, and their text. *)

isFloat(w, five) ==
    LET k == IF w[1] = "-" THEN 2 ELSE 1
    IN  /\ Len(w) >= k + 1
        /\ \A j \in k .. Len(w) : w[j] \in Digit \cup {".", "e", "+", "-"}
        /\ w[k] = "." => five /\ at(w, k + 1) \in Digit
        /\ w[k] = "0" /\ ~five => at(w, k + 1) \in {".", "e"} /\ Len(w) >= k + 2
        /\ \A j \in k .. Len(w) :
              /\ w[j] = "." => /\ \A m \in k .. j - 1 : w[m] \in Digit
                               /\ five \/ at(w, j + 1) \in Digit
              /\ w[j] = "e" => /\ \A m \in k .. j - 1 : w[m] # "e"
                               /\ j < Len(w)
                               /\ w[j + 1] \in {"+", "-"} => j + 2 <= Len(w)
              /\ w[j] \in {"+", "-"} => j > k /\ w[j - 1] = "e"
        /\ \E j \in k .. Len(w) : w[j] \in {".", "e"}

\* The index past the escape at j, -1 for one that is not of this element type.
escapeEnd(w, j, t) ==
    LET d == at(w, j + 1)
    IN  CASE d \in Simple -> j + 2
          [] d = "u" -> IF isHex(w, j + 2, uHex) THEN j + 2 ELSE -1
          [] d \in {sq, "v", "nl", "ls"} -> IF t = "text5" THEN j + 2 ELSE -1
          [] d = "cr" -> IF t # "text5" THEN -1 ELSE IF at(w, j + 2) = "nl" THEN j + 3 ELSE j + 2
          [] d = "0" -> IF t = "text5" /\ at(w, j + 2) \notin Digit THEN j + 2 ELSE -1
          [] d = "x" -> IF t = "text5" /\ Len(w) >= j + 1 + xHex THEN j + 2 + xHex ELSE -1
          [] OTHER -> -1

RECURSIVE escapesFit(_, _, _)
escapesFit(w, j, t) ==
    LET c == at(w, j)
    IN  CASE c = "" -> TRUE
          [] jsonIsOk(c) \/ c = sq -> escapesFit(w, j + 1, t)
          [] c = bs -> escapeEnd(w, j, t) # -1 /\ escapesFit(w, escapeEnd(w, j, t), t)
          [] OTHER -> t = "text5" /\ escapesFit(w, j + 1, t)

validityCheck(e) ==
    LET w == e.p
        k == IF w # <<>> /\ w[1] = "-" THEN 2 ELSE 1
    IN  CASE e.t \in {"null", "true"} -> w = <<>>
          [] e.t = "int" -> Len(w) >= k /\ \A j \in k .. Len(w) : w[j] \in Digit
          [] e.t = "int5" -> /\ Len(w) >= k + 2 /\ w[k] = "0" /\ w[k + 1] = "x"
                             /\ \A j \in k + 2 .. Len(w) : w[j] \in Hex
          [] e.t \in {"float", "float5"} -> isFloat(w, e.t = "float5")
          [] e.t = "text" -> \A j \in DOMAIN w : jsonIsOk(w[j]) \/ w[j] = sq
          [] e.t \in {"textJ", "text5"} -> escapesFit(w, 1, e.t)
          [] OTHER -> TRUE

Digits16 == <<"0", "1", "2", "3", "4", "5", "6", "7", "8", "9", "a", "b", "c", "d", "e", "f">>
digitValue(c) == (CHOOSE k \in 1 .. 16 : Digits16[k] = c) - 1
value(w, base) ==
    LET val[j \in 0 .. Len(w)] == IF j = 0 THEN 0 ELSE val[j - 1] * base + digitValue(w[j])
    IN  val[Len(w)]
RECURSIVE decimal(_)
decimal(n) == (IF n < 10 THEN <<>> ELSE decimal(n \div 10)) \o <<Digits16[(n % 10) + 1]>>
stripped(w) == SubSeq(w, least({j \in 1 .. Len(w) + 1 : at(w, j) # "0"}), Len(w))
sign(w) == IF w[1] = "-" THEN <<"-">> ELSE <<>>
unsigned(w) == SubSeq(w, Len(sign(w)) + 1, Len(w))
hexPart(w) == stripped(SubSeq(unsigned(w), 3, Len(unsigned(w))))

\* A hex integer in decimal, or an infinity when its digits are too many.
int5Text(w) ==
    sign(w) \o IF Len(hexPart(w)) > hexDigits THEN <<"9", ".", "0", "e", "9", "9", "9">>
               ELSE decimal(value(hexPart(w), 16))

\* A JSON5 float with the digits RFC-8259 wants around its point.
float5Text(w) ==
    LET u == unsigned(w)
        done[j \in 0 .. Len(u)] ==
            IF j = 0 THEN IF u[1] = "." THEN <<"0">> ELSE <<>>
            ELSE done[j - 1] \o <<u[j]>> \o IF u[j] = "." /\ at(u, j + 1) \notin Digit THEN <<"0">> ELSE <<>>
    IN  sign(w) \o done[Len(u)]

unicode(h) == <<bs, "u">> \o [j \in 1 .. uHex - Len(h) |-> "0"] \o h
appendControlChar(c) == CASE c = "nl" -> <<bs, "n">> [] c = "cr" -> <<bs, "r">> [] OTHER -> unicode(<<"b">>)

\* JSON5 text with the escapes of RFC-8259.
RECURSIVE text5Text(_, _)
text5Text(w, j) ==
    LET c == at(w, j)
        d == at(w, j + 1)
        rest(k) == text5Text(w, k)
    IN  CASE c = "" -> <<>>
          [] jsonIsOk(c) \/ c = sq -> <<c>> \o rest(j + 1)
          [] c = dq -> <<bs, dq>> \o rest(j + 1)
          [] c \in Control -> appendControlChar(c) \o rest(j + 1)
          [] c = bs /\ d = sq -> <<sq>> \o rest(j + 2)
          [] c = bs /\ d = "v" -> unicode(<<"b">>) \o rest(j + 2)
          [] c = bs /\ d = "x" -> unicode(SubSeq(w, j + 2, j + 1 + xHex)) \o rest(j + 2 + xHex)
          [] c = bs /\ d = "0" -> unicode(<<"0">>) \o rest(j + 2)
          [] c = bs /\ d = "cr" -> rest(IF at(w, j + 2) = "nl" THEN j + 3 ELSE j + 2)
          [] c = bs /\ d \in {"nl", "ls"} -> rest(j + 2)
          [] OTHER -> <<c, d>> \o rest(j + 2)

\* Any text as a JSON string.
appendString(w) ==
    LET out[j \in 0 .. Len(w)] ==
            IF j = 0 THEN <<>>
            ELSE out[j - 1] \o CASE jsonIsOk(w[j]) \/ w[j] = sq -> <<w[j]>>
                                 [] w[j] \in {dq, bs} -> <<bs, w[j]>>
                                 [] OTHER -> appendControlChar(w[j])
    IN  out[Len(w)]

scalarText(e) ==
    CASE e.t \in {"null", "true"} -> <<e.t>>
      [] e.t \in {"int", "float"} -> e.p
      [] e.t = "int5" -> int5Text(e.p)
      [] e.t = "float5" -> float5Text(e.p)
      [] e.t \in {"text", "textJ"} -> <<dq>> \o e.p \o <<dq>>
      [] e.t = "text5" -> <<dq>> \o text5Text(e.p, 1) \o <<dq>>
      [] OTHER -> <<dq>> \o appendString(e.p) \o <<dq>>

\* The children of element i, and the k-th of them.
children(b, i) == {j \in i + 1 .. i + b[i].n : ~\E m \in i + 1 .. j - 1 : j <= m + b[m].n}
nth(S, k) == CHOOSE j \in S : Cardinality({m \in S : m < j}) = k - 1

\* Plain text, or json_pretty's lines when `indent` is at least 0.
RECURSIVE translateBlobToText(_, _, _)
translateBlobToText(b, i, indent) ==
    LET kids == children(b, i)
        isObject == b[i].t = "object"
        pretty == indent >= 0
        pad(n) == IF pretty THEN <<"nl">> \o [j \in 1 .. n |-> " "] ELSE <<>>
        below == IF pretty THEN indent + 1 ELSE -1
        one(k) == translateBlobToText(b, nth(kids, k), IF isObject /\ k % 2 = 1 THEN -1 ELSE below)
        before(k) == CASE k = 1 -> pad(below)
                       [] isObject /\ k % 2 = 0 -> IF pretty THEN <<":", " ">> ELSE <<":">>
                       [] OTHER -> <<",">> \o pad(below)
        out[k \in 0 .. Cardinality(kids)] == IF k = 0 THEN <<>> ELSE out[k - 1] \o before(k) \o one(k)
        body == out[Cardinality(kids)] \o IF kids = {} THEN <<>> ELSE pad(indent)
    IN  CASE isObject -> <<"{">> \o body \o <<"}">>
          [] b[i].t = "array" -> <<"[">> \o body \o <<"]">>
          [] OTHER -> scalarText(b[i])

----------------------------------------------------------------------------
(* The SQL value of a scalar, and labels compared. *)

\* The character of a \u or \x escape; two \u of a pair are one character.
codeOf(h) == LET v == value(h, 16)
             IN  CASE v = 0 -> "nul" [] v = 11 -> "vt" [] v = 26 -> "a" [] OTHER -> "U+" \o ToString(v)
isHigh(h) == h[1] = "e"
isLow(h) == h[1] = "f"

\* The index past escaped line ends at j.
RECURSIVE jsonBytesToBypass(_, _)
jsonBytesToBypass(w, j) ==
    CASE at(w, j) = bs /\ at(w, j + 1) \in {"nl", "ls"} -> jsonBytesToBypass(w, j + 2)
      [] at(w, j) = bs /\ at(w, j + 1) = "cr" -> jsonBytesToBypass(w, IF at(w, j + 2) = "nl" THEN j + 3 ELSE j + 2)
      [] OTHER -> j

\* The escape at j: the index past it and its character, "" if malformed.
RECURSIVE jsonUnescapeOneChar(_, _)
jsonUnescapeOneChar(w, j) ==
    LET d == at(w, j + 1)
        h(k, n) == SubSeq(w, k, k + n - 1)
        lo == j + 2 + uHex                       \* a second escape
        paired == /\ isHigh(h(j + 2, uHex)) /\ at(w, lo) = bs /\ at(w, lo + 1) = "u"
                  /\ Len(w) >= lo + 1 + uHex /\ isLow(h(lo + 2, uHex))
        k == jsonBytesToBypass(w, j)
        char(n, c) == [j |-> n, c |-> c]
    IN  CASE d = "u" -> IF paired THEN char(lo + 2 + uHex, codeOf(h(j + 2, uHex)) \o codeOf(h(lo + 2, uHex)))
                        ELSE char(lo, codeOf(h(j + 2, uHex)))
          [] d = "b" -> char(j + 2, "backspace")
          [] d = "f" -> char(j + 2, "formfeed")
          [] d = "n" -> char(j + 2, "nl")
          [] d = "r" -> char(j + 2, "cr")
          [] d = "v" -> char(j + 2, "vt")
          [] d = "0" -> char(j + 2, IF at(w, j + 2) \in Digit THEN "" ELSE "nul")
          [] d \in {sq, dq, "/", bs} -> char(j + 2, d)
          [] d = "x" -> char(j + 2 + xHex, codeOf(h(j + 2, xHex)))
          [] d \in {"nl", "cr", "ls"} -> IF k > Len(w) THEN char(k, "nul")
                                         ELSE IF w[k] = bs THEN jsonUnescapeOneChar(w, k) ELSE char(k + 1, w[k])
          [] OTHER -> char(j + 2, "")

isRaw(e) == e.t \in {"text", "textRaw"}

RECURSIVE textFrom(_, _)
textFrom(w, j) ==
    LET u == jsonUnescapeOneChar(w, j)
    IN  CASE at(w, j) = "" -> <<>>
          [] at(w, j) = bs -> (IF u.c = "" THEN <<>> ELSE <<u.c>>) \o textFrom(w, u.j)
          [] OTHER -> <<w[j]>> \o textFrom(w, j + 1)
textValue(e) == IF isRaw(e) THEN e.p ELSE textFrom(e.p, 1)

\* Character by character, to the end or a NUL of both.
RECURSIVE sameFrom(_, _, _, _)
sameFrom(l, a, r, b) ==
    LET step(e, j) == CASE at(e.p, j) = "" -> [j |-> j, c |-> "nul"]
                        [] at(e.p, j) = bs /\ ~isRaw(e) -> jsonUnescapeOneChar(e.p, j)
                        [] OTHER -> [j |-> j + 1, c |-> e.p[j]]
        x == step(l, a)
        y == step(r, b)
    IN  x.c = y.c /\ (x.c = "nul" \/ sameFrom(l, x.j, r, y.j))

labelCompare(l, r) == IF isRaw(l) /\ isRaw(r) THEN l.p = r.p ELSE sameFrom(l, 1, r, 1)

\* decOrHexToI64 and returnFromBlob's integers: an integer, or a REAL beyond them.
Fits(v) == -maxInt - 1 <= v /\ v <= maxInt
number(k, v) == [k |-> k, v |-> v]

integerValue(e) ==
    LET neg == sign(e.p) # <<>>
        hex == e.t = "int5"
        v == IF hex THEN value(hexPart(e.p), 16) ELSE value(unsigned(e.p), 10)
        rc == CASE hex -> IF Len(hexPart(e.p)) > hexDigits THEN 2 ELSE 0
                [] ~hex /\ v = maxInt + 1 -> 3
                [] ~hex /\ v > maxInt + 1 -> 2
                [] OTHER -> 0
        signed == IF neg THEN -v ELSE v
    IN  CASE rc = 0 -> number(IF v > maxInt THEN "real" ELSE "int", signed)
          [] rc = 3 /\ neg -> number("int", -maxInt - 1)
          [] hex /\ rc = 2 -> number("malformed", 0)         \* hex is no float's text
          [] OTHER -> number("real", signed)

----------------------------------------------------------------------------
\* A JSON text is parsed, an SQL text taken as a TEXTRAW element.
Given(kind, z) == [kind |-> kind, z |-> z]
Parsed(in) == IF in.kind = "json" THEN convertTextToBlob(in.z)
              ELSE [ok |-> TRUE, blob |-> <<elem("textRaw", in.z)>>, nonstd |-> FALSE]

\* json() and json_pretty() of it.
Shown(blob) == <<translateBlobToText(blob, 1, -1), translateBlobToText(blob, 1, 0)>>

Init == input = Given("none", <<>>)
Next == /\ input.kind = "none"
        /\ \/ \E z \in Texts : input' = Given("json", z)
           \/ \E r \in Raws : input' = Given("sql", r)

Spec == Init /\ [][Next]_vars

----------------------------------------------------------------------------
(* The reference: JSON and JSON5 as grammars.  A set of the element        *)
(* sequences a text derives, empty if it derives none.                     *)

Pre(s, k) == SubSeq(s, 1, k)
Post(s, k) == SubSeq(s, k + 1, Len(s))

Comment(s) ==
    \/ /\ Len(s) >= 4 /\ SubSeq(s, 1, 2) = <<"/", "*">> /\ SubSeq(s, Len(s) - 1, Len(s)) = <<"*", "/">>
       /\ \A j \in 4 .. Len(s) - 1 : ~(s[j - 1] = "*" /\ s[j] = "/")
    \/ /\ Len(s) >= 2 /\ SubSeq(s, 1, 2) = <<"/", "/">>
       /\ \A j \in 3 .. Len(s) - 1 : s[j] \notin {"nl", "cr", "ls"}
RECURSIVE Blank(_, _)
Blank(s, five) ==
    \/ s = <<>>
    \/ s[1] \in Space /\ Blank(Tail(s), five)
    \/ five /\ s[1] \in Wide \cup {"vt"} /\ Blank(Tail(s), five)
    \/ five /\ \E k \in 2 .. Len(s) : /\ Comment(Pre(s, k)) /\ Blank(Post(s, k), five)
                                      /\ (s[2] = "/" => s[k] \in {"nl", "cr", "ls"})

AllDigits(s) == s # <<>> /\ \A j \in DOMAIN s : s[j] \in Digit
Natural(s) == AllDigits(s) /\ (Len(s) = 1 \/ s[1] # "0")
Exponent(s) == /\ Len(s) >= 2 /\ s[1] = "e"
               /\ AllDigits(IF s[2] \in {"+", "-"} THEN Post(s, 2) ELSE Tail(s))
Mantissa(s, five) ==
    \E k \in DOMAIN s : /\ s[k] = "."
                        /\ Natural(Pre(s, k - 1)) \/ (five /\ k = 1)
                        /\ AllDigits(Post(s, k)) \/ (five /\ k = Len(s))
                        /\ Len(s) > 1
Real(s, five) == \/ Mantissa(s, five)
                 \/ \E k \in DOMAIN s : /\ Exponent(Post(s, k))
                                        /\ Natural(Pre(s, k)) \/ Mantissa(Pre(s, k), five)

\* What a JSON5 text may say and an RFC-8259 one may not makes another element type.
Numbers(s, five) ==
    LET u == IF s # <<>> /\ (s[1] = "-" \/ (five /\ s[1] = "+")) THEN Tail(s) ELSE s
        w == IF s # <<>> /\ s[1] = "+" THEN Tail(s) ELSE s
        is(t, p) == {<<elem(t, p)>>}
    IN  IF Natural(u) THEN is("int", w)
        ELSE IF Real(u, FALSE) THEN is("float", w)
        ELSE IF five /\ Real(u, TRUE) THEN is("float5", w)
        ELSE IF five /\ Len(u) > 2 /\ Pre(u, 2) = <<"0", "x">> /\ \A j \in 3 .. Len(u) : u[j] \in Hex
        THEN is("int5", w)
        ELSE IF five /\ u \in {<<"inf">>, <<"inf", "inity">>} THEN is("float", sign(w) \o Infinity)
        ELSE IF five /\ s = <<"nan">> THEN is("null", <<>>)
        ELSE {}

\* The kinds of the characters between quotes: 0 plain, 1 an escape of RFC-8259, 2 JSON5's.
RECURSIVE Inside(_, _)
Inside(s, delim) ==
    LET one(n, kind) == {kind \cup rest : rest \in Inside(Post(s, n), delim)}
        e == at(s, 2)
    IN  CASE s = <<>> -> {{}}
          [] s # <<>> /\ s[1] = delim -> {}
          [] s # <<>> /\ s[1] = bs /\ delim # bs ->
                CASE e \in {dq, bs, "/", "b", "f", "n", "r"} -> one(2, {1})
                  [] e = "u" -> IF isHex(s, 3, uHex) THEN one(2, {1}) ELSE {}
                  [] e \in {sq, "v", "nl", "ls"} -> one(2, {2})
                  [] e = "cr" -> one(IF at(s, 3) = "nl" THEN 3 ELSE 2, {2})
                  [] e = "0" -> IF at(s, 3) \in Digit THEN {} ELSE one(2, {2})
                  [] e = "x" -> IF isHex(s, 3, xHex) THEN one(2, {2}) ELSE {}
                  [] OTHER -> {}
          [] s # <<>> /\ s[1] \in Control \cup {dq} -> one(1, {2})
          [] OTHER -> one(1, {0})
Strings(s, five) ==
    LET quoted == Len(s) >= 2 /\ s[1] = s[Len(s)] /\ s[1] \in (IF five THEN {dq, sq} ELSE {dq})
        w == SubSeq(s, 2, Len(s) - 1)
        type(ks) == IF 2 \in ks THEN "text5" ELSE IF 1 \in ks THEN "textJ" ELSE "text"
    IN  IF ~quoted THEN {}
        ELSE {<<elem(type(ks), w)>> : ks \in {x \in Inside(w, s[1]) : five \/ 2 \notin x}}

Names(s) ==
    IF /\ s # <<>> /\ s \notin {<<w>> : w \in Words \ {"inity"}} \cup {<<"inf", "inity">>}
       /\ s[1] \in Letter \cup {bs}
       /\ \A j \in DOMAIN s : \/ s[j] \in Letter \cup Digit
                              \/ s[j] = bs /\ at(s, j + 1) = "u" /\ isHex(s, j + 2, uHex)
    THEN {<<elem(IF bs \in {s[j] : j \in DOMAIN s} THEN "textJ" ELSE "text", s)>>} ELSE {}

RECURSIVE Value(_, _)
RECURSIVE List(_, _, _)

Trimmed(s, five) ==
    {SubSeq(s, a + 1, b) : a \in {k \in 0 .. Len(s) : Blank(Pre(s, k), five)},
                           b \in {k \in 0 .. Len(s) : Blank(Post(s, k), five)}} \ {<<>>}
Spaced(s, five) == UNION {Value(x, five) : x \in Trimmed(s, five)}
Label(s, five) == UNION {Strings(x, five) \cup (IF five THEN Names(x) ELSE {}) : x \in Trimmed(s, five)}
Pair(s, five) ==
    UNION {{k \o v : k \in Label(Pre(s, j - 1), five), v \in Spaced(Post(s, j), five)} :
              j \in {j \in DOMAIN s : s[j] = ":"}}
\* Members with commas between, and in JSON5 after them.
List(s, object, five) ==
    LET member(x) == IF object THEN Pair(x, five) ELSE Spaced(x, five)
    IN  member(s) \cup
        UNION {{a \o b : a \in member(Pre(s, j - 1)),
                         b \in List(Post(s, j), object, five)
                               \cup (IF five /\ Blank(Post(s, j), five) THEN {<<>>} ELSE {})} :
                  j \in {j \in DOMAIN s : s[j] = ","}}
Value(s, five) ==
    LET inner == SubSeq(s, 2, Len(s) - 1)
        around(t, object) ==
            {<<[elem(t, <<>>) EXCEPT !.n = Len(b)]>> \o b :
                b \in List(inner, object, five) \cup (IF Blank(inner, five) THEN {<<>>} ELSE {})}
    IN  IF s \in {<<"true">>, <<"null">>} THEN {<<elem(s[1], <<>>)>>}
        ELSE IF Len(s) >= 2 /\ s[1] = "[" /\ s[Len(s)] = "]" THEN around("array", FALSE)
        ELSE IF Len(s) >= 2 /\ s[1] = "{" /\ s[Len(s)] = "}" THEN around("object", TRUE)
        ELSE Strings(s, five) \cup Numbers(s, five)

\* A line comment may end with the text.
Whole(s, five) == Spaced(s \o <<"nl">>, five)

\* How deep the containers of a derivation nest.
Nesting(b) ==
    LET depth(j) == Cardinality({m \in 1 .. j : b[m].t \in {"array", "object"} /\ j <= m + b[m].n})
    IN  IF b = <<>> THEN 0 ELSE CHOOSE d \in {depth(j) : j \in DOMAIN b} : \A j \in DOMAIN b : depth(j) <= d

\* A text is accepted exactly when JSON5's grammar derives it within the depth allowed, as the elements
\* it derives, and is plain exactly when RFC-8259's grammar does (translateTextToBlob, json_valid).
AcceptsTheGrammar(parsed) ==
    input.kind = "json" =>
        LET derived == {b \in Whole(input.z, TRUE) : Nesting(b) <= maxDepth}
        IN  /\ (IF parsed.ok THEN {parsed.blob} ELSE {}) = derived
            /\ parsed.ok => (~parsed.nonstd <=> Whole(input.z, FALSE) # {})

\* The digits of a number's whole part and fraction, and its exponent.
Decimals(w) ==
    LET u == unsigned(w)
        e == least({j \in 1 .. Len(u) + 1 : at(u, j) \in {"e", ""}})
        d == least({j \in 1 .. e : j = e \/ u[j] = "."})
        f == SubSeq(u, d + 1, e - 1)
        kept == {j \in DOMAIN f : f[j] # "0"}
    IN  <<sign(w), stripped(SubSeq(u, 1, d - 1)), {<<j, f[j]>> : j \in kept}, SubSeq(u, e, Len(u))>>
Meaning(e) == CASE e.t \in {"int", "float", "float5"} -> Decimals(e.p)
                [] e.t = "int5" -> Decimals(int5Text(e.p))
                [] isText(e) -> textValue(e)
                [] OTHER -> <<e.t>>
EndsInLineEnd(e) == e.t = "text5" /\ \E j \in DOMAIN e.p : e.p[j] = bs /\ jsonBytesToBypass(e.p, j) = Len(e.p) + 1

\* The elements the parser makes pass json_valid's check; their text, plain or indented, is RFC-8259's
\* and reads back as the same elements: the same numbers, and the same text by the decoder json_extract
\* uses.  (A text that ends in an escaped line end is left out: the decoder gives it a NUL.)
RenderingKeepsMeaning(parsed, shown) ==
    parsed.ok =>
        /\ \A k \in DOMAIN parsed.blob : validityCheck(parsed.blob[k])
        /\ \A how \in 1 .. 2 :
              LET back == convertTextToBlob(shown[how])
              IN  /\ back.ok /\ ~back.nonstd /\ Len(back.blob) = Len(parsed.blob)
                  /\ \A k \in DOMAIN back.blob :
                        /\ back.blob[k].n = parsed.blob[k].n
                        /\ EndsInLineEnd(parsed.blob[k])
                              \/ Meaning(back.blob[k]) = Meaning(parsed.blob[k])

UpToNul(s) == LET nuls == {j \in DOMAIN s : s[j] = "nul"} IN IF nuls = {} THEN s ELSE Pre(s, least(nuls) - 1)

\* Labels are the same exactly when the text they stand for is, to a NUL, however each is written
\* (labelCompare against the decoder).
LabelsCompareByText(parsed) ==
    parsed.ok =>
        \A j, k \in DOMAIN parsed.blob :
            LET l == parsed.blob[j]
                r == parsed.blob[k]
            IN  isText(l) /\ isText(r) => (labelCompare(l, r) <=> UpToNul(textValue(l)) = UpToNul(textValue(r)))

\* An integer, decimal or hex, has its own value in SQL, and is an INTEGER whenever a decimal fits one:
\* the lowest included, whose digits alone do not fit.
IntegersAreRight(parsed) ==
    parsed.ok =>
        \A k \in DOMAIN parsed.blob :
            LET e == parsed.blob[k]
                r == integerValue(e)
                v == LET d == IF e.t = "int" THEN value(unsigned(e.p), 10) ELSE value(hexPart(e.p), 16)
                     IN  IF sign(e.p) = <<>> THEN d ELSE -d
            IN  e.t \in {"int", "int5"} /\ r.k # "malformed" =>
                    /\ r.v = v
                    /\ r.k = "int" => Fits(v)
                    /\ e.t = "int" /\ Fits(v) => r.k = "int"

\* What is made of a text, in all these respects.
TextIsRead ==
    input.kind # "none" =>
        LET parsed == Parsed(input)
        IN  /\ AcceptsTheGrammar(parsed)
            /\ RenderingKeepsMeaning(parsed, Shown(parsed.blob))
            /\ LabelsCompareByText(parsed)
            /\ IntegersAreRight(parsed)

-----------------------------------------------------------------------------
\* Every short text over a few alphabets, each aimed at one part of the
\* parser: \u takes two hex digits, \x one, integers eight bits.

Upto(A, n) == UNION {[1 .. k -> A] : k \in 0 .. n}
Around(a, S, b) == {<<a>> \o s \o <<b>> : s \in S}

Structures == Upto({"{", "}", "[", "]", ",", ":", "1", "a"}, 4)
              \cup Around("{", Upto({"a", ":", ",", "1", "nbsp"}, 5), "}")
              \cup Around("[", Upto({"[", "]", ",", "1", " "}, 5), "]")
              \cup Around("{", {<<dq, "a", dq>> \o s : s \in Upto({":", "1", " ", ",", "vt"}, 4)}, "}")
Words5 == Upto({"{", "}", "true", "inf", "inity", "nan", ":", "-", "1"}, 4)
          \cup Around("{", Around("true", Upto({"true", "a", "1", ":"}, 2), "1"), "}")
Numerals == Upto({"0", "1", ".", "e", "+", "-", "x"}, 5)
Spaces == Upto({"/", "*", "nl", "1", "vt"}, 5)
          \cup Around("[", {<<"1">> \o s : s \in Upto({"/", "*", "nl", ","}, 5)}, "]")
Quoted == Around(dq, Upto({bs, dq, sq, "u", "0", "b", "x", "nl"}, 4), dq)
          \cup Around(sq, Upto({bs, dq, sq, "a", "cr", "nl"}, 4), sq)
          \cup Around("{", {s \o <<":", "1">> : s \in Upto({bs, "u", "1", "a", "ls"}, 4)}, "}")
Integers8 == {s \o d : s \in {<<>>, <<"-">>, <<"+">>}, d \in Upto({"0", "1", "2", "7", "8"}, 3)}
             \cup {s \o <<"0", "x">> \o d : s \in {<<>>, <<"-">>}, d \in Upto({"0", "1", "7", "8", "f"}, 3)}
Labels == {<<>>, <<"a">>, <<bs, "u", "1", "a">>, <<bs, "x", "b">>, <<bs, "v">>, <<"vt">>, <<bs, "n">>, <<"nl">>,
           <<bs, "nl", "a">>, <<bs, "cr", "nl", "a">>, <<"a", bs, "ls">>, <<bs, "0">>, <<bs, "u", "0", "0">>,
           <<"a", bs, "0", "b">>, <<"a", bs, "0">>, <<bs, sq>>, <<sq>>, <<bs, bs>>,
           <<bs, "u", "e", "0", bs, "u", "f", "1">>, <<bs, "u", "e", "0">>, <<bs, "nl", bs, "nl", bs, "v">>}
TwoLabels == {<<"[", dq>> \o l \o <<dq, ",", dq>> \o r \o <<dq, "]">> : l, r \in Labels}

MCTexts == Structures \cup Words5 \cup Numerals \cup Spaces \cup Quoted \cup Integers8 \cup TwoLabels
MCRaws == Upto({"a", dq, sq, bs, "nl", "cr", "vt"}, 3)
=============================================================================
