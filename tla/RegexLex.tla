------------------------------ MODULE RegexLex ------------------------------
(* The lexer of regular expressions (pkg/sqlfn/pg_regex_lex.go): leading options, the lexical  *)
(* contexts, escapes, and the tokens of the three flavours.  Characters are one-letter strings *)
(* and stand for their kind.  No caller sets reNOSUB or reBOSONLY, which are left out, and so   *)
(* are the notes of what a pattern uses.                                                       *)
EXTENDS Integers, Sequences, FiniteSets, SequencesExt

CONSTANTS Patterns,   \* [pat, as, text, needs]: a sequence of characters, and if it is one with
                      \* fillers or one that quotes, the pattern or text it stands for, under
                      \* these flags
          FlagSets,   \* what reCompile may be called with
          Wrap,       \* digits of a number are added up modulo this (2^32)
          ChrMax      \* the last character (reCHR_MAX)

VARIABLES given, flags    \* what is compiled
vars == <<given, flags>>
pattern == given.pat

ADVANCED == {"EXT", "ADVF"}
NEWLINE == {"NLSTOP", "NLANCH"}
Space == {" ", "NL"}
Digit == {"0", "1", "2", "5", "7", "8"}
Alpha == {"a", "b", "c", "e", "i", "m", "n", "p", "q", "s", "t", "w", "x", "d", "f", "r", "v",
          "y", "u", "A", "B", "D", "M", "S", "U", "W", "Y", "Z"}
Alnum == Alpha \union Digit
Value == [d \in Digit |-> CASE d = "0" -> 0 [] d = "1" -> 1 [] d = "2" -> 2 [] d = "5" -> 5 [] d = "7" -> 7 [] d = "8" -> 8]
HexValue == [h \in {"a", "b", "c", "e", "d"} |-> CASE h = "a" -> 10 [] h = "b" -> 11 [] h = "c" -> 12 [] h = "d" -> 13 [] h = "e" -> 14]

-----------------------------------------------------------------------------
(* reVars: how far the pattern is read, the context, the token ahead (its type, character and  *)
(* value) and the type before it.  open are the groups the parser is in, nsub its captures.    *)
Fresh(pat, fl) == [pat |-> pat, now |-> 0, lexcon |-> "none", type |-> "EMPTY", c |-> "", n |-> 0,
                   last |-> "none", fl |-> fl, err |-> "", open |-> <<>>, nsub |-> 0]

ateos(x) == x.now >= Len(x.pat)
have(x, k) == Len(x.pat) - x.now >= k
\* The k-th character ahead.
Ch(x, k) == IF have(x, k + 1) THEN x.pat[x.now + k + 1] ELSE "end"
Ate(x, k) == [x EXCEPT !.now = @ + k]
Has(x, f) == f \in x.fl
Ahead(x, s) == \A k \in DOMAIN s : Ch(x, k - 1) = s[k]

ret(x, t) == [x EXCEPT !.type = t, !.c = "", !.n = 0]
retv(x, t, n) == [x EXCEPT !.type = t, !.c = "", !.n = n]
Plain(x, c) == [x EXCEPT !.type = "PLAIN", !.c = c, !.n = 0]
Code(x, n) == [x EXCEPT !.type = "PLAIN", !.c = "code", !.n = n]
failw(x, e) == [x EXCEPT !.err = e]

\* reCompile: the flags it takes.
ValidFlags(fl) == /\ "QUOTE" \in fl => fl \intersect (ADVANCED \union NEWLINE \union {"X"}) = {}
                  /\ "ADVF" \in fl => "EXT" \in fl

(* Leading options. *)
Option(fl, c) ==
  CASE c = "b" -> fl \ (ADVANCED \union {"QUOTE"})
    [] c = "c" -> fl \ {"ICASE"}
    [] c = "e" -> (fl \union {"EXT"}) \ {"ADVF", "QUOTE"}
    [] c = "i" -> fl \union {"ICASE"}
    [] c \in {"m", "n"} -> fl \union NEWLINE
    [] c = "p" -> (fl \union {"NLSTOP"}) \ {"NLANCH"}
    [] c = "q" -> (fl \union {"QUOTE"}) \ ADVANCED
    [] c = "s" -> fl \ NEWLINE
    [] c = "t" -> fl \ {"X"}
    [] c = "w" -> (fl \ {"NLSTOP"}) \union {"NLANCH"}
    [] c = "x" -> fl \union {"X"}
Options == {"b", "c", "e", "i", "m", "n", "p", "q", "s", "t", "w", "x"}

\* A quoted pattern has no comments and no newlines of its own.
Settle(fl) == IF "QUOTE" \in fl THEN fl \ ({"X"} \union NEWLINE) ELSE fl

RECURSIVE embedded(_)
embedded(x) == CASE Ch(x, 0) \in Options -> embedded([Ate(x, 1) EXCEPT !.fl = Option(@, Ch(x, 0))])
                 [] Ch(x, 0) \in Alpha -> failw(x, "BADOPT")
                 [] Ch(x, 0) # ")" -> failw(x, "BADOPT")
                 [] OTHER -> [Ate(x, 1) EXCEPT !.fl = Settle(@)]

prefixes(x) ==
  LET starred == have(x, 4) /\ Ahead(x, <<"*", "*", "*">>)
      d == Ch(x, 3)
      y == IF starred /\ d = ":" THEN [Ate(x, 4) EXCEPT !.fl = @ \union ADVANCED] ELSE x
  IN CASE Has(x, "QUOTE") -> x
       [] starred /\ d = "?" -> failw(x, "BADPAT")
       [] starred /\ d = "=" -> [Ate(x, 4) EXCEPT !.fl = (@ \union {"QUOTE"}) \ (ADVANCED \union {"X"} \union NEWLINE)]
       [] starred /\ d \notin {"?", "=", ":"} -> failw(x, "BADRPT")
       [] ADVANCED \subseteq y.fl /\ Ahead(y, <<"(", "?">>) /\ Ch(y, 2) \in Alpha -> embedded(Ate(y, 2))
       [] OTHER -> y

-----------------------------------------------------------------------------
(* White space, comments and numbers. *)
RECURSIVE skip(_), Through(_, _)
Through(x, stop) == IF ateos(x) \/ Ch(x, 0) = stop THEN x ELSE Through(Ate(x, 1), stop)
skip(x) == CASE Ch(x, 0) \in Space -> skip(Ate(x, 1))
             [] Ch(x, 0) = "#" -> skip(Through(x, "NL"))
             [] OTHER -> x
Expanded(x) == IF Has(x, "X") THEN skip(x) ELSE x

DigitValue(c, base) == LET d == CASE c \in Digit -> Value[c] [] c \in DOMAIN HexValue -> HexValue[c] [] OTHER -> -1
                       IN IF d >= base THEN -1 ELSE d
\* lexdigits: how many digits there are, and their value as 32 bits hold it.
RECURSIVE digits(_, _, _, _)
digits(x, base, max, acc) ==
  IF acc.len = max \/ ateos(x) \/ DigitValue(Ch(x, 0), base) < 0 THEN acc
  ELSE digits(Ate(x, 1), base, max, [len |-> acc.len + 1, n |-> (acc.n * base + DigitValue(Ch(x, 0), base)) % Wrap])
lexdigits(x, base, min, max) ==
  LET d == digits(x, base, max, [len |-> 0, n |-> 0])
      y == Ate(x, d.len)
  IN [x |-> IF d.len < min THEN failw(y, "EESCAPE") ELSE y, n |-> d.n, len |-> d.len]

Numbered(d) == IF d.x.err # "" THEN d.x ELSE IF d.n > ChrMax THEN failw(d.x, "EESCAPE") ELSE Code(d.x, d.n)

\* Up to three octal digits, two if three make more than a byte.
lexoctal(x) == LET d == lexdigits(x, 8, 1, 3) IN
               IF d.x.err # "" THEN d.x ELSE IF d.n > 255 THEN Code(Ate(d.x, -1), d.n \div 8) ELSE Code(d.x, d.n)

\* One digit names a group whether there is one or not; more only a group there is.
Backref(x, d) == d.len = 1 \/ (d.n > 0 /\ d.n <= x.nsub)

Controls == {"a", "b", "e", "f", "n", "r", "t", "v"}
\* lexescape, the backslash eaten.
lexescape(x0) ==
  LET c == Ch(x0, 0)  x == Ate(x0, 1)  d == lexdigits(x0, 10, 1, 255) IN
  CASE c \notin Alnum -> Plain(x, c)
    [] c \in Controls -> Plain(x, "control")
    [] c = "A" -> ret(x, "SBEGIN")
    [] c = "B" -> Plain(x, "\\")
    [] c = "c" -> IF ateos(x) THEN failw(x, "EESCAPE") ELSE Plain(Ate(x, 1), "control")
    [] c \in {"d", "s", "w"} -> ret(x, "CCLASSS")
    [] c \in {"D", "S", "W"} -> ret(x, "CCLASSC")
    [] c = "m" -> ret(x, "<")
    [] c = "M" -> ret(x, ">")
    [] c = "u" -> Numbered(lexdigits(x, 16, 4, 4))
    [] c = "U" -> Numbered(lexdigits(x, 16, 8, 8))
    [] c = "x" -> Numbered(lexdigits(x, 16, 1, 255))
    [] c = "y" -> ret(x, "WBDRY")
    [] c = "Y" -> ret(x, "NWBDRY")
    [] c = "Z" -> ret(x, "SEND")
    [] c \in Digit \ {"0"} -> IF Backref(x, d) THEN retv(d.x, "BACKREF", d.n) ELSE lexoctal(x0)
    [] c = "0" -> lexoctal(x0)
    [] OTHER -> failw(x, "EESCAPE")

-----------------------------------------------------------------------------
(* Tokens.  c is the character just eaten and x is past it. *)
Flavour(fl) == CASE "QUOTE" \in fl -> "Q" [] "EXT" \in fl -> "ERE" [] OTHER -> "BRE"
Context(x, con) == [x EXCEPT !.lexcon = con]

Bound(x, c) ==
  LET bre == x.lexcon = "BBND"  y == Context(x, IF bre THEN "BRE" ELSE "ERE") IN
  CASE c \in Digit -> retv(x, "DIGIT", Value[c])
    [] c = "," -> ret(x, ",")
    [] c = "}" /\ ~bre -> IF Has(x, "ADVF") /\ Ch(x, 0) = "?" THEN retv(Ate(y, 1), "}", 0) ELSE retv(y, "}", 1)
    [] c = "\\" /\ bre /\ Ch(x, 0) = "}" -> retv(Ate(y, 1), "}", 1)
    [] OTHER -> failw(x, "BADBR")

\* Back to the flavour the bracket stands in.
Leave(x) == Context(x, IF Has(x, "EXT") THEN "ERE" ELSE "BRE")

InBracketEscape(x) ==
  IF ateos(x) THEN failw(x, "EESCAPE")
  ELSE LET y == lexescape(x) IN
       IF y.err # "" \/ y.type \in {"PLAIN", "CCLASSS", "CCLASSC"} THEN y ELSE failw(y, "EESCAPE")

Bracket(x, c) ==
  CASE c = "]" -> IF x.last = "[" THEN Plain(x, c) ELSE ret(Leave(x), "]")
    [] c = "\\" -> IF Has(x, "ADVF") THEN InBracketEscape(x) ELSE Plain(x, c)
    [] c = "-" -> IF x.last = "[" \/ Ch(x, 0) = "]" THEN Plain(x, c) ELSE ret(x, "RANGE")
    [] c = "[" -> CASE ateos(x) -> failw(x, "EBRACK")
                    [] Ch(x, 0) = "." -> ret(Context(Ate(x, 1), "CEL"), "COLLEL")
                    [] Ch(x, 0) = "=" -> ret(Context(Ate(x, 1), "ECL"), "ECLASS")
                    [] Ch(x, 0) = ":" -> ret(Context(Ate(x, 1), "CCL"), "CCLASS")
                    [] OTHER -> Plain(x, c)
    [] OTHER -> Plain(x, c)

Closer == [CEL |-> ".", ECL |-> "=", CCL |-> ":"]
Named(x, c) == IF c = Closer[x.lexcon] /\ Ch(x, 0) = "]" THEN ret(Context(Ate(x, 1), "BRACK"), "END") ELSE Plain(x, c)

WordEdge(x) == \E e \in {"<", ">"} : Ahead(x, <<"[", ":", e, ":", "]", "]">>)
OpenBracket(x) == IF WordEdge(x) THEN ret(Ate(x, 6), Ch(x, 2))
                  ELSE IF Ch(x, 0) = "^" THEN retv(Context(Ate(x, 1), "BRACK"), "[", 0)
                  ELSE retv(Context(x, "BRACK"), "[", 1)

RECURSIVE next(_)
\* After (?: a group that does not capture, a comment, or a constraint.
Special(x) ==
  LET d == Ch(x, 0)  y == Ate(x, 1)
      closed == Through(y, ")")
  IN CASE d = ":" -> retv(y, "(", 0)
       [] d = "#" -> next(IF ateos(closed) THEN closed ELSE Ate(closed, 1))
       [] d \in {"=", "!"} -> ret(y, "LACON")
       [] d = "<" /\ Ch(y, 0) \in {"=", "!"} -> ret(Ate(y, 1), "LACON")
       [] OTHER -> failw(x, "BADRPT")

\* A backslash: in the advanced flavour an escape, otherwise the next character itself.
Quoted(x) == IF Has(x, "ADVF") THEN lexescape(x) ELSE Plain(Ate(x, 1), Ch(x, 0))

Brace(x) == Expanded(x)

Extended(x, c) ==
  LET brace == Brace(x) IN
  CASE c \in {"|", ".", "^", "$"} -> ret(x, c)
    [] c \in {"*", "+", "?"} -> IF Has(x, "ADVF") /\ Ch(x, 0) = "?" THEN retv(Ate(x, 1), c, 0) ELSE retv(x, c, 1)
    [] c = "{" -> IF Ch(brace, 0) \in Digit THEN ret(Context(brace, "EBND"), "{") ELSE Plain(brace, c)
    [] c = "(" -> IF Has(x, "ADVF") /\ Ch(x, 0) = "?" THEN Special(Ate(x, 1)) ELSE retv(x, "(", 1)
    [] c = ")" -> ret(x, ")")
    [] c = "[" -> OpenBracket(x)
    [] c = "\\" -> IF ateos(x) THEN failw(x, "EESCAPE") ELSE Quoted(x)
    [] OTHER -> Plain(x, c)

BasicEscape(x) ==
  LET c == Ch(x, 0)  y == Ate(x, 1) IN
  CASE ateos(x) -> failw(x, "EESCAPE")
    [] c = "{" -> ret(Context(y, "BBND"), "{")
    [] c = "(" -> retv(y, "(", 1)
    [] c \in {")", "<", ">"} -> ret(y, c)
    [] c \in Digit \ {"0"} -> retv(y, "BACKREF", Value[c])
    [] OTHER -> Plain(y, c)

brenext(x, c) ==
  LET after == Expanded(x) IN
  CASE c = "*" -> IF x.last \in {"EMPTY", "(", "^"} THEN Plain(x, c) ELSE retv(x, "*", 1)
    [] c = "[" -> OpenBracket(x)
    [] c = "." -> ret(x, c)
    [] c = "^" -> IF x.last \in {"EMPTY", "("} THEN ret(x, c) ELSE Plain(x, c)
    [] c = "$" -> IF ateos(after) \/ Ahead(after, <<"\\", ")">>) THEN ret(after, c) ELSE Plain(after, c)
    [] c = "\\" -> BasicEscape(x)
    [] OTHER -> Plain(x, c)

Skippable(x) == Has(x, "X") /\ x.lexcon \in {"ERE", "BRE", "EBND", "BBND"}

AtEnd(x) == CASE x.lexcon \in {"ERE", "BRE", "Q"} -> ret(x, "EOS")
              [] x.lexcon \in {"EBND", "BBND"} -> failw(x, "EBRACE")
              [] OTHER -> failw(x, "EBRACK")

next(x0) ==
  LET x1 == [x0 EXCEPT !.last = x0.type]
      x == IF Skippable(x1) THEN skip(x1) ELSE x1
      c == Ch(x, 0)  y == Ate(x, 1)
  IN CASE x.err # "" -> x
       [] x.err = "" /\ ateos(x) -> AtEnd(x)
       [] OTHER -> CASE x.lexcon = "BRE" -> brenext(y, c)
                     [] x.lexcon = "ERE" -> Extended(y, c)
                     [] x.lexcon = "Q" -> Plain(y, c)
                     [] x.lexcon \in {"EBND", "BBND"} -> Bound(y, c)
                     [] x.lexcon = "BRACK" -> Bracket(y, c)
                     [] x.lexcon \in {"CEL", "ECL", "CCL"} -> Named(y, c)

lexstart(pat, fl) == LET p == prefixes(Fresh(pat, fl)) IN
                     IF p.err # "" THEN p ELSE next(Context(p, Flavour(p.fl)))

\* The parser takes the token and asks for the next: captures are counted where they are opened,
\* not in a constraint.
Took(x) ==
  LET looking == "look" \in ToSet(x.open) IN
  CASE x.type = "(" /\ x.n = 1 /\ ~looking -> [x EXCEPT !.open = Append(@, "group"), !.nsub = @ + 1]
    [] x.type = "(" -> [x EXCEPT !.open = Append(@, "group")]
    [] x.type = "LACON" -> [x EXCEPT !.open = Append(@, "look")]
    [] x.type = ")" /\ x.open # <<>> -> [x EXCEPT !.open = Front(@)]
    [] OTHER -> x

-----------------------------------------------------------------------------
Ended(x) == x.err # "" \/ x.type = "EOS"

Given(p, as, text, needs) == [pat |-> p, as |-> as, text |-> text, needs |-> needs]
Init == given = Given(<<>>, "none", <<>>, {}) /\ flags = {}
Next == /\ given.as = "none"
        /\ given' \in Patterns
        /\ flags' \in {f \in FlagSets : ValidFlags(f)}
Spec == Init /\ [][Next]_vars

-----------------------------------------------------------------------------
(* The lexer after each token of a pattern, from the first, and the tokens. *)
RECURSIVE Rest(_)
Rest(v) == IF Ended(v) THEN <<v>> ELSE <<v>> \o Rest(next(Took(v)))
Lexed(pat, fl) == Rest(lexstart(pat, fl))
Token(v) == IF Ended(v) THEN [t |-> IF v.err # "" THEN v.err ELSE "EOS", c |-> "", n |-> 0]
            ELSE [t |-> v.type, c |-> v.c, n |-> v.n]
Tokens(pat, fl) == LET vs == Lexed(pat, fl) IN [k \in DOMAIN vs |-> Token(vs[k])]
Holds(kind) == given.as = kind /\ given.needs \subseteq flags /\ "QUOTE" \notin flags

\* The lexer is where it can be: within the pattern, in the flavour the options ask for wherever
\* it is not inside a bracket or a bound, and options never end up as a set that reCompile itself
\* would refuse.
FlavourHolds(v) == v.err = "" =>
  /\ v.now \in 0..Len(pattern)
  /\ ValidFlags(v.fl)
  /\ v.lexcon \in {"ERE", "BRE", "Q"} => v.lexcon = Flavour(v.fl)
  /\ v.lexcon \in {"BRACK", "CEL", "ECL", "CCL"} => "QUOTE" \notin v.fl
  /\ v.lexcon = "EBND" => "EXT" \in v.fl
  /\ v.lexcon = "BBND" => "EXT" \notin v.fl

\* A text whose every character that is no letter or digit has a backslash before it is read, in
\* the extended and the advanced flavour, as that text; a text after ***= in any flavour; white
\* space and # that are quoted are not skipped.
QuotedIsLiteral ==
  Holds("quoting") =>
      Tokens(pattern, flags) = [k \in 1..Len(given.text) |-> [t |-> "PLAIN", c |-> given.text[k], n |-> 0]]
                               \o <<[t |-> "EOS", c |-> "", n |-> 0]>>

\* What is only there for the reader means nothing: white space in the expanded form, outside a
\* bracket, and a comment of the advanced flavour can be taken out and the tokens are the same.
FillersVanish == Holds("filler") => Tokens(pattern, flags) = Tokens(given.text, flags)

\* Inside a bracket there is no filler: a bracket with spaces and # in it is the same tokens with
\* and without the expanded form.
BracketKeepsSpace ==
  Holds("bracket") => Tokens(pattern, flags \union {"X"}) = Tokens(pattern, flags \ {"X"})

\* A backslash and digits are a back reference or a character of one byte: a number of several
\* digits that names no group open so far is never taken for a reference.
ReferenceExists(v) ==
  /\ v.type = "BACKREF" => v.n > 0 /\ (v.n < 10 \/ v.n <= v.nsub)
  /\ v.type = "PLAIN" /\ v.c = "code" /\ {"x", "u", "U"} \intersect ToSet(pattern) = {} => v.n <= 255

\* A pattern is read, whatever flags it is compiled with, in all these respects.
PatternIsRead ==
  /\ LET vs == Lexed(pattern, flags) IN \A k \in DOMAIN vs : FlavourHolds(vs[k]) /\ ReferenceExists(vs[k])
  /\ QuotedIsLiteral /\ FillersVanish /\ BracketKeepsSpace

-----------------------------------------------------------------------------
\* All patterns of up to four characters over the characters of brackets, bounds, groups and
\* escapes, longer ones with options before them, and texts in their two quotings.

Over(A, n) == UNION {[1..k -> A] : k \in 0..n}

Brackets == {<<"[">> \o p : p \in Over({"]", "^", "-", "\\", "a", ":", "[", " "}, 3)}
              \union {<<"[", "[", c, "a", c, "]", "]">> : c \in {".", "=", ":"}}
              \union {<<"[", "[", ":", e, ":", "]", "]", "a">> : e \in {"<", ">"}}
Bounds == {<<"a">> \o p : p \in Over({"{", "}", "1", ",", "\\", "?", " "}, 4)}
Groups == Over({"(", "?", ":", "#", "<", "=", ")", "a"}, 4)
Escapes == {<<"\\">> \o p : p \in Over({"0", "1", "5", "8", "x", "\\"}, 3)}
             \union {<<"\\", c>> : c \in Alpha} \union {<<"\\", "c", "a">>, <<"\\", "u", "0", "0", "1", "b">>,
                     <<"\\", "U", "0", "0", "0", "0", "0", "0", "1", "b">>, <<"\\", "u", "0", "1">>}
             \union {<<"(", "a", ")", "\\">> \o p : p \in Over({"1", "2", "5", "7", "8"}, 3)}
             \union {<<"(", "?", "=", "(", "a", ")", ")", "\\", "1", "1">>, <<"(", "a", ")", "\\", "1", "0", "2", "5">>}
Stars == Over({"*", "^", "$", "a", "\\", ")", "|", "."}, 4)
Prefixed == {o \o p : o \in {<<"*", "*", "*", "=">>, <<"*", "*", "*", ":">>, <<"*", "*", "*", "?">>, <<"*", "*", "*", "a">>},
                      p \in {<<"a">>, <<"[", "]", " ", "]", "*">>}}
            \union {<<"(", "?">> \o o \o <<")", "[", "a", "]", "\\", "(", "^">> : o \in UNION {[1..k -> Options] : k \in 1..2}}
            \union {<<"(", "?", "q", "x", "n", ")", "a">>, <<"(", "?", "n", "q", "a">>, <<"(", "?", "a", ")">>}
Alone == Bounds \union Groups \union Escapes \union Stars \union Prefixed
MCFlagSets == LET base == {{"EXT", "ADVF"}, {"EXT"}, {}, {"QUOTE"}} IN base \union {b \union {"X"} : b \in base}

Backslashed(t) == FlattenSeq([k \in DOMAIN t |-> IF t[k] \in Alnum THEN <<t[k]>> ELSE <<"\\", t[k]>>])
Texts == Over({"a", "*", "(", "[", " ", "#", "\\"}, 3) \ {<<>>}
Quotings == {Given(Backslashed(t), "quoting", t, {"EXT"}) : t \in Texts}
              \union {Given(<<"*", "*", "*", "=">> \o t, "quoting", t, {}) : t \in Texts}

Before == {<<>>, <<"a">>, <<"(">>, <<"a", "*">>, <<"[", "a", "]">>, <<"(", "?", ":">>, <<"a", "{">>, <<"a", "{", "1">>}
After == {<<>>, <<"a">>, <<")">>, <<"{", "1", "}">>, <<"|", "a">>, <<"1", "}">>, <<",", "1", "}", "?">>, <<"[", "#", "]">>}
Comment == <<"(", "?", "#", "a", "(", ")">>
Fillers == {Given(a \o s \o b, "filler", a \o b, {"X", "EXT"}) :
              a \in Before, s \in {<<" ">>, <<"#", "(", "NL">>, <<" ", "#", "a", "NL", " ">>}, b \in After}
           \union {Given(a \o Comment \o b, "filler", a \o b, {"ADVF"}) :
              a \in Before \ {<<"a", "{">>, <<"a", "{", "1">>}, b \in After}

OneBracket(p) == \A k \in 1..Len(p) - 1 : p[k] # "]"
MCPatterns == Quotings \union Fillers \union {Given(p, "alone", <<>>, {}) : p \in Alone}
                \union {Given(p, IF OneBracket(p) THEN "bracket" ELSE "alone", <<>>, {}) : p \in Brackets}
=============================================================================
