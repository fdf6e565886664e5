------------------------------ MODULE Numeric ------------------------------
(***************************************************************************)
(* Postgres numeric (pkg/sqlfn/pg_numeric.go): digits in base nbase with a *)
(* weight, a sign and a display scale.  The base, the width of the         *)
(* accumulators and of the 64-bit integers are parameters, so that a small *)
(* instance reaches the carries, the deferred normalisations and the       *)
(* boundaries that base 10000 keeps out of reach.  A text is its parts:    *)
(* sign, digits before and after the point, exponent.  A call of an        *)
(* operation is one step; the division with estimated digits and its       *)
(* correction take a step for each digit and each correction, because the  *)
(* floating-point estimate may go either way.                              *)
(***************************************************************************)
EXTENDS Integers, Sequences, FiniteSets

CONSTANTS decDigits,        \* decimal digits in one base digit
          maxInt,           \* math.MaxInt32, scaled with the base
          maxInt64,         \* math.MaxInt64, scaled with the base
          minSig,           \* numericMinSigDigit
          Calls             \* the calls explored: [op, a, b, n, text]

VARIABLES call, work, out

vars == <<call, work, out>>

nbase == 10 ^ decDigits
mulGuardDigits == 2

divGuardDigits == 4

\* A digit string built place by place, as a sequence.
list(f) == <<>> \o f

larger(x, y) == IF x >= y THEN x ELSE y
smaller(x, y) == IF x <= y THEN x ELSE y
abs32(x) == IF x < 0 THEN -x ELSE x

num(digits, weight, neg, dscale) ==
    [digits |-> digits, weight |-> weight, neg |-> neg, dscale |-> dscale]
zeroAt(dscale) == num(<<>>, 0, FALSE, dscale)
numOne == num(<<1>>, 0, FALSE, 0)

----------------------------------------------------------------------------
(* Normal form, and order. *)

strip(n) ==
    LET some == {i \in DOMAIN n.digits : n.digits[i] # 0}
        lo == CHOOSE i \in some : \A j \in some : i <= j
        hi == CHOOSE i \in some : \A j \in some : i >= j
    IN  IF some = {} THEN zeroAt(n.dscale)
        ELSE [n EXCEPT !.digits = SubSeq(n.digits, lo, hi), !.weight = @ - (lo - 1)]

\* The digit of n at the base place w; places outside its digits hold 0.
place(n, w) ==
    IF n.weight - w + 1 \in DOMAIN n.digits THEN n.digits[n.weight - w + 1] ELSE 0

\* The lowest base place that either number has a digit at.
lowest(a, b) == -larger(Len(a.digits) - a.weight - 1, Len(b.digits) - b.weight - 1)

cmpAbs(a, b) ==
    LET differ == {w \in lowest(a, b) .. larger(a.weight, b.weight) : place(a, w) # place(b, w)}
        top == CHOOSE w \in differ : \A v \in differ : v <= w
    IN  IF differ = {} THEN 0 ELSE IF place(a, top) > place(b, top) THEN 1 ELSE -1

cmpVar(a, b) ==
    CASE a.digits = <<>> /\ b.digits = <<>> -> 0
      [] a.digits = <<>> -> IF b.neg THEN 1 ELSE -1
      [] b.digits = <<>> -> IF a.neg THEN -1 ELSE 1
      [] a.neg # b.neg -> IF a.neg THEN -1 ELSE 1
      [] OTHER -> IF a.neg THEN cmpAbs(b, a) ELSE cmpAbs(a, b)

----------------------------------------------------------------------------
(* Sums: place by place from the lowest, a carry or a borrow between them. *)

addAbs(a, b) ==
    LET lo == lowest(a, b)
        hi == larger(a.weight, b.weight) + 1
        sum(w, c) == place(a, w) + place(b, w) + c
        carry[w \in lo .. hi + 1] == IF w = lo THEN 0 ELSE sum(w - 1, carry[w - 1]) \div nbase
    IN  strip(num([i \in 1 .. larger(hi - lo + 1, 1) |->
                      LET w == hi - i + 1 IN sum(w, carry[w]) % nbase],
                  hi, FALSE, larger(a.dscale, b.dscale)))

subAbs(a, b) ==
    LET lo == lowest(a, b)
        diff(w, c) == place(a, w) - place(b, w) - c
        borrow[w \in lo .. a.weight + 1] ==
            IF w = lo THEN 0 ELSE IF diff(w - 1, borrow[w - 1]) < 0 THEN 1 ELSE 0
    IN  strip(num([i \in 1 .. larger(a.weight - lo + 1, 1) |->
                      LET w == a.weight - i + 1 IN diff(w, borrow[w]) % nbase],
                  a.weight, FALSE, larger(a.dscale, b.dscale)))

addSigned(a, b, bneg) ==
    LET signed(n, neg) == [n EXCEPT !.neg = neg]
        c == cmpAbs(a, b)
    IN  CASE a.neg = bneg -> signed(addAbs(a, b), a.neg)
          [] a.neg # bneg /\ c = 0 -> zeroAt(larger(a.dscale, b.dscale))
          [] a.neg # bneg /\ c = 1 -> signed(subAbs(a, b), a.neg)
          [] OTHER -> signed(subAbs(b, a), bneg)
addVar(a, b) == addSigned(a, b, b.neg)
subVar(a, b) == addSigned(a, b, ~b.neg)

----------------------------------------------------------------------------
(* Rounding and truncation at a decimal place, which need not be the end   *)
(* of a base digit.                                                        *)

\* Cuts the digit d to a multiple of unit.
cutTo(d, unit) == d - (d % unit)

\* The rounded number: a carry out of its first digit takes a place of its own.
regrow(kept, top, n, rscale) ==
    IF top = 0 THEN num(kept, n.weight, n.neg, rscale)
    ELSE num(<<1>> \o kept, n.weight + 1, n.neg, rscale)

round(n, rscale) ==
    LET di == (n.weight + 1) * decDigits + rscale
        nd == (di + decDigits - 1) \div decDigits
        part == di % decDigits
        unit == IF part = 0 THEN 1 ELSE 10 ^ (decDigits - part)
        cut == [i \in 1 .. nd |-> IF i = nd THEN cutTo(n.digits[i], unit) ELSE n.digits[i]]
        up == IF part = 0 THEN n.digits[nd + 1] >= nbase \div 2
              ELSE n.digits[nd] % unit >= unit \div 2
        carry[i \in 1 .. nd + 1] ==
            IF i = nd + 1 THEN (IF up THEN unit ELSE 0) ELSE (cut[i] + carry[i + 1]) \div nbase
    IN  CASE di < 0 -> zeroAt(rscale)
          [] di >= 0 /\ ~(nd < Len(n.digits) \/ (nd = Len(n.digits) /\ part > 0)) ->
                [n EXCEPT !.dscale = rscale]
          [] OTHER -> regrow([i \in 1 .. nd |-> (cut[i] + carry[i + 1]) % nbase],
                             carry[1], n, rscale)

trunc(n, rscale) ==
    LET di == (n.weight + 1) * decDigits + rscale
        nd == (di + decDigits - 1) \div decDigits
        unit == IF di % decDigits = 0 THEN 1 ELSE 10 ^ (decDigits - (di % decDigits))
    IN  CASE di <= 0 -> zeroAt(rscale)
          [] di > 0 /\ nd > Len(n.digits) -> [n EXCEPT !.dscale = rscale]
          [] OTHER -> num([i \in 1 .. nd |-> IF i = nd THEN cutTo(n.digits[i], unit)
                                             ELSE n.digits[i]], n.weight, n.neg, rscale)

ceilVar(v) ==
    LET t == trunc(v, 0) IN IF ~v.neg /\ cmpVar(v, t) # 0 THEN addVar(t, numOne) ELSE t
floorVar(v) ==
    LET t == trunc(v, 0) IN IF v.neg /\ cmpVar(v, t) # 0 THEN subVar(t, numOne) ELSE t

----------------------------------------------------------------------------
(* Product: partial products into 32-bit accumulators whose carries are    *)
(* deferred, and only as many low places as rscale and the guard need.     *)

\* Mutant of roomFor: the carries are propagated one unit of the first operand late.
roomFor_Late(maxdig) == maxdig <= maxInt \div (nbase - 1) + 1

\* Whether accumulators bounded by maxdig first digits still fit.
roomFor(maxdig) == maxdig <= (maxInt - maxInt \div nbase) \div (nbase - 1)

\* Carries propagated from the low end, the digits being at places 0 .. Len - 1.
carried(dig) ==
    LET hi == Len(dig)
        carry[i \in 1 .. hi + 1] == IF i = hi + 1 THEN 0 ELSE (dig[i] + carry[i + 1]) \div nbase
    IN  list([i \in 1 .. hi |-> (dig[i] + carry[i + 1]) % nbase])

\* The largest value an accumulator takes while the carries are propagated.
peakOf(dig) ==
    LET hi == Len(dig)
        carry[i \in 1 .. hi + 1] == IF i = hi + 1 THEN 0 ELSE (dig[i] + carry[i + 1]) \div nbase
        all == {dig[i] + carry[i + 1] : i \in 1 .. hi}
    IN  CHOOSE m \in all : \A x \in all : x <= m

\* The accumulators after the digits of a from its last down to i1 (from 0).
partials(a, b, resN) ==
    LET n1 == Len(a.digits)
        first == smaller(n1 - 1, resN - 3)
        acc[i1 \in 0 .. first + 1] ==
            IF i1 = first + 1
            THEN [dig |-> list([i \in 1 .. resN |-> 0]), maxdig |-> 0, peak |-> 0]
            ELSE LET s == acc[i1 + 1]
                     d1 == a.digits[i1 + 1]
                     fits == roomFor(s.maxdig + d1)
                     base == IF fits THEN s.dig ELSE carried(s.dig)
                     lim == smaller(Len(b.digits), resN - i1 - 2)
                     dig == list([i \in 1 .. resN |->
                                     base[i] + (IF i - i1 - 2 \in 1 .. lim
                                                THEN d1 * b.digits[i - i1 - 2] ELSE 0)])
                 IN  IF d1 = 0 THEN s
                     ELSE [dig |-> dig, maxdig |-> IF fits THEN s.maxdig + d1 ELSE 1 + d1,
                           peak |-> larger(s.peak, peakOf(dig))]
    IN  acc[0]

\* How many base places of the product are computed.
productPlaces(a, b, rscale) ==
    smaller(Len(a.digits) + Len(b.digits) + 1,
            a.weight + b.weight + 3 + (rscale + decDigits - 1) \div decDigits + mulGuardDigits)

shorter(a, b) == IF Len(a.digits) > Len(b.digits) THEN <<b, a>> ELSE <<a, b>>
mulVar(a0, b0, rscale) ==
    LET a == shorter(a0, b0)[1]
        b == shorter(a0, b0)[2]
        resN == productPlaces(a, b, rscale)
    IN  IF a.digits = <<>> \/ b.digits = <<>> \/ resN < 3 THEN zeroAt(rscale)
        ELSE strip(round(num(carried(partials(a, b, resN).dig), a.weight + b.weight + 2,
                             a.neg # b.neg, 0), rscale))

\* The largest accumulator of that product.
mulPeak(a0, b0, rscale) ==
    LET a == shorter(a0, b0)[1]
        b == shorter(a0, b0)[2]
        resN == productPlaces(a, b, rscale)
    IN  IF a.digits = <<>> \/ b.digits = <<>> \/ resN < 3 THEN 0 ELSE partials(a, b, resN).peak

----------------------------------------------------------------------------
(* Quotient to exactly rscale digits (Knuth's algorithm D).                *)

\* A digit string times d < nbase, as long as the string: places 0 .. n.
times(u, d) ==
    LET n == Len(u) - 1
        carry[i \in 0 .. n + 1] == IF i = n + 1 THEN 0 ELSE (carry[i + 1] + u[i + 1] * d) \div nbase
    IN  list([i \in 1 .. n + 1 |-> (carry[i] + u[i] * d) % nbase])

\* The estimate of a quotient digit, corrected by the divisor's second digit.
qhatOf(u0, u1, u2, v) ==
    LET next2 == u0 * nbase + u1
        try == IF u0 = v[2] THEN nbase - 1 ELSE next2 \div v[2]
        over(q) == v[3] * q > (next2 - q * v[2]) * nbase + u2
    IN  CHOOSE q \in 0 .. try : ~over(q) /\ \A p \in (q + 1) .. try : over(p)

\* A remainder that went below zero takes one divisor back.
addBack(window, v, q, negative) ==
    LET n == Len(v)
        carry[i \in 1 .. n + 1] == IF i = n + 1 THEN 0 ELSE (window[i] + v[i] + carry[i + 1]) \div nbase
    IN  IF ~negative THEN <<q, window>>
        ELSE <<q - 1, list([i \in 1 .. n |-> (window[i] + v[i] + carry[i + 1]) % nbase])>>

\* One quotient digit: <<digit, what is left of the dividend's window>>.
quotientDigit(window, v) ==
    LET n == Len(v)
        q == qhatOf(window[1], window[2], window[3], v)
        prod == times(v, q)
        borrow[i \in 1 .. n + 1] ==
            IF i = n + 1 THEN 0 ELSE IF window[i] - prod[i] - borrow[i + 1] < 0 THEN 1 ELSE 0
        left == list([i \in 1 .. n |-> (window[i] - prod[i] - borrow[i + 1]) % nbase])
    IN  IF window[1] * nbase + window[2] = 0 THEN <<0, window>>
        ELSE IF q = 0 THEN <<0, window>> ELSE addBack(left, v, q, borrow[1] = 1)

\* The long division's digits: j from 0, each on the window of the dividend at j.
longDivision(dividend, divisor, resN) ==
    LET n == Len(divisor)
        at[j \in 0 .. resN] ==
            IF j = 0 THEN [u |-> dividend, res |-> <<>>]
            ELSE LET s == at[j - 1]
                     qw == quotientDigit(SubSeq(s.u, j, j + n - 1), divisor)
                 IN  [u |-> SubSeq(s.u, 1, j - 1) \o qw[2] \o SubSeq(s.u, j + n, Len(s.u)),
                      res |-> Append(s.res, qw[1])]
    IN  at[resN].res

shortDivision(digits, d, resN) ==
    LET rem[i \in 0 .. resN] == IF i = 0 THEN 0 ELSE (rem[i - 1] * nbase + digits[i + 1]) % d
    IN  [i \in 1 .. resN |-> (rem[i - 1] * nbase + digits[i + 1]) \div d]

quotientPlaces(weight, rscale, rounded) ==
    larger(weight + 1 + (rscale + decDigits - 1) \div decDigits, 1) + (IF rounded THEN 1 ELSE 0)

divVar(a, b, rscale, rounded) ==
    LET n1 == Len(a.digits)
        n2 == Len(b.digits)
        resN == quotientPlaces(a.weight - b.weight, rscale, rounded)
        divN == larger(resN + n2, n1)
        dividend == [i \in 1 .. divN + 1 |-> IF i - 1 \in 1 .. n1 THEN a.digits[i - 1] ELSE 0]
        divisor == <<0>> \o b.digits
        d == IF b.digits[1] < nbase \div 2 THEN nbase \div (b.digits[1] + 1) ELSE 1
        res == IF n2 = 1 THEN shortDivision(dividend, b.digits[1], resN)
               ELSE longDivision(times(dividend, d), times(divisor, d), resN)
        q == num(res, a.weight - b.weight, a.neg # b.neg, 0)
    IN  IF n1 = 0 THEN zeroAt(rscale)
        ELSE strip(IF rounded THEN round(q, rscale) ELSE trunc(q, rscale))

selectDivScale(a, b) ==
    LET first(n) == IF n.digits = <<>> THEN 0 ELSE n.digits[1]
        weight(n) == IF n.digits = <<>> THEN 0 ELSE n.weight
        q == weight(a) - weight(b) - (IF first(a) <= first(b) THEN 1 ELSE 0)
    IN  larger(larger(minSig - q * decDigits, a.dscale), larger(b.dscale, 0))

modVar(a, b) == subVar(a, mulVar(b, divVar(a, b, 0, FALSE), b.dscale))

----------------------------------------------------------------------------
(* Integers, square root, scale. *)

\* An integer's digits in base nbase, none for 0.
digitsOf(v) ==
    LET k == CHOOSE i \in 0 .. 9 : nbase ^ i > v /\ \A j \in 0 .. i - 1 : nbase ^ j <= v
    IN  [i \in 1 .. k |-> (v \div nbase ^ (k - i)) % nbase]

int64ToNumeric(v) ==
    IF v = 0 THEN zeroAt(0) ELSE num(digitsOf(abs32(v)), Len(digitsOf(abs32(v))) - 1, v < 0, 0)

\* Whether the value, accumulated below zero, fits with its sign.
fitsNegated(val, neg) == neg \/ val > -maxInt64 - 1

toInt64(n) ==
    LET r == strip(round(n, 0))
        low == -maxInt64 - 1
        digit(i) == IF i + 1 \in DOMAIN r.digits THEN r.digits[i + 1] ELSE 0
        val[i \in 0 .. r.weight] ==
            IF i = 0 THEN [ok |-> TRUE, v |-> -digit(0)]
            ELSE LET p == val[i - 1]
                     fits == /\ p.ok /\ p.v >= -((maxInt64 + 1) \div nbase)
                             /\ p.v * nbase >= low + digit(i)
                 IN  [ok |-> fits, v |-> IF fits THEN p.v * nbase - digit(i) ELSE 0]
        last == val[r.weight]
    IN  IF r.digits = <<>> THEN [ok |-> TRUE, v |-> 0]
        ELSE IF ~last.ok \/ ~fitsNegated(last.v, r.neg) THEN [ok |-> FALSE, v |-> 0]
        ELSE [ok |-> TRUE, v |-> IF r.neg THEN last.v ELSE -last.v]

\* The base digits of the root: one decimal digit beyond rscale at least.
rootPlaces(resWeight, rscale) == larger(resWeight + 1 + (rscale + decDigits) \div decDigits, 1)

sqrtVar(arg, rscale) ==
    LET resWeight == arg.weight \div 2
        resN == rootPlaces(resWeight, rscale)
        srcN == larger(arg.weight + 1 + (resN - resWeight - 1) * 2, 1)
        n[i \in 0 .. srcN] ==
            IF i = 0 THEN 0
            ELSE n[i - 1] * nbase + (IF i \in DOMAIN arg.digits THEN arg.digits[i] ELSE 0)
        root == CHOOSE s \in 0 .. nbase ^ ((srcN + 1) \div 2) : s * s <= n[srcN] /\ (s + 1) * (s + 1) > n[srcN]
    IN  IF arg.digits = <<>> THEN zeroAt(rscale)
        ELSE strip(round(num(digitsOf(root), resWeight, FALSE, 0), rscale))

minScale(n) ==
    LET last == Len(n.digits)
        ms == (last - 1 - n.weight) * decDigits
        zeros == CHOOSE k \in 0 .. decDigits - 1 :
                     n.digits[last] % 10 ^ k = 0 /\ n.digits[last] % 10 ^ (k + 1) # 0
    IN  IF n.digits = <<>> \/ ms <= 0 THEN 0 ELSE ms - zeros

----------------------------------------------------------------------------
(* Text. *)

parts(neg, ip, fp, exp) == [neg |-> neg, ip |-> ip, fp |-> fp, exp |-> exp]

\* The base weight of a first decimal digit of weight dweight.
weightOf(dweight) ==
    IF dweight >= 0 THEN (dweight + decDigits) \div decDigits - 1
    ELSE -((-dweight - 1) \div decDigits + 1)

setVarFromStr(x) ==
    LET dec == x.ip \o x.fp
        dweight == Len(x.ip) - 1 + x.exp
        weight == weightOf(dweight)
        offset == (weight + 1) * decDigits - (dweight + 1)
        ndigits == (Len(dec) + offset + decDigits - 1) \div decDigits
        decdigit(i) == IF i - offset \in DOMAIN dec THEN dec[i - offset] ELSE 0
        value[i \in 0 .. ndigits * decDigits] ==       \* of the base digit up to i
            IF i % decDigits = 0 THEN 0 ELSE value[i - 1] * 10 + decdigit(i)
    IN  strip(num([d \in 1 .. ndigits |-> value[d * decDigits - 1] * 10 + decdigit(d * decDigits)],
                  weight, x.neg, larger(Len(x.fp) - x.exp, 0)))

String(n) ==
    LET dec(w, k) == (place(n, w) \div 10 ^ (decDigits - k)) % 10      \* k-th of place w
        whole == [i \in 1 .. larger((n.weight + 1) * decDigits, 0) |->
                     dec(n.weight - ((i - 1) \div decDigits), ((i - 1) % decDigits) + 1)]
        shown == {i \in DOMAIN whole : i >= decDigits \/ \E j \in 1 .. i : whole[j] # 0}
    IN  parts(n.neg,
              IF n.weight < 0 THEN <<0>>
              ELSE SubSeq(whole, CHOOSE i \in shown : \A j \in shown : i <= j, Len(whole)),
              [i \in 1 .. n.dscale |-> dec(-1 - ((i - 1) \div decDigits), ((i - 1) % decDigits) + 1)],
              0)

----------------------------------------------------------------------------
(* Division with digits estimated in floating point, and what corrects it. *)

\* The integers the estimate may give: the product with the rounded inverse may put an exact
\* quotient just below, and one that is nearly the next integer on it.
estimates(div, qi, b) ==
    LET lead(s, i) == IF i \in DOMAIN s THEN s[i] ELSE 0
        four(s, i) == ((lead(s, i) * nbase + lead(s, i + 1)) * nbase
                          + lead(s, i + 2)) * nbase + lead(s, i + 3)
        q == four(div, qi + 1) \div four(b.digits, 1)
        left == four(div, qi + 1) % four(b.digits, 1)
    IN  {q} \cup {q - 1 : x \in {0} \cap {left}} \cup {q + 1 : x \in {four(b.digits, 1) - 1} \cap {left}}

roomForDiv(maxdiv) == maxdiv <= (maxInt - maxInt \div nbase - 1) \div (nbase - 1)

\* The carries below place qi propagated into it (places from 0, div[1] the first).
settled(div, qi, n2) ==
    LET top == smaller(qi + n2 - 2, Len(div) - 1)
        carry[i \in qi .. larger(top, qi)] ==
            IF i >= top THEN 0 ELSE (div[i + 2] + carry[i + 1]) \div nbase
    IN  list([i \in DOMAIN div |->
            CASE i - 1 = qi -> div[i] + carry[qi]
              [] i - 1 \in qi + 1 .. top -> (div[i] + carry[i - 1]) % nbase
              [] OTHER -> div[i]])

\* One digit taken off: the divisor's multiple subtracted, what is left moved right.
taken(div, qi, q, b) ==
    LET less == list([i \in DOMAIN div |->
                    IF i - qi \in DOMAIN b.digits THEN div[i] - q * b.digits[i - qi] ELSE div[i]])
    IN  [less EXCEPT ![qi + 1] = q, ![qi + 2] = @ + less[qi + 1] * nbase]

largest(s) == CHOOSE m \in {abs32(s[i]) : i \in DOMAIN s} : \A i \in DOMAIN s : abs32(s[i]) <= m

Idle == [k |-> "idle"]
Result(v, r, i, text, peak) == [v |-> v, r |-> r, i |-> i, text |-> text, peak |-> peak]
NoText == parts(FALSE, <<>>, <<>>, 0)
NoInt == [ok |-> FALSE, v |-> 0]
Pending == Result(zeroAt(0), zeroAt(0), NoInt, NoText, -1)
Value(v) == Result(v, zeroAt(0), NoInt, NoText, 0)

Init == call \in Calls /\ work = Idle /\ out = Pending

\* The operations that compute in one go.
Compute ==
    /\ work = Idle /\ out = Pending /\ call.op \notin {"fast", "divmod"}
    /\ out' = LET a == call.a
                  b == call.b
              IN  CASE call.op = "add" -> Value(addVar(a, b))
                    [] call.op = "sub" -> Value(subVar(a, b))
                    [] call.op = "mul" -> [Value(mulVar(a, b, call.n))
                                              EXCEPT !.peak = mulPeak(a, b, call.n)]
                    [] call.op = "div" -> Value(divVar(a, b, call.n, TRUE))
                    [] call.op = "quot" -> Value(divVar(a, b, call.n, FALSE))
                    [] call.op = "slash" -> Value(divVar(a, b, selectDivScale(a, b), TRUE))
                    [] call.op = "mod" -> Value(modVar(a, b))
                    [] call.op = "round" -> Value(strip(round(a, call.n)))
                    [] call.op = "trunc" -> Value(strip(trunc(a, call.n)))
                    [] call.op = "ceil" -> Value(strip(ceilVar(a)))
                    [] call.op = "floor" -> Value(strip(floorVar(a)))
                    [] call.op = "int" -> [Value(a) EXCEPT !.i = toInt64(a)]
                    [] call.op = "ofint" -> [Value(int64ToNumeric(call.n))
                                                EXCEPT !.i = toInt64(int64ToNumeric(call.n))]
                    [] call.op = "sqrt" -> Value(sqrtVar(a, call.n))
                    [] call.op = "text" -> [Value(setVarFromStr(String(a))) EXCEPT !.text = String(a)]
                    [] call.op = "parse" -> Value(setVarFromStr(call.text))
                    [] call.op = "scale" -> [Value(a) EXCEPT !.i = [ok |-> TRUE, v |-> minScale(a)]]
    /\ UNCHANGED <<call, work>>

\* divVarFast: the dividend is laid out with guard digits.
FastStart ==
    /\ work = Idle /\ out = Pending /\ call.op \in {"fast", "divmod"}
    /\ LET rscale == IF call.op = "fast" THEN call.n ELSE 0
           weight == call.a.weight - call.b.weight + 1
           divN == larger(weight + 1 + (rscale + decDigits - 1) \div decDigits + divGuardDigits,
                          divGuardDigits)
       IN  work' = [k |-> "fast", rscale |-> rscale, weight |-> weight, qi |-> 0, maxdiv |-> 1,
                    peak |-> 0,
                    div |-> list([i \in 1 .. divN + 1 |->
                                IF i - 1 \in 1 .. smaller(divN, Len(call.a.digits))
                                THEN call.a.digits[i - 1] ELSE 0])]
    /\ UNCHANGED <<call, out>>

\* One estimated digit; accumulators that could overflow are settled and it is estimated again.
FastDigit ==
    /\ work.k = "fast" /\ work.qi < Len(work.div) - 1
    /\ \E q1 \in estimates(work.div, work.qi, call.b) :
       LET room == q1 = 0 \/ roomForDiv(work.maxdiv + abs32(q1))
           div == IF room THEN work.div ELSE settled(work.div, work.qi, Len(call.b.digits))
       IN  \E q \in IF room THEN {q1} ELSE estimates(div, work.qi, call.b) :
           LET next == taken(div, work.qi, q, call.b)
           IN  work' = [work EXCEPT !.div = next, !.qi = @ + 1,
                                    !.maxdiv = (IF room THEN @ ELSE 1) + abs32(q),
                                    !.peak = larger(@, largest(next))]
    /\ UNCHANGED <<call, out>>

\* The last digit, the carries, rounding; for a divmod the first remainder.
FastEnd ==
    /\ work.k = "fast" /\ work.qi = Len(work.div) - 1
    /\ \E q \in estimates(work.div, work.qi, call.b) :
       LET res == num(carried([work.div EXCEPT ![work.qi + 1] = q]), work.weight,
                      call.a.neg # call.b.neg, 0)
           quo == IF call.a.digits = <<>> THEN zeroAt(work.rscale)
                  ELSE strip(IF call.op = "fast" THEN round(res, work.rscale)
                             ELSE trunc(res, work.rscale))
       IN  IF call.op = "fast"
           THEN /\ out' = [Value(quo) EXCEPT !.peak = work.peak]
                /\ work' = Idle
           ELSE /\ work' = [k |-> "fix", sized |-> FALSE, q |-> quo, peak |-> work.peak,
                            r |-> subVar(call.a, mulVar(call.b, quo, call.b.dscale))]
                /\ out' = out
    /\ UNCHANGED call

wrongSign(r, a) == r.digits # <<>> /\ r.neg # a.neg

tooLarge(r, b) == cmpAbs(r, b) >= 0

\* The quotient and the remainder moved by one divisor, the quotient toward zero or away.
moved(w, away) ==
    LET same == call.a.neg = call.b.neg
    IN  [w EXCEPT !.q = IF same = away THEN addVar(@, numOne) ELSE subVar(@, numOne),
                  !.r = IF same = away THEN subVar(@, call.b) ELSE addVar(@, call.b)]

\* divModVar: a remainder of the wrong sign goes back, then one too large goes on.
Correct ==
    /\ work.k = "fix"
    /\ LET bad == ~work.sized /\ wrongSign(work.r, call.a)
           big == tooLarge(work.r, call.b)
       IN  IF bad \/ big THEN work' = [moved(work, ~bad) EXCEPT !.sized = ~bad] /\ out' = out
           ELSE work' = Idle /\ out' = Result(work.q, work.r, NoInt, NoText, work.peak)
    /\ UNCHANGED call

Next == Compute \/ FastStart \/ FastDigit \/ FastEnd \/ Correct

Spec == Init /\ [][Next]_vars

----------------------------------------------------------------------------
(* The reference: a number is its mantissa, an integer, over a power of    *)
(* ten.                                                                    *)

Scale(n) == decDigits * larger(0, Len(n.digits) - n.weight - 1)
Mantissa(n) ==
    LET m[i \in 0 .. Len(n.digits)] == IF i = 0 THEN 0 ELSE m[i - 1] * nbase + n.digits[i]
    IN  (IF n.neg THEN -1 ELSE 1) * m[Len(n.digits)] * nbase ^ larger(0, n.weight + 1 - Len(n.digits))
At(n, s) == Mantissa(n) * 10 ^ (s - Scale(n))

\* x / d rounded half away from zero, and toward zero (d > 0).
HalfAway(x, d) == IF x >= 0 THEN (2 * x + d) \div (2 * d) ELSE -((d - 2 * x) \div (2 * d))
TowardZero(x, d) == IF x >= 0 THEN x \div d ELSE -((-x) \div d)

\* n is the integer x over 10^s, s perhaps negative.
Is(n, x, s) ==
    LET u == larger(Scale(n), larger(s, 0)) IN At(n, u) = x * 10 ^ (u - s)

\* a / b at rscale decimals is X / D.
QuotX(a, b, rscale) == Mantissa(a) * 10 ^ (rscale + larger(0, Scale(b) - Scale(a)))
                         * (IF b.neg THEN -1 ELSE 1)
QuotD(a, b) == abs32(Mantissa(b)) * 10 ^ larger(0, Scale(a) - Scale(b))

Finished(ops) == out # Pending /\ call.op \in ops

\* Every result is in normal form, as the comparison, the division and the text rely on: no zero
\* digit at either end, each digit in the base, and a zero positive (strip). An integer's own
\* conversion keeps trailing zero digits and is left out (int64ToNumeric).
Canonical ==
    out # Pending /\ call.op # "ofint" =>
        \A n \in {out.v, out.r} :
            /\ \A i \in DOMAIN n.digits : n.digits[i] \in 0 .. nbase - 1
            /\ n.digits # <<>> => n.digits[1] # 0 /\ n.digits[Len(n.digits)] # 0
            /\ n.digits = <<>> => ~n.neg /\ n.weight = 0

\* A sum and a difference are exact, however the two numbers' places overlap (addSigned).
SumsAreExact ==
    Finished({"add", "sub"}) =>
        LET s == larger(Scale(call.a), Scale(call.b))
            y == At(call.b, s)
        IN  /\ Is(out.v, At(call.a, s) + (IF call.op = "add" THEN y ELSE -y), s)
            /\ out.v.dscale = larger(call.a.dscale, call.b.dscale)

\* Rounding goes half away from zero at any decimal place, before the point too; truncation,
\* ceiling and floor go where they say (round, trunc, ceilVar, floorVar).
RoundingIsRight ==
    Finished({"round", "trunc", "ceil", "floor"}) =>
        LET n == IF call.op \in {"ceil", "floor"} THEN 0 ELSE call.n
            s == larger(Scale(call.a), larger(n, 0))
            x == At(call.a, s)
            unit == 10 ^ (s - n)
            want == CASE call.op = "round" -> HalfAway(x, unit)
                      [] call.op = "trunc" -> TowardZero(x, unit)
                      [] call.op = "floor" -> x \div unit
                      [] OTHER -> -((-x) \div unit)
        IN  Is(out.v, want, n)

\* A product with no more decimals than asked is exact; a longer one, of which only guarded places
\* are computed, is less than one unit of the last decimal away (mulVar).
ProductsAreRight ==
    Finished({"mul"}) =>
        LET s == Scale(call.a) + Scale(call.b)
            u == larger(larger(s, Scale(out.v)), call.n)
            x == Mantissa(call.a) * Mantissa(call.b) * 10 ^ (u - s)
            unit == 10 ^ (u - call.n)
        IN  /\ abs32(At(out.v, u) - x) < unit
            /\ x % unit = 0 => At(out.v, u) = x
            /\ At(out.v, u) % unit = 0

\* A quotient is the exact one rounded half away, or cut, at the scale asked for, whatever the
\* estimated digits and the places taken back (divVar).
QuotientsAreRight ==
    Finished({"div", "quot"}) =>
        LET x == QuotX(call.a, call.b, call.n)
            d == QuotD(call.a, call.b)
        IN  Is(out.v, IF call.op = "div" THEN HalfAway(x, d) ELSE TowardZero(x, d), call.n)

\* The division operator's own choice of scale shows minSig significant digits (selectDivScale).
EnoughDigits ==
    Finished({"slash"}) /\ call.a.digits # <<>> =>
        abs32(At(out.v, larger(Scale(out.v), out.v.dscale)))
            >= 10 ^ (minSig - 1 + larger(Scale(out.v) - out.v.dscale, 0))

\* A remainder has the dividend's sign, is smaller than the divisor and leaves a multiple of it,
\* and divmod's quotient is that multiple, whichever way the estimates went (modVar, divModVar).
RemaindersAreRight ==
    Finished({"mod", "divmod"}) =>
        LET r == IF call.op = "mod" THEN out.v ELSE out.r
            s == larger(larger(Scale(call.a), Scale(call.b)), Scale(r))
            b == At(call.b, s)
            left == At(call.a, s) - At(r, s)
        IN  /\ abs32(At(r, s)) < abs32(b)
            /\ r.digits = <<>> \/ r.neg = call.a.neg
            /\ abs32(left) % abs32(b) = 0
            /\ call.op = "divmod" => left = Mantissa(out.v) * b /\ Scale(out.v) = 0

\* A number converts to an integer exactly when, rounded, it is one of the type, the lowest
\* included, and an integer comes back from its numeric (toInt64, int64ToNumeric).
IntegersAreRight ==
    Finished({"int", "ofint"}) =>
        LET want == IF call.op = "ofint" THEN call.n
                    ELSE HalfAway(Mantissa(call.a), 10 ^ Scale(call.a))
        IN  /\ out.i.ok <=> want \in (-maxInt64 - 1) .. maxInt64
            /\ out.i.ok => out.i.v = want

\* A square root is the nearest number of the scale asked for (sqrtVar).
RootsAreRight ==
    Finished({"sqrt"}) =>
        LET s == larger(larger(Scale(out.v), call.n), (Scale(call.a) + 1) \div 2)
            half == 10 ^ (s - call.n)              \* half a unit, doubled
            r2 == 2 * At(out.v, s)
            x4 == 4 * At(call.a, 2 * s)
        IN  /\ (r2 + half) * (r2 + half) > x4
            /\ r2 >= half => (r2 - half) * (r2 - half) <= x4

\* A number's text reads back as the number with its display scale, and a text with an exponent is
\* the decimal it writes (String, setVarFromStr).
TextIsRight ==
    /\ Finished({"text"}) => out.v = call.a
    /\ Finished({"parse"}) =>
        LET dec == call.text.ip \o call.text.fp
            m[i \in 0 .. Len(dec)] == IF i = 0 THEN 0 ELSE m[i - 1] * 10 + dec[i]
        IN  Is(out.v, (IF call.text.neg THEN -1 ELSE 1) * m[Len(dec)],
               Len(call.text.fp) - call.text.exp)

\* The least scale is the least that shows the number exactly (minScale).
LeastScale ==
    Finished({"scale"}) =>
        LET exact(s) == abs32(At(call.a, Scale(call.a))) % 10 ^ (Scale(call.a) - s) = 0
        IN  out.i.v \in 0 .. Scale(call.a) /\ exact(out.i.v)
              /\ (out.i.v > 0 => ~exact(out.i.v - 1))

\* No accumulator of a product or of an estimated division leaves its integer type, although
\* carries are propagated only when the digits used so far could overflow it (mulVar, divVarFast).
AccumulatorsFit == out.peak <= maxInt /\ (work # Idle => work.peak <= maxInt)

\* The estimated division is less than one unit of the last decimal away (divVarFast).
EstimatesAreClose ==
    Finished({"fast"}) =>
        LET x == QuotX(call.a, call.b, call.n)
            d == QuotD(call.a, call.b)
            u == larger(Scale(out.v), call.n)
        IN  abs32(At(out.v, u) * d - x * 10 ^ (u - call.n)) < d * 10 ^ (u - call.n)

\* The estimated quotient of a divmod is at most one away from the cut one, so its correction loops
\* end after one step at most (divModVar).
CorrectionsAreFew ==
    work.k = "fix" =>
        LET s == larger(larger(Scale(call.a), Scale(call.b)), Scale(work.r))
        IN  abs32(At(work.r, s)) < 2 * abs32(At(call.b, s))

-----------------------------------------------------------------------------
\* Calls of pg_numeric.go on small numbers: base 100, so that a decimal
\* scale can end inside a digit, and base 10, where every digit and every
\* take-back of the division is reached.

\* A number with just the decimals its digits need, or `extra` more.
Shown(digits, weight, neg, extra) ==
    LET n == num(digits, weight, neg, 0) IN [n EXCEPT !.dscale = minScale(n) + extra]

\* Normal numbers over the digits D with weights W, at most len digits.
Numbers(D, W, len, signs, extras) ==
    {zeroAt(e) : e \in extras} \cup
    {Shown(ds, w, s, e) : ds \in {x \in UNION {[1 .. k -> D] : k \in 1 .. len} :
                                     x[1] # 0 /\ x[Len(x)] # 0},
                          w \in W, s \in signs, e \in extras}

Zero == zeroAt(0)
CallsOf(ops, A, B, N) == [op : ops, a : A, b : B, n : N, text : {NoText}]

D100 == {0, 1, 10, 49, 50, 99}
Pairs100 == Numbers({0, 1, 50, 99}, {-1, 0}, 2, BOOLEAN, {0, 1})
Nonzero(S) == {n \in S : n.digits # <<>>}
Texts == {parts(s, ip, fp, e) : s \in {TRUE}, e \in -3 .. 3,
             ip \in {<<>>, <<0>>, <<1>>, <<5, 0>>, <<1, 0, 2>>},
             fp \in {<<>>, <<0>>, <<0, 3>>, <<7, 0, 9>>}}

Calls100 ==
    CallsOf({"add", "sub"}, Pairs100, Numbers({0, 1, 50, 99}, {-1, 0, 1}, 2, BOOLEAN, {0}), {0})
    \cup CallsOf({"mul"}, Numbers({0, 1, 50, 99}, {-1, 0}, 2, {FALSE}, {0}),
                 Numbers(D100, {-1, 0}, 2, {FALSE}, {0}), {0, 1, 3})
    \cup CallsOf({"div", "quot"}, Numbers({0, 1, 99}, {-1, 0}, 2, BOOLEAN, {0}),
                 Nonzero(Numbers(D100, {-1, 0}, 2, {FALSE}, {0})), {0, 1, 2})
    \cup CallsOf({"slash"}, Numbers({1, 50, 99}, {0}, 2, {FALSE}, {0}),
                 Nonzero(Numbers({1, 50, 99}, {-1, 0}, 2, {FALSE}, {0})), {0})
    \cup CallsOf({"mod"}, Numbers({0, 1, 50, 99}, {-1, 0, 1}, 2, BOOLEAN, {0}),
                 Nonzero(Numbers({1, 49, 50}, {-1, 0}, 2, BOOLEAN, {0})), {0})
    \cup CallsOf({"round", "trunc"}, Numbers(D100, {-1, 0, 1}, 3, BOOLEAN, {0}), {Zero}, -3 .. 3)
    \cup CallsOf({"ceil", "floor", "int", "scale"}, Numbers(D100, {-1, 0, 1}, 3, BOOLEAN, {0}), {Zero}, {0})
    \cup CallsOf({"text"}, Numbers(D100, {-2, -1, 0, 1}, 3, BOOLEAN, {0, 1, 2}), {Zero}, {0})
    \cup CallsOf({"sqrt"}, Numbers(D100, {-2, -1, 0, 1}, 2, {FALSE}, {0}), {Zero}, {0, 1})
    \cup CallsOf({"ofint"}, {Zero}, {Zero}, -256 .. 255)
    \cup {[op |-> "parse", a |-> Zero, b |-> Zero, n |-> 0, text |-> x] :
             x \in {y \in Texts : y.ip \o y.fp # <<>>}}

D10 == {0, 1, 4, 5, 8, 9}
Calls10 ==
    CallsOf({"mul"}, Numbers({0, 8, 9}, {1}, 4, {FALSE}, {0}),
            Numbers({0, 1, 9}, {0}, 4, {FALSE}, {0}), {0, 2})
    \cup CallsOf({"div"}, Numbers({0, 1, 4, 9}, {2}, 3, {FALSE}, {0}),
                 Nonzero(Numbers(D10, {1}, 3, {FALSE}, {0})), {0, 1})
    \cup CallsOf({"fast"}, Numbers({0, 1, 9}, {1}, 3, {FALSE}, {0}),
                 Nonzero(Numbers({0, 1, 5, 9}, {0}, 3, {FALSE}, {0})), {0, 1})
    \cup CallsOf({"divmod"}, Numbers({0, 1, 9}, {0, 1}, 3, BOOLEAN, {0}),
                 Nonzero(Numbers({0, 1, 5, 9}, {0}, 2, BOOLEAN, {0})), {0})
=============================================================================
