----------------------------- MODULE SqliteDate -----------------------------
(***************************************************************************)
(* SQLite's date and time functions (pkg/sqlfn/sqlite_date.go).  A moment  *)
(* is kept in three forms, a Julian day count, a calendar date and a time  *)
(* of day, each with a flag saying whether it is current; every modifier   *)
(* brings the forms it needs up to date, changes some and drops others.    *)
(* The unit of time is an hour: minutes, seconds and text are left out.    *)
(***************************************************************************)
EXTENDS Integers, Sequences, FiniteSets

CONSTANTS TimeValues,    \* first arguments: written dates and times, and numbers
          Modifiers,     \* what may follow
          MaxMods,       \* bound: modifiers applied
          Pairs          \* arguments of timediff

VARIABLES args,          \* the time value given, or timediff's two
          mods           \* the modifiers after it

vars == <<args, mods>>

quo(a, b) == IF a >= 0 THEN a \div b ELSE -((-a) \div b)        \* Go's division
rem(a, b) == a - b * quo(a, b)

----------------------------------------------------------------------------
(* The calendar by counting days, for the reference and for time.Local.    *)

Leap(y) == (y % 4 = 0 /\ y % 100 # 0) \/ y % 400 = 0
MonthDays(y, m) == IF m = 2 THEN IF Leap(y) THEN 29 ELSE 28 ELSE IF m \in {4, 6, 9, 11} THEN 30 ELSE 31
BeforeMonth(y, m) ==
    LET sum[k \in 1 .. 12] == IF k = 1 THEN 0 ELSE sum[k - 1] + MonthDays(y, k - 1) IN sum[m]
BeforeYear(y) ==
    LET n == y + 4800
    IN  365 * n + ((n + 3) \div 4) - ((n + 99) \div 100) + ((n + 399) \div 400)
Day0 == 2451545 - BeforeYear(2000)
DayNo(y, m, d) == Day0 + BeforeYear(y) + BeforeMonth(y, m) + d - 1
Instant(y, m, d, h) == 24 * DayNo(y, m, d) - 12 + h
Fields(i) ==
    LET n == (i + 12) \div 24
        k == n - Day0
        about == -4800 + 400 * (k \div 146097) + ((k % 146097) * 400) \div 146097
        y == CHOOSE x \in about - 1 .. about + 1 : DayNo(x, 1, 1) <= n /\ n < DayNo(x + 1, 1, 1)
        m == CHOOSE x \in 1 .. 12 : DayNo(y, x, 1) <= n /\ n < DayNo(y, x, 1) + MonthDays(y, x)
    IN  [y |-> y, m |-> m, d |-> n - DayNo(y, m, 1) + 1, h |-> (i + 12) % 24]

\* The host's zone: an hour ahead, two from April to September.
Offset(i) == IF Fields(i).m \in 4 .. 9 THEN 2 ELSE 1

----------------------------------------------------------------------------
(* dateTime and its three forms. *)

Zero == [iJD |-> 0, Y |-> 0, M |-> 0, D |-> 0, h |-> 0, tz |-> 0, s |-> 0,
         validJD |-> FALSE, validYMD |-> FALSE, validHMS |-> FALSE,
         nFloor |-> 0, rawS |-> FALSE, isError |-> FALSE, isUTC |-> FALSE, isLocal |-> FALSE]

datetimeError == [Zero EXCEPT !.isError = TRUE]
clearYMDHMSTZ(q) == [q EXCEPT !.validYMD = FALSE, !.validHMS = FALSE, !.tz = 0]
validJulianDay(i) == i >= 0 /\ i <= 128963627
UnixEpoch == 58574100

computeJD(q) ==
    LET y0 == IF q.validYMD THEN q.Y ELSE 2000
        m0 == IF q.validYMD THEN q.M ELSE 1
        d == IF q.validYMD THEN q.D ELSE 1
        y == IF m0 <= 2 THEN y0 - 1 ELSE y0
        m == IF m0 <= 2 THEN m0 + 12 ELSE m0
        a == quo(y + 4800, 100)
        b == 38 - a + quo(a, 4)
        x1 == quo(36525 * (y + 4716), 100)
        x2 == quo(306001 * (m + 1), 10000)
        j == [q EXCEPT !.iJD = 24 * (x1 + x2 + d + b) - 36588 + (IF q.validHMS THEN q.h - q.tz ELSE 0),
                       !.validJD = TRUE]
    IN  IF q.validJD THEN q
        ELSE IF y0 < -4713 \/ y0 > 9999 \/ q.rawS THEN datetimeError
        ELSE IF q.validHMS /\ q.tz # 0
        THEN [clearYMDHMSTZ(j) EXCEPT !.isUTC = TRUE, !.isLocal = FALSE] ELSE j

\* Days a day of the month runs past its month's end.
computeFloor(q) ==
    [q EXCEPT !.nFloor =
        CASE q.D <= 28 \/ q.M \in {1, 3, 5, 7, 8, 10, 12} -> 0
          [] q.D > 28 /\ q.M \in {4, 6, 9, 11} -> IF q.D = 31 THEN 1 ELSE 0
          [] OTHER -> IF rem(q.Y, 4) # 0 \/ (rem(q.Y, 100) = 0 /\ rem(q.Y, 400) # 0) THEN q.D - 28 ELSE q.D - 29]

computeYMD(q) ==
    LET z == quo(q.iJD + 12, 24)
        alpha == quo(4 * z + 128179, 146097) - 52
        a == z + 1 + alpha - quo(alpha + 100, 4) + 25
        b == a + 1524
        c == quo(20 * b - 2442, 7305)
        d == quo(36525 * c, 100)
        e == quo(10000 * (b - d), 306001)
        m == IF e < 14 THEN e - 1 ELSE e - 13
    IN  IF q.validYMD THEN q
        ELSE IF ~q.validJD THEN [q EXCEPT !.Y = 2000, !.M = 1, !.D = 1, !.validYMD = TRUE]
        ELSE IF ~validJulianDay(q.iJD) THEN datetimeError
        ELSE [q EXCEPT !.Y = IF m > 2 THEN c - 4716 ELSE c - 4715, !.M = m,
                       !.D = b - d - quo(306001 * e, 10000), !.validYMD = TRUE]

computeHMS(q) ==
    LET j == computeJD(q)
    IN  IF q.validHMS THEN q ELSE [j EXCEPT !.h = rem(j.iJD + 12, 24), !.rawS = FALSE, !.validHMS = TRUE]

computeYMDHMS(q) == computeHMS(computeYMD(q))

----------------------------------------------------------------------------
(* The first argument.  A date, a time or both, perhaps with a zone; a     *)
(* number, which may be a Julian day or Unix time.                         *)

written(y, m, d, h, tz) == [k |-> "ymd", y |-> y, m |-> m, d |-> d, h |-> h, tz |-> tz]   \* h = -1: no time
timeOnly(h) == [k |-> "hms", y |-> 0, m |-> 0, d |-> 0, h |-> h, tz |-> 0]
bare(r) == [k |-> "num", y |-> r, m |-> 0, d |-> 0, h |-> 0, tz |-> 0]

parseHhMmSs(q, v) ==
    [q EXCEPT !.validJD = FALSE, !.rawS = FALSE, !.validHMS = TRUE, !.h = v.h, !.tz = v.tz]
parseYyyyMmDd(v) ==
    LET t == IF v.h = -1 THEN Zero ELSE parseHhMmSs(Zero, v)
        q == computeFloor([t EXCEPT !.validYMD = TRUE, !.Y = v.y, !.M = v.m, !.D = v.d])
    IN  IF v.tz # 0 THEN computeJD(q) ELSE q
setRawDateNumber(r) ==
    LET q == [Zero EXCEPT !.s = r, !.rawS = TRUE]
    IN  IF r >= 0 /\ r < 5373485 THEN [q EXCEPT !.iJD = 24 * r, !.validJD = TRUE] ELSE q

parseDateOrTime(v) == CASE v.k = "ymd" -> parseYyyyMmDd(v)
                        [] v.k = "hms" -> parseHhMmSs(Zero, v)
                        [] OTHER -> setRawDateNumber(v.y)

----------------------------------------------------------------------------
(* Modifiers.  Each gives the dateTime after it, and whether it applied.   *)

did(q) == [ok |-> TRUE, p |-> q]
refused(q) == [ok |-> FALSE, p |-> q]

\* The local time of a moment, through a year of 1970..2037 that has the same leap days.
toLocaltime(q) ==
    LET j == computeJD(q)
        far == j.iJD < UnixEpoch \/ j.iJD > 59170596
        x == computeYMDHMS(j)
        yearDiff == IF far THEN 2000 + rem(x.Y, 4) - x.Y ELSE 0
        near == computeJD([x EXCEPT !.Y = @ + yearDiff, !.validJD = FALSE])
        t == IF far THEN near.iJD ELSE j.iJD
        lt == Fields(t + Offset(t))
    IN  [j EXCEPT !.Y = lt.y - yearDiff, !.M = lt.m, !.D = lt.d, !.h = lt.h, !.validYMD = TRUE,
                  !.validHMS = TRUE, !.validJD = FALSE, !.rawS = FALSE, !.tz = 0, !.isError = FALSE]

\* The moment whose local time is orig, from a guess refined up to three times.
RECURSIVE guessUTC(_, _, _)
guessUTC(orig, guess, cnt) ==
    LET d == computeJD(toLocaltime([Zero EXCEPT !.iJD = guess, !.validJD = TRUE])).iJD - orig
    IN  IF d = 0 \/ cnt >= 3 THEN guess ELSE guessUTC(orig, guess - d, cnt + 1)

autoAdjustDate(q) ==
    IF ~q.rawS \/ q.validJD THEN [q EXCEPT !.rawS = FALSE]
    ELSE IF q.s >= -UnixEpoch /\ q.s <= 70389527
    THEN [clearYMDHMSTZ(q) EXCEPT !.iJD = q.s + UnixEpoch, !.validJD = TRUE, !.rawS = FALSE] ELSE q

\* A month outside 1..12 carried into the year.
normalizeMonth(q) ==
    LET x == IF q.M > 0 THEN quo(q.M - 1, 12) ELSE quo(q.M - 12, 12)
    IN  [q EXCEPT !.Y = @ + x, !.M = @ - 12 * x]

\* Mutant of plusMonths: the Julian day from before stays current.
plusMonths_StaleJD(q0, months, years) ==
    LET q == computeYMDHMS(q0)
    IN  computeFloor(normalizeMonth([q EXCEPT !.M = @ + months, !.Y = @ + years]))

plusMonths(q0, months, years) ==
    LET q == computeYMDHMS(q0)
        n == normalizeMonth([q EXCEPT !.M = @ + months, !.Y = @ + years])
    IN  [computeFloor(n) EXCEPT !.validJD = FALSE]

\* '±N unit': hours, days, months or years.
unitModifier(q0, u, n) ==
    LET q == [computeJD(q0) EXCEPT !.nFloor = 0]
        moved == CASE u = "month" -> plusMonths(q, n, 0)
                   [] u = "year" -> plusMonths(q, 0, n)
                   [] OTHER -> q
        j == computeJD(moved)
        hours == CASE u = "day" -> 24 * n [] u = "hour" -> n [] OTHER -> 0
    IN  clearYMDHMSTZ([j EXCEPT !.iJD = @ + hours])

\* '±YYYY-MM-DD[ HH:MM]'.
ymdModifier(q, m) ==
    LET j == computeJD(plusMonths(q, m.sg * m.mo, m.sg * m.y))
    IN  clearYMDHMSTZ([j EXCEPT !.iJD = @ + m.sg * (24 * m.d + m.h)])

weekday(q0, n) ==
    LET q == computeJD([computeYMDHMS(q0) EXCEPT !.tz = 0, !.validJD = FALSE])
        w == rem(quo(q.iJD + 36, 24), 7)
        d == IF w > n THEN w - 7 ELSE w
    IN  clearYMDHMSTZ([q EXCEPT !.iJD = @ + (n - d) * 24])

startOf(q0, u) ==
    LET q == [computeYMD(q0) EXCEPT !.validHMS = TRUE, !.h = 0, !.rawS = FALSE, !.tz = 0, !.validJD = FALSE]
    IN  CASE u = "year" -> [q EXCEPT !.M = 1, !.D = 1]
          [] u = "month" -> [q EXCEPT !.D = 1]
          [] OTHER -> q

parseModifier(q, m, first) ==
    CASE m.k = "auto" -> IF first THEN did(autoAdjustDate(q)) ELSE refused(q)
      [] m.k = "ceiling" -> did([clearYMDHMSTZ(computeJD(q)) EXCEPT !.nFloor = 0])
      [] m.k = "floor" -> LET j == computeJD(q) IN did(clearYMDHMSTZ([j EXCEPT !.iJD = @ - 24 * j.nFloor]))
      [] m.k = "julianday" -> IF first /\ q.validJD /\ q.rawS THEN did([q EXCEPT !.rawS = FALSE]) ELSE refused(q)
      [] m.k = "unixepoch" ->
            IF first /\ q.rawS /\ q.s + UnixEpoch >= 0 /\ q.s + UnixEpoch < 128963628
            THEN did([clearYMDHMSTZ(q) EXCEPT !.iJD = q.s + UnixEpoch, !.validJD = TRUE, !.rawS = FALSE])
            ELSE refused(q)
      [] m.k = "localtime" ->
            did([(IF q.isLocal THEN q ELSE toLocaltime(q)) EXCEPT !.isUTC = FALSE, !.isLocal = TRUE])
      [] m.k = "utc" ->
            IF q.isUTC THEN did(q)
            ELSE LET o == computeJD(q).iJD
                 IN  did([Zero EXCEPT !.iJD = guessUTC(o, o, 0), !.validJD = TRUE, !.isUTC = TRUE])
      [] m.k = "weekday" -> did(weekday(q, m.n))
      [] m.k = "start" -> IF ~q.validJD /\ ~q.validYMD /\ ~q.validHMS THEN refused(q) ELSE did(startOf(q, m.u))
      [] m.k = "unit" -> did(unitModifier(q, m.u, m.n))
      [] OTHER -> did(ymdModifier(q, m))

unit(u, n) == [k |-> "unit", u |-> u, n |-> n]
ymd(sg, y, mo, d, h) == [k |-> "ymd", sg |-> sg, y |-> y, mo |-> mo, d |-> d, h |-> h]
start(u) == [k |-> "start", u |-> u]
onWeekday(n) == [k |-> "weekday", n |-> n]
plain(k) == [k |-> k]

\* The end of isDate: NULL beyond the calendar.
isNull(q) == LET j == computeJD(q) IN j.isError \/ ~validJulianDay(j.iJD)

----------------------------------------------------------------------------
(* strftime's weeks. *)

daysAfterJan01(q) ==
    LET jan01 == computeJD([q EXCEPT !.validJD = FALSE, !.M = 1, !.D = 1])
    IN  quo(q.iJD - jan01.iJD + 12, 24)
daysAfterMonday(q) == rem(quo(q.iJD + 12, 24), 7)
daysAfterSunday(q) == rem(quo(q.iJD + 36, 24), 7)

isoThursday(q) == computeYMD([q EXCEPT !.iJD = @ + (3 - daysAfterMonday(q)) * 24, !.validYMD = FALSE])

weekU(q) == quo(daysAfterJan01(q) - daysAfterSunday(q) + 7, 7)
weekW(q) == quo(daysAfterJan01(q) - daysAfterMonday(q) + 7, 7)
weekV(q) == quo(daysAfterJan01(isoThursday(q)), 7) + 1

----------------------------------------------------------------------------
(* timediff: whole years and months by the calendar, then the rest. *)

stepBack(d2) == IF d2.M = 1 THEN [d2 EXCEPT !.M = 12, !.Y = @ - 1] ELSE [d2 EXCEPT !.M = @ - 1]
stepOn(d2) == IF d2.M = 12 THEN [d2 EXCEPT !.M = 1, !.Y = @ + 1] ELSE [d2 EXCEPT !.M = @ + 1]

recount(q) == computeJD([q EXCEPT !.validJD = FALSE])

RECURSIVE stepped(_, _, _, _, _)
stepped(d1, d2, y, m, later) ==
    LET far == IF later THEN d1.iJD < d2.iJD ELSE d1.iJD > d2.iJD
    IN  IF ~far THEN [d2 |-> d2, y |-> y, m |-> m]
        ELSE stepped(d1, recount(IF later THEN stepBack(d2) ELSE stepOn(d2)),
                     IF m = 0 THEN y - 1 ELSE y, IF m = 0 THEN 11 ELSE m - 1, later)

yearsApart(d1, d2, sg) == sg * (d1.Y - d2.Y) - (IF sg * (d1.M - d2.M) < 0 THEN 1 ELSE 0)

timediff(a, b) ==
    LET d1 == computeYMDHMS(a)
        d2 == computeYMDHMS(b)
        later == d1.iJD >= d2.iJD
        sg == IF later THEN 1 ELSE -1
        m0 == sg * (d1.M - d2.M)
        y == yearsApart(d1, d2, sg)
        m == IF m0 < 0 THEN m0 + 12 ELSE m0
        same == IF d1.Y = d2.Y /\ m0 = 0 THEN d2 ELSE recount([d2 EXCEPT !.Y = d1.Y, !.M = d1.M])
        r == stepped(d1, same, y, m, later)
        gap == [clearYMDHMSTZ(d1) EXCEPT !.iJD = sg * (d1.iJD - r.d2.iJD) + 41305428]
        out == computeYMDHMS(gap)
    IN  ymd(sg, r.y, r.m, out.D - 1, out.h)
----------------------------------------------------------------------------
(* The reference: a moment in hours, and the fields it was written in      *)
(* while no modifier has replaced them.  `over` are the days of a month's  *)
(* overflow, `fresh` just found; `null` is for good; `loose` is no claim.  *)

Inside(y) == y \in -4713 .. 9999
At(r) == IF r.w THEN r.f ELSE Fields(r.i)
Fielded(r) == r.w \/ validJulianDay(r.i)
Over(f) == IF f.d > MonthDays(f.y, f.m) THEN f.d - MonthDays(f.y, f.m) ELSE 0
Held(f) == Instant(f.y, f.m, 1, f.h) + 24 * (f.d - 1)
NoFields == [y |-> 2000, m |-> 1, d |-> 1, h |-> 0]

Moment(i) == [i |-> i, w |-> FALSE, f |-> NoFields, over |-> 0, fresh |-> TRUE, null |-> FALSE,
              loose |-> FALSE, utc |-> FALSE, local |-> FALSE, num |-> FALSE, n |-> 0]

RefOf(v) ==
    LET f == CASE v.k = "ymd" -> [y |-> v.y, m |-> v.m, d |-> v.d, h |-> IF v.h = -1 THEN 0 ELSE v.h]
               [] OTHER -> [NoFields EXCEPT !.h = v.h]
    IN  IF v.k = "num" THEN [Moment(24 * (IF v.y \in 0 .. 5373484 THEN v.y ELSE 0)) EXCEPT
                                !.num = TRUE, !.n = v.y, !.null = v.y \notin 0 .. 5373484]
        ELSE [Moment(Held(f) - v.tz) EXCEPT !.w = v.tz = 0, !.f = f, !.over = Over(f), !.utc = v.tz # 0,
                                            !.null = ~Inside(f.y)]

RefMonths(r, months, years, hours) ==
    LET f == At(r)
        k == 12 * (f.y + years) + f.m - 1 + months
        g == [f EXCEPT !.y = k \div 12, !.m = (k % 12) + 1]
    IN  IF ~Fielded(r) \/ ~Inside(g.y) THEN [r EXCEPT !.null = TRUE]
        ELSE [r EXCEPT !.i = Held(g) + hours, !.w = FALSE, !.over = Over(g), !.fresh = TRUE]

RefMod(r0, m) ==
    LET r == [r0 EXCEPT !.num = FALSE]
        stale == [r EXCEPT !.w = FALSE, !.fresh = FALSE]
        f == At(r)
    IN  CASE m.k = "unit" ->
                CASE m.u = "month" -> RefMonths(r, m.n, 0, 0)
                  [] m.u = "year" -> RefMonths(r, 0, m.n, 0)
                  [] OTHER -> [r EXCEPT !.i = @ + (IF m.u = "day" THEN 24 ELSE 1) * m.n, !.w = FALSE,
                                        !.over = 0, !.fresh = TRUE]
          [] m.k = "ymd" -> RefMonths(r, m.sg * m.mo, m.sg * m.y, m.sg * (24 * m.d + m.h))
          [] m.k = "start" ->
                LET g == CASE m.u = "year" -> [f EXCEPT !.m = 1, !.d = 1, !.h = 0]
                           [] m.u = "month" -> [f EXCEPT !.d = 1, !.h = 0]
                           [] OTHER -> [f EXCEPT !.h = 0]
                IN  IF Fielded(r) THEN [stale EXCEPT !.i = Held(g), !.w = TRUE, !.f = g]
                    ELSE [r EXCEPT !.null = TRUE]
          [] m.k = "weekday" ->
                LET k == CHOOSE d \in 0 .. 6 : (((r.i + 12) \div 24) + d + 1) % 7 = m.n
                IN  IF Fielded(r) THEN [stale EXCEPT !.i = @ + 24 * k] ELSE [r EXCEPT !.null = TRUE]
          [] m.k = "floor" -> [stale EXCEPT !.i = @ - 24 * r.over, !.loose = @ \/ ~r.fresh]
          [] m.k = "ceiling" -> [r EXCEPT !.w = FALSE, !.over = 0, !.fresh = TRUE]
          [] m.k = "unixepoch" -> Moment(r.n + UnixEpoch)
          [] m.k = "auto" -> IF r0.num /\ r0.null /\ r.n \in -UnixEpoch .. 70389527 THEN Moment(r.n + UnixEpoch) ELSE r
          [] m.k = "julianday" -> r
          [] m.k = "localtime" ->
                LET g == Fields(r.i + Offset(r.i))
                IN  IF r.local /\ ~r.null THEN r
                    ELSE [r EXCEPT !.i = Held(g), !.w = TRUE, !.f = g, !.fresh = FALSE, !.utc = FALSE,
                                   !.local = TRUE, !.loose = @ \/ r.null \/ r.i < 0 \/ ~validJulianDay(r.i + 2)]
          [] OTHER ->
                LET from == {u \in r.i - 2 .. r.i - 1 : u + Offset(u) = r.i}
                IN  IF r.utc /\ ~r.null THEN r
                    ELSE [Moment(IF from = {} THEN 0 ELSE CHOOSE u \in from : TRUE) EXCEPT
                             !.utc = TRUE, !.loose = r.loose \/ r.null \/ Cardinality(from) # 1 \/ ~validJulianDay(r.i + 2)
                                         \/ r.i < 2]

----------------------------------------------------------------------------
\* isDate: the modifiers in turn, each applied to what the one before left; a refused one makes the
\* result NULL.  With it the moment it should be.
isDate(v, ms) ==
    LET upTo[k \in 0 .. Len(ms)] ==
            IF k = 0 THEN [p |-> parseDateOrTime(v), ok |-> TRUE, ref |-> RefOf(v)]
            ELSE LET s == upTo[k - 1]
                     q == parseModifier(s.p, ms[k], k = 1)
                 IN  IF ~s.ok THEN s
                     ELSE [p |-> q.p, ok |-> q.ok, ref |-> IF q.ok THEN RefMod(s.ref, ms[k]) ELSE s.ref]
    IN  upTo[Len(ms)]

\* A lone argument's fields are computed afresh when its day may run past the month.
lone(v) == LET j == computeJD(parseDateOrTime(v))
           IN  IF j.validYMD /\ j.D > 28 THEN [j EXCEPT !.validYMD = FALSE] ELSE j

Init == args = <<>> /\ mods = <<>>

Value(v) == args = <<>> /\ args' = <<v>> /\ UNCHANGED mods
Modify(m) == Len(args) = 1 /\ Len(mods) < MaxMods /\ mods' = Append(mods, m) /\ UNCHANGED args
Difference(a, b) == args = <<>> /\ args' = <<a, b>> /\ UNCHANGED mods

Next == \/ \E v \in TimeValues : Value(v)
        \/ \E m \in Modifiers : Modify(m)
        \/ \E ab \in Pairs : Difference(ab[1], ab[2])

Spec == Init /\ [][Next]_vars

----------------------------------------------------------------------------
\* Whatever modifiers follow one another, the dateTime denotes the moment they call for on a calendar
\* counted day by day, and is NULL just where that leaves the calendar (parseModifier, computeJD,
\* computeYMD).  No claim is made for a floor long after its month, nor for local times after a NULL,
\* repeated or skipped by the zone, or within two hours of the calendar's ends.
ExactMoment(s) ==
    ~s.ref.loose =>
        /\ isNull(s.p) <=> s.ref.null \/ ~validJulianDay(s.ref.i)
        /\ ~isNull(s.p) => computeJD(s.p).iJD = s.ref.i

\* The forms that are current agree with one another: a date and time read from them is the same
\* whichever of them the next function uses.
FormsAgree(p) ==
    p.validJD /\ p.validYMD /\ validJulianDay(p.iJD) =>
        /\ p.validHMS => Held([y |-> p.Y, m |-> p.M, d |-> p.D, h |-> p.h]) = p.iJD
        /\ ~p.validHMS => Held([y |-> p.Y, m |-> p.M, d |-> p.D, h |-> (p.iJD + 12) % 24]) = p.iJD

\* isDate's end, and the date and time the functions read: only a lone value is normalised.
Shown(p, alone) ==
    computeYMDHMS(IF alone /\ p.validYMD /\ p.D > 28 THEN [computeJD(p) EXCEPT !.validYMD = FALSE] ELSE computeJD(p))

\* strftime's weeks: %V and %G number the Monday weeks from the one with the year's fourth of January,
\* %U and %W the Sundays and Mondays there have been in the year.
WeeksAreRight(p, alone) ==
    ~isNull(p) =>
        LET q == Shown(p, alone)
            n == DayNo(q.Y, q.M, q.D)
            g == isoThursday(q).Y
            monday(k) == k - (k % 7)                        \* of the week of day k
            count(first) == Cardinality({k \in DayNo(q.Y, 1, 1) .. n : k % 7 = first})
        IN  Inside(q.Y - 1) /\ Inside(q.Y + 1) =>
            /\ monday(DayNo(g, 1, 4)) + 7 * (weekV(q) - 1) = monday(n)
            /\ monday(n) < monday(DayNo(g + 1, 1, 4))
            /\ weekW(q) = count(0) /\ weekU(q) = count(6)

\* timediff(A, B) is what takes B to A: the modifier it spells, applied to B, gives A.
DifferenceReaches(a, b) ==
    ~isNull(a) /\ ~isNull(b) => computeJD(ymdModifier(b, timediff(a, b))).iJD = computeJD(a).iJD

\* What a call gives, whichever it is.
MomentsAreRight ==
    /\ Len(args) = 1 =>
          LET s == isDate(args[1], mods)
          IN  s.ok => ExactMoment(s) /\ FormsAgree(s.p) /\ WeeksAreRight(s.p, mods = <<>>)
    /\ Len(args) = 2 => DifferenceReaches(lone(args[1]), lone(args[2]))

-----------------------------------------------------------------------------
\* Dates at the ends of months, years and the calendar, and every kind of
\* modifier.

Dates == {written(2023, 1, 31, -1, 0), written(2024, 2, 29, 10, 0), written(2023, 2, 31, -1, 0),
          written(1999, 12, 31, 23, 0), written(2023, 12, 31, 22, -5), written(9999, 12, 31, 23, 0),
          written(-4713, 11, 24, 12, 0), written(2023, 3, 31, 23, 0), written(2023, 9, 30, 23, 0),
          written(1900, 3, 1, 0, 2), written(2005, 1, 1, 0, 0), written(-5000, 1, 1, -1, 0)}
Numbers == {bare(0), bare(2460000), bare(5373484), bare(6000000), bare(-100), bare(90000000)}
MCTimeValues == Dates \cup Numbers \cup {timeOnly(10)}
MCModifiers ==
    {unit("month", n) : n \in {1, -1, 13, -14}} \cup {unit("year", n) : n \in {1, -4, 8000}}
    \cup {unit("day", n) : n \in {1, -1, 31}} \cup {unit("hour", n) : n \in {25, -1}}
    \cup {ymd(1, 0, 1, 1, 5), ymd(-1, 1, 11, 30, 23)} \cup {start(u) : u \in {"day", "month", "year"}}
    \cup {onWeekday(0), onWeekday(3)}
    \cup {plain(k) : k \in {"floor", "ceiling", "auto", "julianday", "unixepoch", "localtime", "utc"}}

Ends == {written(y, m, d, h, 0) : y \in {2023, 2024}, m \in {1, 2, 3, 12}, d \in {1, 28, 30, 31}, h \in {0, 23}}
MCPairs == Ends \X (Ends \cup {written(1999, 2, 29, 5, 0), written(-100, 12, 31, 1, 0)})
=============================================================================
