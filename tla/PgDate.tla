------------------------------- MODULE PgDate -------------------------------
(* Postgres's dates and times (pkg/sqlfn/pg_datetime.go, pg_datetime_funcs.go): the calendar,   *)
(* wall times in a zone that changes its offset, date_trunc and date_part, and intervals.  Time *)
(* is counted in half hours from 2000-01-01 00:00; seconds and fractions are left out.          *)
EXTENDS Integers, Sequences, SequencesExt, FiniteSetsExt

CONSTANTS Cases,         \* where the clock starts, how far it runs, in which zone; an interval
          EndTimestamp   \* the bound that stands for pgEndTimestamp

VARIABLES t, left, zone, iv
vars == <<t, left, zone, iv>>

Day == 48
Hour == 2
MaxOffset == 15 * Hour
Epoch == 2451545
MinTimestamp == -Epoch * Day
OutOfRange == MinTimestamp - 1        \* no value: the code returns an error
Quo(a, b) == IF a >= 0 THEN a \div b ELSE -((-a) \div b)
Rem(a, b) == a - b * Quo(a, b)

-----------------------------------------------------------------------------
(* The calendar. *)
pgIsLeap(y) == y % 4 = 0 /\ (y % 100 # 0 \/ y % 400 = 0)
pgDayTab(y, m) == CASE m = 2 -> IF pgIsLeap(y) THEN 29 ELSE 28 [] m \in {4, 6, 9, 11} -> 30 [] OTHER -> 31
IsValidJulian(y, m) == y > -4713 \/ (y = -4713 /\ m >= 11)
IsValidTimestamp(x) == MinTimestamp <= x /\ x < EndTimestamp

date2j(y, m, d) ==
  LET mm == IF m > 2 THEN m + 1 ELSE m + 13
      yy == IF m > 2 THEN y + 4800 ELSE y + 4799
      century == Quo(yy, 100)
  IN yy * 365 - 32167 + Quo(yy, 4) - century + Quo(century, 4) + Quo(7834 * mm, 256) + d

\* The day counted from a March, within the four years left4 counts.
InFourYears(left4) == IF (left4 * 4) \div 1461 # 0 THEN ((left4 + 305) % 365) + 123 ELSE ((left4 + 306) % 366) + 123
j2date(jd) ==
  LET a == jd + 32044
      extra == (a - (a \div 146097) * 146097) * 4 + 3
      b == a + 60 + (a \div 146097) * 3 + extra \div 146097
      left4 == b - (b \div 1461) * 1461
      day == InFourYears(left4)
      q == (day * 2141) \div 65536
  IN [year |-> (left4 * 4) \div 1461 + (b \div 1461) * 4 - 4800,
      mon |-> ((q + 10) % 12) + 1, mday |-> day - (7834 * q) \div 256]
j2day(jd) == (jd + 1) % 7

\* A wall time: date, hour and half hour.
dt2time(x) == [hour |-> x \div Hour, half |-> x % Hour]
timestamp2tm(x) == LET d == j2date(x \div Day + Epoch)  h == dt2time(x % Day) IN
  [year |-> d.year, mon |-> d.mon, mday |-> d.mday, hour |-> h.hour, half |-> h.half]
Jd(tm) == date2j(tm.year, tm.mon, tm.mday)
time2t(hour, half) == hour * Hour + half
Ticks(tm) == (Jd(tm) - Epoch) * Day + time2t(tm.hour, tm.half)
\* tz is the offset west.
tm2timestamp(tm, tz) ==
  IF ~IsValidJulian(tm.year, tm.mon) THEN OutOfRange
  ELSE LET x == Ticks(tm) + tz IN IF IsValidTimestamp(x) THEN x ELSE OutOfRange

-----------------------------------------------------------------------------
(* ISO weeks. *)
Week1(y) == LET day4 == date2j(y, 1, 4) IN day4 - j2day(day4 - 1)
isoweek2j(y, w) == (w - 1) * 7 + Week1(y)
WeekFrom(n, y) == (n - Week1(y)) \div 7 + 1
date2isoweek(tm) ==
  LET n == Jd(tm)
      w == IF n < Week1(tm.year) THEN WeekFrom(n, tm.year - 1) ELSE WeekFrom(n, tm.year)
  IN IF w >= 52 /\ n >= Week1(tm.year + 1) THEN WeekFrom(n, tm.year + 1) ELSE w
date2isoyear(tm) ==
  LET n == Jd(tm)
      y == IF n < Week1(tm.year) THEN tm.year - 1 ELSE tm.year
  IN IF WeekFrom(n, y) >= 52 /\ n >= Week1(y + 1) THEN y + 1 ELSE y

-----------------------------------------------------------------------------
(* Zones.  A zone's offsets (east), the instants they change and their abbreviations; what the  *)
(* time package says of it. *)
Period(z, x) == 1 + Cardinality({n \in DOMAIN z.at : z.at[n] <= x})
Off(z, x) == z.off[Period(z, x)]
localTime(z, x) == timestamp2tm(x + Off(z, x))

Prefer(before, after, boundary, x) ==
  CASE x - before < boundary /\ x - after < boundary -> before
    [] x - before > boundary /\ x - after >= boundary -> after
    [] OTHER -> IF x - before > x - after THEN before ELSE after
OffsetOf(x, z) ==
  LET p == Period(z, x - Day) IN
  IF p > Len(z.at) THEN z.off[p] ELSE Prefer(z.off[p], z.off[p + 1], z.at[p], x)
determineTimeZoneOffset(tm, z) == IF IsValidJulian(tm.year, tm.mon) THEN -OffsetOf(Ticks(tm), z) ELSE 0

interpretAbbrev(z, a, x) ==
  LET S == {n \in DOMAIN z.abbr : z.abbr[n] = a}  E == {n \in S : n <= Period(z, x)} IN
  CASE E # {} -> z.off[Max(E)] [] E = {} /\ S # {} -> z.off[Min(S)] [] OTHER -> OutOfRange
determineTimeZoneAbbrevOffset(tm, a, z) ==
  LET o == determineTimeZoneOffset(tm, z)
      g == interpretAbbrev(z, a, Ticks(tm) + o)
  IN IF g = OutOfRange THEN o ELSE -g

-----------------------------------------------------------------------------
(* date_trunc: from a unit, every finer one in turn. *)
Steps == <<"millennium", "century", "decade", "year", "quarter", "month", "day", "hour">>
StepsFrom(u) == SubSeq(Steps, CHOOSE n \in DOMAIN Steps : Steps[n] = u, Len(Steps))
FirstYear(y, n) == IF y > 0 THEN ((y + n - 1) \div n) * n - (n - 1) ELSE -((n - 1 - (y - 1)) \div n) * n + 1
Decade(y) == IF y > 0 THEN (y \div 10) * 10 ELSE -((8 - (y - 1)) \div 10) * 10
TruncStep(u, tm, s) ==
  CASE s = "millennium" -> [tm EXCEPT !.year = FirstYear(@, 1000)]
    [] s = "century" -> [tm EXCEPT !.year = FirstYear(@, 100)]
    [] s = "decade" -> IF u \in {"millennium", "century"} THEN tm ELSE [tm EXCEPT !.year = Decade(@)]
    [] s = "year" -> [tm EXCEPT !.mon = 1]
    [] s = "quarter" -> [tm EXCEPT !.mon = 3 * ((@ - 1) \div 3) + 1]
    [] s = "month" -> [tm EXCEPT !.mday = 1]
    [] s = "day" -> [tm EXCEPT !.hour = 0]
    [] s = "hour" -> [tm EXCEPT !.half = 0]
truncWeek(tm) ==
  LET w == date2isoweek(tm)
      y == IF w >= 52 /\ tm.mon = 1 THEN tm.year - 1 ELSE IF w <= 1 /\ tm.mon = 12 THEN tm.year + 1 ELSE tm.year
      d == j2date(isoweek2j(y, w))
  IN [year |-> d.year, mon |-> d.mon, mday |-> d.mday, hour |-> 0, half |-> 0]
truncTm(u, tm) == IF u = "week" THEN truncWeek(tm)
                  ELSE FoldLeft(LAMBDA x, s : TruncStep(u, x, s), tm, StepsFrom(u))
redotz(u) == u # "hour"
Units == ToSet(Steps) \union {"week"}

pgTimestampTrunc(u, x) == tm2timestamp(truncTm(u, timestamp2tm(x)), 0)
Redone(u, tm, z, x) == IF redotz(u) THEN determineTimeZoneOffset(tm, z) ELSE -Off(z, x)
pgTimestamptzTrunc(u, x, z) == LET tm == truncTm(u, localTime(z, x)) IN tm2timestamp(tm, Redone(u, tm, z, x))

-----------------------------------------------------------------------------
(* date_part. *)
NoZero(y) == IF y > 0 THEN y ELSE y - 1
timestampPart(u, x) ==
  LET tm == timestamp2tm(x)  y == tm.year IN
  CASE u = "hour" -> tm.hour
    [] u = "day" -> tm.mday
    [] u = "month" -> tm.mon
    [] u = "quarter" -> (tm.mon - 1) \div 3 + 1
    [] u = "week" -> date2isoweek(tm)
    [] u = "year" -> NoZero(y)
    [] u = "decade" -> IF y >= 0 THEN y \div 10 ELSE -((8 - (y - 1)) \div 10)
    [] u = "century" -> IF y > 0 THEN (y + 99) \div 100 ELSE -((99 - (y - 1)) \div 100)
    [] u = "millennium" -> IF y > 0 THEN (y + 999) \div 1000 ELSE -((999 - (y - 1)) \div 1000)
    [] u = "isoyear" -> NoZero(date2isoyear(tm))
    [] u = "dow" -> j2day(Jd(tm))
    [] u = "doy" -> Jd(tm) - date2j(y, 1, 1) + 1

-----------------------------------------------------------------------------
(* Intervals: months, days and half hours, each with its sign. *)
interval2tm(i) == [year |-> Quo(i.month, 12), mon |-> Rem(i.month, 12), mday |-> i.day,
                   hour |-> Quo(i.time, Hour), half |-> Rem(i.time, Hour)]
tm2interval(tm) == [month |-> tm.year * 12 + tm.mon, day |-> tm.mday, time |-> time2t(tm.hour, tm.half)]
QuarterOf(mon) == 3 * Quo(mon, 3)
IntervalStep(tm, s) ==
  CASE s = "millennium" -> [tm EXCEPT !.year = Quo(@, 1000) * 1000]
    [] s = "century" -> [tm EXCEPT !.year = Quo(@, 100) * 100]
    [] s = "decade" -> [tm EXCEPT !.year = Quo(@, 10) * 10]
    [] s = "year" -> [tm EXCEPT !.mon = 0]
    [] s = "quarter" -> [tm EXCEPT !.mon = QuarterOf(@)]
    [] s = "month" -> [tm EXCEPT !.mday = 0]
    [] s = "day" -> [tm EXCEPT !.hour = 0]
    [] s = "hour" -> [tm EXCEPT !.half = 0]
pgIntervalTrunc(u, i) == tm2interval(FoldLeft(IntervalStep, interval2tm(i), StepsFrom(u)))
intervalPart(u, i) ==
  LET tm == interval2tm(i) IN
  CASE u = "hour" -> tm.hour [] u = "day" -> tm.mday [] u = "month" -> tm.mon
    [] u = "quarter" -> Quo(tm.mon, 3) + 1 [] u = "year" -> tm.year
    [] u = "decade" -> Quo(tm.year, 10) [] u = "century" -> Quo(tm.year, 100) [] u = "millennium" -> Quo(tm.year, 1000)

-----------------------------------------------------------------------------
Init == \E c \in Cases : t = c.t /\ left = c.n /\ zone = c.zone /\ iv = c.iv
Tick == left > 0 /\ left' = left - 1 /\ t' = t + 1 /\ UNCHANGED <<zone, iv>>
Next == Tick
Spec == Init /\ [][Next]_vars

-----------------------------------------------------------------------------
\* What tells one unit from the next, in the parts date_part gives.
Key(u, x) == LET p(v) == timestampPart(v, x) IN
  CASE u \in {"millennium", "century", "decade", "year"} -> <<p(u)>>
    [] u \in {"quarter", "month"} -> <<p("year"), p(u)>>
    [] u = "week" -> <<p("isoyear"), p("week")>>
    [] u = "day" -> <<p("year"), p("month"), p("day")>>
    [] u = "hour" -> <<p("year"), p("doy"), p("hour")>>
Before(a, b) == \E n \in DOMAIN a : a[n] < b[n] /\ \A m \in 1..n - 1 : a[m] = b[m]

\* date_trunc gives the first instant of the unit date_part says the time is in, for every unit
\* on both sides of the year 1; or the unit began before the first timestamp and it fails.
TruncStartsItsPart ==
  \A u \in Units : LET r == pgTimestampTrunc(u, t) IN
    IF r = OutOfRange THEN u # "day" /\ t - MinTimestamp < 1000 * 366 * Day
    ELSE r <= t /\ Key(u, r) = Key(u, t) /\ (r > MinTimestamp => Before(Key(u, r - 1), Key(u, r)))

\* As time passes the parts of every unit go up and never back, a week never being split by a
\* year's end: no two stretches of time have the same parts.
PartsAdvance == \A u \in Units : Key(u, t) = Key(u, t') \/ Before(Key(u, t), Key(u, t'))

\* Each day is followed by the day the calendar has after it, and by the next day of the week.
DaysFollow ==
  LET a == timestamp2tm(t)  b == timestamp2tm(t')
      next == CASE a.mday < pgDayTab(a.year, a.mon) -> <<a.year, a.mon, a.mday + 1>>
                [] a.mday = pgDayTab(a.year, a.mon) /\ a.mon < 12 -> <<a.year, a.mon + 1, 1>>
                [] OTHER -> <<a.year + 1, 1, 1>>
  IN /\ tm2timestamp(b, 0) = t'
     /\ (Jd(b) # Jd(a) => <<b.year, b.mon, b.mday>> = next /\ (j2day(Jd(a)) + 1) % 7 = j2day(Jd(b)))

\* The instants at which clocks show x.
Showing(x, z) == {y \in x - MaxOffset..x + MaxOffset : y + Off(z, y) = x}
\* A wall time names an instant at which clocks show it, the later of two; one the clocks skip is
\* taken by the offset before, and shows as much later as they skipped.
WallNamesInstant ==
  LET r == t + determineTimeZoneOffset(timestamp2tm(t), zone)
      S == Showing(t, zone)
      b == CHOOSE n \in DOMAIN zone.at : r >= zone.at[n] /\ r < zone.at[n] + Day
  IN IF S # {} THEN r = Max(S)
     ELSE r + Off(zone, r) = t + zone.off[b + 1] - zone.off[b] /\ zone.off[b + 1] > zone.off[b]

\* A wall time with its zone's abbreviation names the instant it was written at, even where clocks
\* show it twice, unless both have the same abbreviation.
AbbrevPicks ==
  LET a == zone.abbr[Period(zone, t)]
      w == t + Off(zone, t)
      r == w + determineTimeZoneAbbrevOffset(timestamp2tm(w), a, zone)
  IN r = t \/ (r \in Showing(w, zone) /\ zone.abbr[Period(zone, r)] = a /\ r > t)

\* In a zone, date_trunc gives an instant at which clocks show the start of the unit, if they ever
\* do, and one that is not after the time truncated, if they do once.
ZoneTrunc ==
  \A u \in Units :
    LET w == t + Off(zone, t)
        s == pgTimestampTrunc(u, w)
        r == pgTimestamptzTrunc(u, t, zone)
        S == Showing(s, zone)
    IN IF u = "hour" THEN r = t - (w % Hour)
       ELSE r # OutOfRange => (S # {} => r \in S) /\ (Cardinality(S) = 1 => r <= t)

\* Truncating an interval keeps the parts from its unit up, leaves nothing below, and never makes
\* a field larger or changes its sign.
IntervalTruncKeeps ==
  \A n \in DOMAIN Steps :
    LET r == pgIntervalTrunc(Steps[n], iv)
        small(a, b) == (a >= 0 /\ b \in 0..a) \/ (a < 0 /\ b \in a..0)
    IN /\ \A m \in 1..n : intervalPart(Steps[m], r) = intervalPart(Steps[m], iv)
       /\ \A m \in n..Len(Steps) : pgIntervalTrunc(Steps[m], r) = r
       /\ small(iv.month, r.month) /\ small(iv.day, r.day) /\ small(iv.time, r.time)

-----------------------------------------------------------------------------
\* The ends of years and quarters and of February about each kind of year; zones whose clocks go
\* forward and back, at midnight, before it and after it, once under one abbreviation.

At(y, m, d) == (date2j(y, m, d) - Epoch) * Day
UTC == [off |-> <<0>>, at |-> <<>>, abbr |-> <<"U">>]
NoTime == [month |-> 0, day |-> 0, time |-> 0]
Case(x, n, z, i) == [t |-> x, n |-> n, zone |-> z, iv |-> i]
Years == {-4712, -101, -100, -11, -10, -5, -4, -1, 0, 1, 4, 9, 10, 99, 100, 101, 999, 1000, 1001, 1900, 1999, 2000,
          2004, 2009, 2015}
YearEnds == {Case(At(y, 12, 28), 8 * Day, UTC, NoTime) : y \in Years}
Februaries == {Case(At(y, 2, 27), 3 * Day, UTC, NoTime) : y \in {-100, -4, -1, 0, 1, 4, 1900, 2000, 2003, 2004}}
Quarters == {Case(At(y, m, 30), 2 * Day, UTC, NoTime) : y \in {-4, 0, 1999}, m \in {3, 6, 9}}
First == {Case(MinTimestamp, 10 * Day, UTC, NoTime)}
Mid == At(2001, 4, 1)
Later == At(2001, 10, 1)
Zones == {[off |-> <<o - 3, o, o + 2, o>>, at |-> <<At(1950, 1, 1), Mid - o + b, Later - (o + 2) + c>>, abbr |-> <<"S", "S", d, "S">>] :
            o \in {-20, 11}, b \in {-1, 0, 1, 4}, c \in {0, 1, 4}, d \in {"S", "D"}}
InZones == {Case(x - Day, 2 * Day, z, NoTime) : x \in {Mid, Later}, z \in Zones}
Intervals == {Case(0, 1, UTC, [month |-> m, day |-> d, time |-> h]) :
                m \in {-12011, -1201, -125, -14, -4, -3, -1, 0, 1, 2, 3, 5, 11, 12, 13, 119, 1207, 12005, 24001},
                d \in {-31, 0, 1}, h \in {-3, -1, 0, 1, 49}}
MCCases == YearEnds \union Februaries \union Quarters \union First \union InZones \union Intervals
MCEnd == At(3000, 1, 1)
=============================================================================
