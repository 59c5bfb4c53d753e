------------------------------ MODULE CronExpr ------------------------------
(***************************************************************************)
(* Five-field cron expressions (crates/cron/src/expr.rs, schedule.rs,      *)
(* job.rs): a field is parsed into the set of values it matches, a minute  *)
(* is matched against the five of them, and next_execution looks for the   *)
(* first match within a year. The calendar is a parameter: an instance     *)
(* with two-day months has the same short months and leap years.           *)
(***************************************************************************)
EXTENDS Naturals, Sequences, FiniteSets

CONSTANTS
  MinuteMax, HourMax, DayMax, MonthMax, \* 59, 23, 31, 12 in the code
  WeekdayMax,   \* 7: WeekdayMax and 0 are both Sunday
  U8Max,        \* 255
  Calendar,     \* the days from the epoch on: <<month, day of month>>
  SearchMinutes, \* 366 * 24 * 60 + 10: the minutes next_execution tries
  CronInputs    \* expressions: minute, hour, day, month, weekday fields

(***************************************************************************)
(* A field is a sequence of parts (the comma list). A part is a range, its *)
(* two ends and its step; "*" spans the field and a single value is a      *)
(* range of one. A value is a number, or the name of a month or a weekday. *)
(***************************************************************************)
Star == [kind |-> "star", v |-> 0]
Num(n) == [kind |-> "num", v |-> n]
Month(n) == [kind |-> "month", v |-> n]
Weekday(n) == [kind |-> "weekday", v |-> n]
Part(from, to, step) == [from |-> from, to |-> to, step |-> step]
AnyValue == <<Part(Star, Star, 1)>>              \* a bare "*", an unrestricted field
Every(n) == <<Part(Star, Num(0), n)>>       \* "*/n", restricted even when n is 1
CronFields == {"minute", "hour", "day", "month", "weekday"}
CronValues == {Star} \cup [kind : {"num", "month", "weekday"}, v : 0..U8Max]
CronParts == [from : CronValues, to : CronValues, step : Nat]

\* The clamp of weekdays asks for a field with names and the maximum of weekdays, and
\* takes no month for one.
ASSUME CronAssumption ==
  /\ {MinuteMax, HourMax, DayMax, MonthMax, WeekdayMax, U8Max, SearchMinutes} \subseteq Nat
  /\ \A n \in {MinuteMax, HourMax, DayMax, MonthMax, WeekdayMax} : 0 < n /\ n < U8Max
  /\ MonthMax # WeekdayMax
  /\ Calendar \in Seq((1..MonthMax) \X (1..DayMax)) /\ Calendar # <<>>
  /\ CronInputs \subseteq [CronFields -> Seq(CronParts)]

ParseError == [values |-> {}, star |-> FALSE, ok |-> FALSE]

-----------------------------------------------------------------------------
(* The parser *)

\* A name counts in both named fields, whichever of the two it names, and its
\* value is not compared with the field's range.
parse_value(x, allow_names, min, max) ==
  IF x.kind # "num"
  THEN [ok |-> allow_names, v |-> x.v]
  ELSE [ok |-> min <= x.v /\ x.v <= max, v |-> x.v]

\* The loop of parse_field, with its saturating u8 step; a name of the other kind
\* may reach past max.
Expand(start, end, step, max) ==
  LET saturating_add(a, b) == IF a + b > U8Max THEN U8Max ELSE a + b
      walk[v \in 0..U8Max] ==
        LET next == saturating_add(v, step)
        IN {v} \cup (IF v > max \/ next <= v \/ next > end THEN {} ELSE walk[next])
  IN IF start <= end THEN walk[start] ELSE {}

parse_part(part, min, max, allow_names) ==
  LET s == parse_value(part.from, allow_names, min, max)
      e == parse_value(part.to, allow_names, min, max)
  IN CASE part.step = 0 -> [ok |-> FALSE, values |-> {}]
       [] part.step # 0 /\ part.from = Star -> [ok |-> TRUE, values |-> Expand(min, max, part.step, max)]
       [] part.step # 0 /\ part.from # Star /\ s.ok /\ e.ok ->
            [ok |-> TRUE, values |-> Expand(s.v, e.v, part.step, max)]
       [] OTHER -> [ok |-> FALSE, values |-> {}]

\* Weekday WeekdayMax becomes 0.
ClampWeekday(values) ==
  IF WeekdayMax \in values THEN (values \ {WeekdayMax}) \cup {0} ELSE values

parse_field(field, min, max, allow_names) ==
  LET parsed == [i \in DOMAIN field |-> parse_part(field[i], min, max, allow_names)]
      values == UNION {parsed[i].values : i \in DOMAIN field}
  IN IF \A i \in DOMAIN field : parsed[i].ok
     THEN [ok |-> TRUE, star |-> field = AnyValue,
           values |-> IF allow_names /\ max = WeekdayMax THEN ClampWeekday(values) ELSE values]
     ELSE ParseError

\* CronExpr::parse and CronExpression::compile.
compile(input) ==
  LET expr == [minute  |-> parse_field(input.minute, 0, MinuteMax, FALSE),
               hour    |-> parse_field(input.hour, 0, HourMax, FALSE),
               day     |-> parse_field(input.day, 1, DayMax, FALSE),
               month   |-> parse_field(input.month, 1, MonthMax, TRUE),
               weekday |-> parse_field(input.weekday, 0, WeekdayMax, TRUE)]
  IN [ok |-> \A f \in DOMAIN expr : expr[f].ok, expr |-> expr]

-----------------------------------------------------------------------------
(* Matching a minute *)

MinutesPerDay == (HourMax + 1) * (MinuteMax + 1)
LastMinute == Len(Calendar) * MinutesPerDay - 1
DayOf(t) == t \div MinutesPerDay

\* Mutant: both day fields always have to match.
matchesBoth(expr, t) ==
  LET date == Calendar[DayOf(t) + 1]
  IN /\ t % (MinuteMax + 1) \in expr.minute.values
     /\ (t \div (MinuteMax + 1)) % (HourMax + 1) \in expr.hour.values
     /\ date[1] \in expr.month.values
     /\ date[2] \in expr.day.values
     /\ DayOf(t) % WeekdayMax \in expr.weekday.values

\* CronExpr::matches, with the day-of-month and day-of-week rule.
matches(expr, t) ==
  LET minute == t % (MinuteMax + 1)
      hour == (t \div (MinuteMax + 1)) % (HourMax + 1)
      date == Calendar[DayOf(t) + 1]
      day_matches == date[2] \in expr.day.values
      weekday_matches == DayOf(t) % WeekdayMax \in expr.weekday.values
  IN /\ minute \in expr.minute.values
     /\ hour \in expr.hour.values
     /\ date[1] \in expr.month.values
     /\ IF ~expr.day.star /\ ~expr.weekday.star
        THEN day_matches \/ weekday_matches
        ELSE day_matches /\ weekday_matches

NoNextExecution == LastMinute + 1

\* next_execution: the first match of a year of minutes from the next one on.
next_execution(expr, from) ==
  LET search[t \in Nat] ==
        IF t > from + SearchMinutes \/ t > LastMinute THEN NoNextExecution
        ELSE IF matches(expr, t) THEN t ELSE search[t + 1]
  IN search[from + 1]

-----------------------------------------------------------------------------
(* An expression is compiled, its next fire is shown, and minutes go by *)

VARIABLES
  cronInput, \* the expression
  compiled,  \* "new", "kept" or "refused"
  minuteNow, \* the clock, in minutes
  forecast, askedAt \* the next fire that was shown, and when

cronVars == <<cronInput, compiled, minuteNow, forecast, askedAt>>

CronInit ==
  /\ cronInput \in CronInputs
  /\ compiled = "new"
  /\ minuteNow = 0 /\ forecast = 0 /\ askedAt = 0

\* `validate`: refused at construction, or kept.
CronCompiles ==
  /\ compiled = "new"
  /\ compiled' = IF compile(cronInput).ok THEN "kept" ELSE "refused"
  /\ UNCHANGED <<cronInput, minuteNow, forecast, askedAt>>

\* CronExpression::next_after, asked whenever the last answer has passed.
CronForecasts ==
  /\ compiled = "kept" /\ forecast <= minuteNow
  /\ forecast' = next_execution(compile(cronInput).expr, minuteNow)
  /\ askedAt' = minuteNow
  /\ UNCHANGED <<cronInput, compiled, minuteNow>>

MinutePasses ==
  /\ compiled = "kept" /\ forecast > minuteNow
  /\ minuteNow < LastMinute
  /\ minuteNow' = minuteNow + 1
  /\ UNCHANGED <<cronInput, compiled, forecast, askedAt>>

CronNext == CronCompiles \/ CronForecasts \/ MinutePasses

-----------------------------------------------------------------------------
(* Properties *)

AllParts(input) == [f \in DOMAIN input |-> {input[f][i] : i \in DOMAIN input[f]}]

\* Ranges in order, and names in the field they name.
WellFormed(input) ==
  \A f \in DOMAIN input : \A part \in AllParts(input)[f] :
    /\ part.from.kind \in {"num", "star", f} /\ part.to.kind \in {"num", "star", f}
    /\ part.from = Star \/ part.from.v <= part.to.v

\* An expression whose ranges are in order and whose names are in the field they
\* name fires at exactly the minutes a crontab would: the parser's loop, the
\* weekday clamp and the day rule against the definition by arithmetic
\* (expr.rs:62, expr.rs:140).
MatchesCrontab ==
  LET parts == AllParts(cronInput)
      Wants(f, v, min, max) ==
        \E part \in parts[f] :
          LET lo == IF part.from = Star THEN min ELSE part.from.v
              hi == IF part.from = Star THEN max ELSE part.to.v
          IN lo <= v /\ v <= hi /\ (v - lo) % part.step = 0
      Free(f) == cronInput[f] = AnyValue
      date == Calendar[DayOf(minuteNow) + 1]
      DayFits == Wants("day", date[2], 1, DayMax)
      WeekdayFits == \E v \in 0..WeekdayMax :
        v % WeekdayMax = DayOf(minuteNow) % WeekdayMax /\ Wants("weekday", v, 0, WeekdayMax)
      Fires ==
        /\ Wants("minute", minuteNow % (MinuteMax + 1), 0, MinuteMax)
        /\ Wants("hour", (minuteNow \div (MinuteMax + 1)) % (HourMax + 1), 0, HourMax)
        /\ Wants("month", date[1], 1, MonthMax)
        /\ \/ DayFits /\ WeekdayFits
           \/ ~Free("day") /\ ~Free("weekday") /\ (DayFits \/ WeekdayFits)
  IN compiled = "kept" /\ WellFormed(cronInput) =>
       (matches(compile(cronInput).expr, minuteNow) <=> Fires)

\* The forecast is kept: no minute before it is due, and it is itself due; "no
\* next execution" says that none of the minutes searched is (schedule.rs:17).
ForecastKept ==
  compiled = "kept" /\ forecast > minuteNow =>
    LET expr == compile(cronInput).expr IN
    /\ forecast # NoNextExecution => matches(expr, forecast)
    /\ \A t \in (askedAt + 1)..LastMinute :
         t < forecast /\ t <= askedAt + SearchMinutes => ~matches(expr, t)

\* What is matched is the crontab's minutes, and what is forecast comes true.
CronExact == MatchesCrontab /\ ForecastKept
=============================================================================
