---------------------------- MODULE CronSchedule ----------------------------
(***************************************************************************)
(* cron_schedule.go: a five-field expression becomes five sets of values,  *)
(* and the next and the previous run are found by walking minute by minute *)
(* from the current one, at most cronSearchCap steps.                      *)
(*                                                                         *)
(* The calendar is a parameter, so that TLC can walk through whole years   *)
(* of a short one.  A minute is a number counted from some midnight; the   *)
(* time is counted in half minutes, the period of the telemetry ticker.    *)
(***************************************************************************)
EXTENDS Integers, FiniteSets

CONSTANTS MinutesPerHour, HoursPerDay, DaysPerMonth, MonthsPerYear,
          DaysPerWeek,
          cronSearchCap,  \* minutes the search goes
          NoTime          \* Go's zero time

ASSUME CalendarAssumption ==
  /\ MinutesPerHour \in Nat \ {0} /\ HoursPerDay \in Nat \ {0}
  /\ DaysPerMonth \in Nat \ {0} /\ MonthsPerYear \in Nat \ {0}
  /\ DaysPerWeek \in Nat \ {0} /\ cronSearchCap \in Nat
  /\ NoTime \notin Int

Day(m)     == m \div (MinutesPerHour * HoursPerDay)
Minute(m)  == m % MinutesPerHour
Hour(m)    == (m \div MinutesPerHour) % HoursPerDay
DomOf(m)   == 1 + (Day(m) % DaysPerMonth)
MonthOf(m) == 1 + ((Day(m) \div DaysPerMonth) % MonthsPerYear)
Weekday(m) == Day(m) % DaysPerWeek

\* An element of a field: "*", "*/n", "lo-hi", "lo-hi/n", or "v" as v-v.
\* Bounds are not checked against the field's, exactly as in the code.
parseCronRange(tok, min, max) ==
  LET lo == IF tok.star THEN min ELSE tok.lo
      hi == IF tok.star THEN max ELSE tok.hi
  IN  {v \in lo..hi : (v - lo) % tok.step = 0}

\* A field is the single "*", which is unrestricted, or a list of elements.
parseCronField(field, min, max) ==
  [isAll  |-> field.star,
   values |-> IF field.star THEN {}
              ELSE UNION {parseCronRange(t, min, max) : t \in field.toks}]

Contains(f, v) == f.isAll \/ v \in f.values

parseCronSchedule(e) ==
  [minute |-> parseCronField(e[1], 0, MinutesPerHour - 1),
   hour   |-> parseCronField(e[2], 0, HoursPerDay - 1),
   dom    |-> parseCronField(e[3], 1, DaysPerMonth),
   month  |-> parseCronField(e[4], 1, MonthsPerYear),
   dow    |-> parseCronField(e[5], 0, DaysPerWeek - 1)]

\* A step of 0 and a field without values are errors.
Parses(e) ==
  /\ \A i \in 1..5 : \A t \in e[i].toks : t.step > 0
  /\ LET s == parseCronSchedule(e) IN
     \A f \in {"minute", "hour", "dom", "month", "dow"} :
       s[f].isAll \/ s[f].values # {}

\* The rule read as "both must match".
dayMatchesBoth(s, m) == Contains(s.dom, DomOf(m)) /\ Contains(s.dow, Weekday(m))

dayMatches(s, m) ==
  LET dom == Contains(s.dom, DomOf(m))
      dow == Contains(s.dow, Weekday(m))
  IN  IF ~s.dom.isAll /\ ~s.dow.isAll THEN dom \/ dow
      ELSE IF ~s.dom.isAll THEN dom
      ELSE IF ~s.dow.isAll THEN dow
      ELSE TRUE

matches(s, m) ==
  /\ Contains(s.minute, Minute(m))
  /\ Contains(s.hour, Hour(m))
  /\ Contains(s.month, MonthOf(m))
  /\ dayMatches(s, m)

\* The minute a moment lies in (Truncate).
Truncate(t) == t \div 2

next(s, after) ==
  LET start == Truncate(after) + 1
      walk[i \in 0..cronSearchCap] ==
        IF i = cronSearchCap THEN NoTime
        ELSE IF matches(s, start + i) THEN start + i ELSE walk[i + 1]
  IN  walk[0]

prev(s, before) ==
  LET start == Truncate(before) - 1
      walk[i \in 0..cronSearchCap] ==
        IF i = cronSearchCap THEN NoTime
        ELSE IF matches(s, start - i) THEN start - i ELSE walk[i + 1]
  IN  walk[0]
=============================================================================
