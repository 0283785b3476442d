----------------------------- MODULE Recurrence -----------------------------
(***************************************************************************)
(* The recurrence arithmetic of internal/model/recurrence.go: the next     *)
(* occurrence on or after an instant, the next one strictly after it, and  *)
(* the latest one on or before it, for the cadences interval, daily,       *)
(* weekly and monthly.                                                     *)
(*                                                                         *)
(* An instant is an integer number of units.  A second is SecondLength     *)
(* units and a day DayLength units, so that the truncation of an instant   *)
(* to whole seconds (time.Date is called with nsec = 0) is visible.  The   *)
(* calendar has weeks of seven days and months that are alternately        *)
(* LongMonth and ShortMonth days long: the code only asks a month for its  *)
(* first day, its length and its neighbours.  A time zone has one period   *)
(* of summer time, [from, until), with offset dst, and offset std outside. *)
(***************************************************************************)
EXTENDS Integers

CONSTANTS
  SecondLength,  \* units in a second
  DayLength,     \* units in a day, a whole number of seconds
  LongMonth,     \* days in an even-numbered month
  ShortMonth,    \* days in an odd-numbered month
  Zones,         \* time zone name -> [std, dst, from, until]
  Nil,           \* the nil pointer
  Invalid        \* a CommandError of kind validation in place of a time

Zone == [std : Int, dst : Int, from : Int, until : Int]

ASSUME CalendarAssumption ==
  /\ SecondLength \in Nat \ {0}
  /\ DayLength \in Nat \ {0}
  /\ LongMonth \in Nat \ {0}
  /\ ShortMonth \in Nat \ {0}
  /\ "UTC" \in DOMAIN Zones /\ Zones["UTC"].std = 0 /\ Zones["UTC"].dst = 0
  /\ \A tz \in DOMAIN Zones : Zones[tz] \in Zone

ASSUME SentinelAssumption == Nil \notin Int /\ Invalid \notin Int /\ Nil # Invalid

----------------------------------------------------------------------------
(* The parts of Go's time package that the code relies on.                  *)

\* Location.lookup: the offset in force at instant t.
Offset(z, t) == IF z.from <= t /\ t < z.until THEN z.dst ELSE z.std

\* Time.In(loc): the wall clock reading at instant t.
LocalOf(z, t) == t + Offset(z, t)

\* Calendar day and time of day of a wall clock reading.
DayOf(wall) == wall \div DayLength
TimeOfDay(wall) == wall % DayLength

\* time.Date(..., loc): the instant at which the wall clock shows the time
\* of day on the given day.  The offset is first looked up as if the wall
\* clock were UTC and then corrected once.
Date(z, day, clock) ==
  LET wall == day * DayLength + clock
      guess == Offset(z, wall)
  IN  IF guess = 0 THEN wall ELSE wall - Offset(z, wall - guess)

\* Time.AddDate(0, 0, n): the same wall clock reading n days later.
AddDays(z, t, n) ==
  LET wall == LocalOf(z, t) IN Date(z, DayOf(wall) + n, TimeOfDay(wall))

Weekday(day) == day % 7

\* First day and length of month m, and the month a day lies in.
MonthStart(m) == (m \div 2) * (LongMonth + ShortMonth) + (m % 2) * LongMonth
LastDay(m) == MonthStart(m + 1) - MonthStart(m)
MonthOf(day) ==
  LET pair == LongMonth + ShortMonth
  IN  2 * (day \div pair) + (IF day % pair < LongMonth THEN 0 ELSE 1)

----------------------------------------------------------------------------
(* Helpers shared by the cadences.                                          *)

\* The hour, minute and second of firstRunAt in the zone; what is below a
\* second is dropped.
SlotClock(z, firstRunAt) ==
  LET clock == TimeOfDay(LocalOf(z, firstRunAt))
  IN  clock - (clock % SecondLength)

\* The candidate built for the day of `from`, moved by `shift` days.
DaySlot(z, firstRunAt, from, shift) ==
  Date(z, DayOf(LocalOf(z, from)) + shift, SlotClock(z, firstRunAt))

\* The candidate built for month m, its day clamped to the month's last.
MonthSlot(z, firstRunAt, dayOfMonth, m) ==
  LET actualDay == IF dayOfMonth < LastDay(m) THEN dayOfMonth ELSE LastDay(m)
  IN  Date(z, MonthStart(m) + actualDay - 1, SlotClock(z, firstRunAt))

\* Days from the weekday of `from` forward to the weekday of firstRunAt.
DaysUntilTarget(z, firstRunAt, from) ==
  (Weekday(DayOf(LocalOf(z, firstRunAt))) - Weekday(DayOf(LocalOf(z, from))) + 7) % 7

\* Seeded fault: the difference is taken the wrong way round.
DaysBackToTarget_Swapped(z, firstRunAt, from) == DaysUntilTarget(z, firstRunAt, from)

\* ... and back to it.
DaysBackToTarget(z, firstRunAt, from) ==
  (Weekday(DayOf(LocalOf(z, from))) - Weekday(DayOf(LocalOf(z, firstRunAt))) + 7) % 7

\* math.Floor of a quotient, and with it math.Ceil: the ceiling of a / b is
\* - Floor(-a, b).  The code divides in float64; the rounding is left out.
\* A divisor of 0 gives an infinity or NaN, and the offset it is turned into,
\* a whole number times 0 seconds, is 0.
Floor(a, b) == IF b > 0 THEN a \div b ELSE (- a) \div (- b)

\* The loops over months give up after this many.
MonthsSearched == 120

\* The iteration at which a loop over months stops, given the iterations
\* at which its test succeeds.
FirstHit(hits) == CHOOSE i \in hits : \A j \in hits : i <= j

----------------------------------------------------------------------------
(* Next occurrence on or after `from`.                                      *)

computeIntervalOnOrAfter(firstRunAt, seconds, from) ==
  LET period == seconds * SecondLength
  IN  IF from <= firstRunAt \/ period = 0 THEN firstRunAt
      ELSE firstRunAt - period * Floor(firstRunAt - from, period)

\* Seeded fault: a slot at `from` itself is passed over.
computeDailyOnOrAfter_Strict(firstRunAt, from, z) ==
  LET candidate == DaySlot(z, firstRunAt, from, 0)
  IN  IF from < firstRunAt THEN firstRunAt
      ELSE IF candidate <= from THEN AddDays(z, candidate, 1) ELSE candidate

computeDailyOnOrAfter(firstRunAt, from, z) ==
  LET candidate == DaySlot(z, firstRunAt, from, 0)
  IN  IF from < firstRunAt THEN firstRunAt
      ELSE IF candidate < from THEN AddDays(z, candidate, 1) ELSE candidate

computeWeeklyOnOrAfter(firstRunAt, from, z) ==
  LET candidate == DaySlot(z, firstRunAt, from, DaysUntilTarget(z, firstRunAt, from))
  IN  IF from < firstRunAt THEN firstRunAt
      ELSE IF candidate < from THEN AddDays(z, candidate, 7) ELSE candidate

computeMonthlyOnOrAfter(firstRunAt, dayOfMonth, from, z) ==
  LET month == MonthOf(DayOf(LocalOf(z, from)))
      Slot(i) == MonthSlot(z, firstRunAt, dayOfMonth, month + i)
      hits == {i \in 0..(MonthsSearched - 1) : ~ (Slot(i) < from)}
  IN  IF from < firstRunAt THEN firstRunAt
      ELSE IF hits = {} THEN Invalid ELSE Slot(FirstHit(hits))

(* Next occurrence strictly after `from`.                                   *)

computeIntervalAfter(firstRunAt, seconds, from) ==
  LET period == seconds * SecondLength
  IN  IF from < firstRunAt \/ period = 0 THEN firstRunAt
      ELSE firstRunAt + period * (Floor(from - firstRunAt, period) + 1)

computeDailyAfter(firstRunAt, from, z) ==
  LET candidate == DaySlot(z, firstRunAt, from, 0)
  IN  IF from < firstRunAt THEN firstRunAt
      ELSE IF candidate > from THEN candidate ELSE AddDays(z, candidate, 1)

\* Unlike its two siblings it starts from the weekday of `from`, not from
\* the weekday of firstRunAt.
computeWeeklyAfter(firstRunAt, from, z) ==
  LET candidate == DaySlot(z, firstRunAt, from, 0)
  IN  IF from < firstRunAt THEN firstRunAt
      ELSE IF candidate > from THEN candidate ELSE AddDays(z, candidate, 7)

\* Seeded fault: the search starts with the month after that of `from`.
computeMonthlyAfter_NextMonth(firstRunAt, dayOfMonth, from, z) ==
  LET month == MonthOf(DayOf(LocalOf(z, from)))
  IN  IF from < firstRunAt THEN firstRunAt
      ELSE MonthSlot(z, firstRunAt, dayOfMonth, month + 1)

computeMonthlyAfter(firstRunAt, dayOfMonth, from, z) ==
  LET month == MonthOf(DayOf(LocalOf(z, from)))
      Slot(i) == MonthSlot(z, firstRunAt, dayOfMonth, month + i)
      hits == {i \in 0..(MonthsSearched - 1) : Slot(i) > from}
  IN  IF from < firstRunAt THEN firstRunAt
      ELSE IF hits = {} THEN Invalid ELSE Slot(FirstHit(hits))

(* Latest occurrence on or before `from`; nil before the first run.         *)

computeIntervalLatestOnOrBefore(firstRunAt, seconds, from) ==
  LET period == seconds * SecondLength
  IN  IF from < firstRunAt THEN Nil
      ELSE IF period = 0 THEN firstRunAt
      ELSE firstRunAt + period * Floor(from - firstRunAt, period)

computeDailyLatestOnOrBefore(firstRunAt, from, z) ==
  LET candidate == DaySlot(z, firstRunAt, from, 0)
  IN  IF from < firstRunAt THEN Nil
      ELSE IF candidate > from THEN AddDays(z, candidate, -1) ELSE candidate

computeWeeklyLatestOnOrBefore(firstRunAt, from, z) ==
  LET candidate == DaySlot(z, firstRunAt, from, - DaysBackToTarget(z, firstRunAt, from))
  IN  IF from < firstRunAt THEN Nil
      ELSE IF candidate > from THEN AddDays(z, candidate, -7) ELSE candidate

computeMonthlyLatestOnOrBefore(firstRunAt, dayOfMonth, from, z) ==
  LET month == MonthOf(DayOf(LocalOf(z, from)))
      Slot(i) == MonthSlot(z, firstRunAt, dayOfMonth, month - i)
      hits == {i \in 0..(MonthsSearched - 1) : ~ (Slot(i) > from)}
  IN  IF from < firstRunAt THEN Nil
      ELSE IF hits = {} THEN Invalid ELSE Slot(FirstHit(hits))

----------------------------------------------------------------------------
(* The entry points: reject a missing recurrence, the zone "Local", a zone  *)
(* that does not load and an unknown cadence; otherwise dispatch.  `every`  *)
(* holds Recurrence.Seconds of an interval and Recurrence.DayOfMonth of a   *)
(* monthly cadence.  No code checks them: 0 and negative numbers are what   *)
(* the functions above compute with.  A nil pointer, which ends the process *)
(* where it is dereferenced, is left out.                                   *)

Cadences == {"interval", "daily", "weekly", "monthly"}

Recurrences == [cadence : STRING, every : Int]

\* resolveTimezone together with the nil check that precedes it and the
\* default branch of the switch that follows it.
Computable(recurrence, timezone) ==
  /\ recurrence # Nil
  /\ timezone # "Local"
  /\ timezone \in DOMAIN Zones
  /\ recurrence.cadence \in Cadences

ComputeNextRunOnOrAfter(recurrence, timezone, firstRunAt, from) ==
  LET z == Zones[timezone]
  IN  CASE ~ Computable(recurrence, timezone) -> Invalid
        [] OTHER ->
           CASE recurrence.cadence = "interval" ->
                  computeIntervalOnOrAfter(firstRunAt, recurrence.every, from)
             [] recurrence.cadence = "daily" -> computeDailyOnOrAfter(firstRunAt, from, z)
             [] recurrence.cadence = "weekly" -> computeWeeklyOnOrAfter(firstRunAt, from, z)
             [] recurrence.cadence = "monthly" ->
                  computeMonthlyOnOrAfter(firstRunAt, recurrence.every, from, z)

ComputeNextRunAfter(recurrence, timezone, firstRunAt, from) ==
  LET z == Zones[timezone]
  IN  CASE ~ Computable(recurrence, timezone) -> Invalid
        [] OTHER ->
           CASE recurrence.cadence = "interval" ->
                  computeIntervalAfter(firstRunAt, recurrence.every, from)
             [] recurrence.cadence = "daily" -> computeDailyAfter(firstRunAt, from, z)
             [] recurrence.cadence = "weekly" -> computeWeeklyAfter(firstRunAt, from, z)
             [] recurrence.cadence = "monthly" ->
                  computeMonthlyAfter(firstRunAt, recurrence.every, from, z)

ComputeLatestRunOnOrBefore(recurrence, timezone, firstRunAt, from) ==
  LET z == Zones[timezone]
  IN  CASE ~ Computable(recurrence, timezone) -> Invalid
        [] OTHER ->
           CASE recurrence.cadence = "interval" ->
                  computeIntervalLatestOnOrBefore(firstRunAt, recurrence.every, from)
             [] recurrence.cadence = "daily" -> computeDailyLatestOnOrBefore(firstRunAt, from, z)
             [] recurrence.cadence = "weekly" -> computeWeeklyLatestOnOrBefore(firstRunAt, from, z)
             [] recurrence.cadence = "monthly" ->
                  computeMonthlyLatestOnOrBefore(firstRunAt, recurrence.every, from, z)
=============================================================================
