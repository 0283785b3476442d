-------------------------- MODULE RecurrenceProofs --------------------------
(***************************************************************************)
(* Facts about the recurrence arithmetic that hold for every calendar and  *)
(* every time zone.                                                        *)
(***************************************************************************)
EXTENDS Recurrence, WellFoundedInduction, TLAPS

\* A leaf may take the provers half a minute.
USE SMTT(30), ZenonT(30)

\* A loop over months that finds a month stops at one of its iterations, and
\* at the first that satisfies its test.
LEMMA FirstHitIsLeast ==
  ASSUME NEW hits \in SUBSET Nat, hits # {}
  PROVE  FirstHit(hits) \in hits /\ \A j \in hits : FirstHit(hits) <= j
<1>1. PICK i \in hits : \A j \in hits : ~ (<<j, i>> \in OpToRel(<, Nat))
  BY NatLessThanWellFounded, WFMin
<1>2. \A j \in hits : i <= j
  <2> TAKE j \in hits
  <2>1. ~ (<<j, i>> \in {ss \in Nat \X Nat : ss[1] < ss[2]})
    BY <1>1, Zenon DEF OpToRel
  <2> QED
    BY <2>1
<1> QED
  BY <1>2, Zenon DEF FirstHit

\* time.Date and the wall clock readings are total on integers.
LEMMA ClockTypes ==
  ASSUME NEW z \in Zone, NEW t \in Int
  PROVE  /\ LocalOf(z, t) \in Int
         /\ DayOf(LocalOf(z, t)) \in Int
         /\ TimeOfDay(LocalOf(z, t)) \in Int
         /\ SlotClock(z, t) \in Int
<1>1. LocalOf(z, t) \in Int
  BY DEF LocalOf, Offset, Zone
<1>2. DayOf(LocalOf(z, t)) \in Int /\ TimeOfDay(LocalOf(z, t)) \in Int
  BY <1>1, CalendarAssumption DEF DayOf, TimeOfDay
<1>3. SlotClock(z, t) \in Int
  BY <1>2, CalendarAssumption DEF SlotClock
<1> QED
  BY <1>1, <1>2, <1>3

\* time.Date returns an instant.
LEMMA DateType ==
  ASSUME NEW z \in Zone, NEW day \in Int, NEW clock \in Int
  PROVE  Date(z, day, clock) \in Int
BY CalendarAssumption DEF Date, Offset, Zone

\* AddDate returns an instant.
LEMMA AddDaysType ==
  ASSUME NEW z \in Zone, NEW t \in Int, NEW n \in Int
  PROVE  AddDays(z, t, n) \in Int
BY ClockTypes, DateType DEF AddDays

\* A candidate of the daily and weekly cadences is an instant.
LEMMA DaySlotType ==
  ASSUME NEW z \in Zone, NEW first \in Int, NEW from \in Int, NEW shift \in Int
  PROVE  DaySlot(z, first, from, shift) \in Int
BY ClockTypes, DateType DEF DaySlot

\* Months, their first days and their lengths are integers.
LEMMA MonthTypes ==
  /\ \A m \in Int : MonthStart(m) \in Int /\ LastDay(m) \in Int
  /\ \A day \in Int : MonthOf(day) \in Int
<1>1. \A m \in Int : MonthStart(m) \in Int
  BY CalendarAssumption DEF MonthStart
<1>2. \A m \in Int : LastDay(m) \in Int
  BY <1>1 DEF LastDay
<1>3. \A day \in Int : MonthOf(day) \in Int
  BY CalendarAssumption DEF MonthOf
<1> QED
  BY <1>1, <1>2, <1>3

\* A candidate of the monthly cadence is an instant.
LEMMA MonthSlotType ==
  ASSUME NEW z \in Zone, NEW first \in Int, NEW dayOfMonth \in Int, NEW m \in Int
  PROVE  MonthSlot(z, first, dayOfMonth, m) \in Int
BY ClockTypes, DateType, MonthTypes DEF MonthSlot

\* The day counts between weekdays are integers.
LEMMA WeekdayTypes ==
  ASSUME NEW z \in Zone, NEW first \in Int, NEW from \in Int
  PROVE  /\ DaysUntilTarget(z, first, from) \in Int
         /\ DaysBackToTarget(z, first, from) \in Int
BY ClockTypes DEF DaysUntilTarget, DaysBackToTarget, Weekday

\* The quotients of the interval cadence are whole numbers once rounded.
LEMMA FloorType ==
  ASSUME NEW a \in Int, NEW b \in Int, b # 0
  PROVE  Floor(a, b) \in Int
BY DEF Floor

----------------------------------------------------------------------------
(* The entry points return a time, Nil or Invalid.                          *)

\* ComputeNextRunOnOrAfter returns an instant or an error.
LEMMA OnOrAfterType ==
  ASSUME NEW rec \in Recurrences \cup {Nil}, NEW tz, NEW first \in Int, NEW from \in Int
  PROVE  ComputeNextRunOnOrAfter(rec, tz, first, from) \in Int \cup {Invalid}
<1>1. CASE ~ Computable(rec, tz)
  BY <1>1 DEF ComputeNextRunOnOrAfter
<1>2. CASE Computable(rec, tz)
  <2> DEFINE z == Zones[tz]
  <2>1. z \in Zone /\ rec.cadence \in Cadences /\ rec.every \in Int
    BY <1>2, CalendarAssumption DEF Computable, Recurrences
  <2>2. computeIntervalOnOrAfter(first, rec.every, from) \in Int
    <3> DEFINE period == rec.every * SecondLength
    <3>1. period \in Int
      BY <2>1, CalendarAssumption
    <3> HIDE DEF period
    <3>2. period # 0 => Floor(first - from, period) \in Int
      BY <3>1, FloorType
    <3>3. period # 0 => first - period * Floor(first - from, period) \in Int
      BY <3>1, <3>2
    <3> QED
      BY <3>3 DEF computeIntervalOnOrAfter, period
  <2>3. computeDailyOnOrAfter(first, from, z) \in Int
    BY <2>1, DaySlotType, AddDaysType DEF computeDailyOnOrAfter
  <2>4. computeWeeklyOnOrAfter(first, from, z) \in Int
    BY <2>1, DaySlotType, AddDaysType, WeekdayTypes DEF computeWeeklyOnOrAfter
  <2>5. computeMonthlyOnOrAfter(first, rec.every, from, z) \in Int \cup {Invalid}
    <3> DEFINE month == MonthOf(DayOf(LocalOf(z, from)))
               Slot(i) == MonthSlot(z, first, rec.every, month + i)
               hits == {i \in 0..(MonthsSearched - 1) : ~ (Slot(i) < from)}
    <3>1. month \in Int
      BY <2>1, ClockTypes, MonthTypes
    <3>2. hits \in SUBSET Nat
      BY DEF MonthsSearched
    <3>3. hits # {} => FirstHit(hits) \in Nat
      <4> HIDE DEF hits
      <4> QED
        BY <3>2, FirstHitIsLeast, Zenon
    <3>4. hits # {} => Slot(FirstHit(hits)) \in Int
      BY <2>1, <3>1, <3>3, MonthSlotType
    <3> QED
      BY <3>4 DEF computeMonthlyOnOrAfter
  <2> QED
    BY <1>2, <2>1, <2>2, <2>3, <2>4, <2>5 DEF ComputeNextRunOnOrAfter, Cadences
<1> QED
  BY <1>1, <1>2

\* ComputeNextRunAfter returns an instant or an error.
LEMMA AfterType ==
  ASSUME NEW rec \in Recurrences \cup {Nil}, NEW tz, NEW first \in Int, NEW from \in Int
  PROVE  ComputeNextRunAfter(rec, tz, first, from) \in Int \cup {Invalid}
<1>1. CASE ~ Computable(rec, tz)
  BY <1>1 DEF ComputeNextRunAfter
<1>2. CASE Computable(rec, tz)
  <2> DEFINE z == Zones[tz]
  <2>1. z \in Zone /\ rec.cadence \in Cadences /\ rec.every \in Int
    BY <1>2, CalendarAssumption DEF Computable, Recurrences
  <2>2. computeIntervalAfter(first, rec.every, from) \in Int
    <3> DEFINE period == rec.every * SecondLength
    <3>1. period \in Int
      BY <2>1, CalendarAssumption
    <3> HIDE DEF period
    <3>2. period # 0 => Floor(from - first, period) \in Int
      BY <3>1, FloorType
    <3>3. period # 0 => first + period * (Floor(from - first, period) + 1) \in Int
      BY <3>1, <3>2
    <3> QED
      BY <3>3 DEF computeIntervalAfter, period
  <2>3. computeDailyAfter(first, from, z) \in Int
    BY <2>1, DaySlotType, AddDaysType DEF computeDailyAfter
  <2>4. computeWeeklyAfter(first, from, z) \in Int
    BY <2>1, DaySlotType, AddDaysType DEF computeWeeklyAfter
  <2>5. computeMonthlyAfter(first, rec.every, from, z) \in Int \cup {Invalid}
    <3> DEFINE month == MonthOf(DayOf(LocalOf(z, from)))
               Slot(i) == MonthSlot(z, first, rec.every, month + i)
               hits == {i \in 0..(MonthsSearched - 1) : Slot(i) > from}
    <3>1. month \in Int
      BY <2>1, ClockTypes, MonthTypes
    <3>2. hits \in SUBSET Nat
      BY DEF MonthsSearched
    <3>3. hits # {} => FirstHit(hits) \in Nat
      <4> HIDE DEF hits
      <4> QED
        BY <3>2, FirstHitIsLeast
    <3>4. hits # {} => Slot(FirstHit(hits)) \in Int
      BY <2>1, <3>1, <3>3, MonthSlotType
    <3> QED
      BY <3>4 DEF computeMonthlyAfter
  <2> QED
    BY <1>2, <2>1, <2>2, <2>3, <2>4, <2>5 DEF ComputeNextRunAfter, Cadences
<1> QED
  BY <1>1, <1>2

\* ComputeLatestRunOnOrBefore returns an instant, nil or an error.
LEMMA LatestType ==
  ASSUME NEW rec \in Recurrences \cup {Nil}, NEW tz, NEW first \in Int, NEW from \in Int
  PROVE  ComputeLatestRunOnOrBefore(rec, tz, first, from) \in Int \cup {Nil, Invalid}
<1>1. CASE ~ Computable(rec, tz)
  BY <1>1 DEF ComputeLatestRunOnOrBefore
<1>2. CASE Computable(rec, tz)
  <2> DEFINE z == Zones[tz]
  <2>1. z \in Zone /\ rec.cadence \in Cadences /\ rec.every \in Int
    BY <1>2, CalendarAssumption DEF Computable, Recurrences
  <2>2. computeIntervalLatestOnOrBefore(first, rec.every, from) \in Int \cup {Nil}
    <3> DEFINE period == rec.every * SecondLength
    <3>1. period \in Int
      BY <2>1, CalendarAssumption
    <3> HIDE DEF period
    <3>2. period # 0 => Floor(from - first, period) \in Int
      BY <3>1, FloorType
    <3>3. period # 0 => first + period * Floor(from - first, period) \in Int
      BY <3>1, <3>2
    <3> QED
      BY <3>3 DEF computeIntervalLatestOnOrBefore, period
  <2>3. computeDailyLatestOnOrBefore(first, from, z) \in Int \cup {Nil}
    BY <2>1, DaySlotType, AddDaysType DEF computeDailyLatestOnOrBefore
  <2>4. computeWeeklyLatestOnOrBefore(first, from, z) \in Int \cup {Nil}
    BY <2>1, DaySlotType, AddDaysType, WeekdayTypes DEF computeWeeklyLatestOnOrBefore
  <2>5. computeMonthlyLatestOnOrBefore(first, rec.every, from, z) \in Int \cup {Nil, Invalid}
    <3> DEFINE month == MonthOf(DayOf(LocalOf(z, from)))
               Slot(i) == MonthSlot(z, first, rec.every, month - i)
               hits == {i \in 0..(MonthsSearched - 1) : ~ (Slot(i) > from)}
    <3>1. month \in Int
      BY <2>1, ClockTypes, MonthTypes
    <3>2. hits \in SUBSET Nat
      BY DEF MonthsSearched
    <3>3. hits # {} => FirstHit(hits) \in Nat
      <4> HIDE DEF hits
      <4> QED
        BY <3>2, FirstHitIsLeast
    <3>4. hits # {} => Slot(FirstHit(hits)) \in Int
      BY <2>1, <3>1, <3>3, MonthSlotType
    <3> QED
      BY <3>4 DEF computeMonthlyLatestOnOrBefore
  <2> QED
    BY <1>2, <2>1, <2>2, <2>3, <2>4, <2>5 DEF ComputeLatestRunOnOrBefore, Cadences
<1> QED
  BY <1>1, <1>2

----------------------------------------------------------------------------
(* Progress of the run sequence.                                            *)

\* Division with a remainder, and the one step of algebra used with it.
LEMMA DivMod ==
  ASSUME NEW d \in Nat \ {0}, NEW x \in Int
  PROVE  /\ x \div d \in Int
         /\ x % d \in 0..(d - 1)
         /\ x = (x \div d) * d + (x % d)
<1>1. x \div d \in Int /\ x % d \in 0..(d - 1)
  OBVIOUS
<1>2. x = (x \div d) * d + (x % d)
  OBVIOUS
<1> QED
  BY <1>1, <1>2

\* Arithmetic that the provers want to see apart.
LEMMA Distribute ==
  ASSUME NEW d \in Int, NEW q \in Int, NEW n \in Int, NEW r \in Int
  PROVE  (q + n) * d + r = q * d + r + n * d
OBVIOUS

\* With no offset the wall clock is the instant, and a day later is DayLength
\* units later.
LEMMA UTCDays ==
  ASSUME NEW t \in Int, NEW n \in Int, NEW first \in Int
  PROVE  /\ AddDays(Zones["UTC"], t, n) = t + n * DayLength
         /\ DaySlot(Zones["UTC"], first, t, 0) + DayLength > t
<1> DEFINE z == Zones["UTC"]
<1>1. z \in Zone /\ z.std = 0 /\ z.dst = 0
  BY CalendarAssumption
<1>2. \A x \in Int : Offset(z, x) = 0
  BY <1>1 DEF Offset
<1>3. \A x \in Int : LocalOf(z, x) = x
  BY <1>2 DEF LocalOf
<1>4. \A day, clock \in Int : Date(z, day, clock) = day * DayLength + clock
  BY <1>2, CalendarAssumption DEF Date
<1>5. \A x \in Int : /\ x \div DayLength \in Int
                     /\ x % DayLength \in 0..(DayLength - 1)
                     /\ x = (x \div DayLength) * DayLength + (x % DayLength)
  BY CalendarAssumption, DivMod
<1>6. AddDays(z, t, n) = t + n * DayLength
  <2>1. AddDays(z, t, n) = ((t \div DayLength) + n) * DayLength + (t % DayLength)
    BY <1>3, <1>4, <1>5 DEF AddDays, DayOf, TimeOfDay
  <2>2. t % DayLength \in Int
    BY <1>5
  <2>3. ((t \div DayLength) + n) * DayLength + (t % DayLength)
          = (t \div DayLength) * DayLength + (t % DayLength) + n * DayLength
    BY <1>5, <2>2, Distribute, CalendarAssumption, SMTT(30)
  <2> QED
    BY <2>1, <2>3, <1>5
<1>7. DaySlot(z, first, t, 0) + DayLength > t
  <2>1. SlotClock(z, first) \in Nat
    BY <1>3, <1>5, CalendarAssumption DEF SlotClock, TimeOfDay
  <2>2. DaySlot(z, first, t, 0) = (t \div DayLength) * DayLength + SlotClock(z, first)
    BY <1>3, <1>4, <1>5, <2>1 DEF DaySlot, DayOf
  <2> QED
    BY <2>1, <2>2, <1>5, CalendarAssumption
<1> QED
  BY <1>6, <1>7

\* The multiple of d that follows x.
LEMMA NextMultiple ==
  ASSUME NEW d \in Nat \ {0}, NEW x \in Nat
  PROVE  /\ (x \div d) + 1 \in Nat
         /\ d * ((x \div d) + 1) > x
         /\ d * ((x \div d) + 1) - d <= x
<1> DEFINE q == x \div d
<1>1. q \in Int /\ x % d \in 0..(d - 1) /\ x = q * d + (x % d)
  BY DivMod
<1>2. q \in Nat
  BY <1>1
<1> HIDE DEF q
<1>3. d * (q + 1) = q * d + d /\ q * d \in Int
  BY <1>2
<1>4. q + 1 \in Nat /\ d * (q + 1) > x /\ d * (q + 1) - d <= x
  BY <1>1, <1>2, <1>3
<1> QED
  BY <1>4 DEF q

\* computeIntervalAfter returns the first instant after `from` that is a whole
\* number of periods after firstRunAt: it never repeats an occurrence and
\* never skips one.
THEOREM IntervalAfterIsNextSlot ==
  ASSUME NEW first \in Int, NEW seconds \in Nat \ {0}, NEW from \in Int,
         NEW period, period = seconds * SecondLength,
         NEW next, next = computeIntervalAfter(first, seconds, from)
  PROVE  /\ \E k \in Nat : next = first + period * k
         /\ next > from
         /\ next = first \/ next - period <= from
<1>1. period \in Nat \ {0}
  BY CalendarAssumption
<1>2. CASE from < first
  <2>1. next = first
    BY <1>2 DEF computeIntervalAfter
  <2>2. first = first + period * 0
    BY <1>1
  <2> QED
    BY <1>2, <2>1, <2>2
<1>3. CASE ~ (from < first)
  <2> DEFINE k == ((from - first) \div period) + 1
  <2>1. next = first + period * k
    BY <1>1, <1>3 DEF computeIntervalAfter, Floor
  <2>2. from - first \in Nat
    BY <1>3
  <2>3. k \in Nat /\ period * k > from - first /\ period * k - period <= from - first
    BY <1>1, <2>2, NextMultiple
  <2>4. period * k \in Int
    BY <1>1, <2>3
  <2> HIDE DEF k
  <2> QED
    BY <1>1, <2>1, <2>3, <2>4
<1> QED
  BY <1>2, <1>3

\* A recurrence with which runs go forward: no code keeps the seconds of an
\* interval from being 0 or negative.
Forward(rec) == rec.cadence = "interval" => rec.every > 0

\* The next run that complete_execution and fail_execution_timeout store, both
\* computed in UTC, is later than the occurrence that has just ended, for
\* every calendar, day of the month and positive number of seconds: what has
\* been executed is not due again.
THEOREM AfterIsLater ==
  ASSUME NEW rec \in Recurrences, NEW first \in Int, NEW from \in Int, Forward(rec),
         ComputeNextRunAfter(rec, "UTC", first, from) # Invalid
  PROVE  ComputeNextRunAfter(rec, "UTC", first, from) > from
<1> DEFINE z == Zones["UTC"]
<1>1. Computable(rec, "UTC")
  BY DEF ComputeNextRunAfter
<1>2. z \in Zone /\ rec.cadence \in Cadences /\ rec.every \in Int
  BY <1>1, CalendarAssumption DEF Computable, Recurrences
<1>3. rec.cadence = "interval" => computeIntervalAfter(first, rec.every, from) > from
  <2> HAVE rec.cadence = "interval"
  <2>1. rec.every \in Nat \ {0}
    BY <1>2 DEF Forward
  <2> QED
    BY <2>1, IntervalAfterIsNextSlot
<1>4. computeDailyAfter(first, from, z) > from
  <2>1. DaySlot(z, first, from, 0) \in Int
    BY <1>2, DaySlotType
  <2>2. AddDays(z, DaySlot(z, first, from, 0), 1) > from
    <3>1. AddDays(z, DaySlot(z, first, from, 0), 1)
            = DaySlot(z, first, from, 0) + 1 * DayLength
      BY <2>1, 1 \in Int, UTCDays, Zenon
    <3>2. DaySlot(z, first, from, 0) + DayLength > from
      BY UTCDays, Zenon
    <3> HIDE DEF z
    <3> QED
      BY <2>1, <3>1, <3>2, CalendarAssumption
  <2> QED
    BY <2>1, <2>2 DEF computeDailyAfter
<1>5. computeWeeklyAfter(first, from, z) > from
  <2>1. DaySlot(z, first, from, 0) \in Int
    BY <1>2, DaySlotType
  <2>2. AddDays(z, DaySlot(z, first, from, 0), 7) > from
    <3>1. AddDays(z, DaySlot(z, first, from, 0), 7)
            = DaySlot(z, first, from, 0) + 7 * DayLength
      BY <2>1, UTCDays
    <3>2. DaySlot(z, first, from, 0) + DayLength > from
      BY UTCDays
    <3> HIDE DEF z
    <3> QED
      BY <2>1, <3>1, <3>2, CalendarAssumption
  <2> QED
    BY <2>1, <2>2 DEF computeWeeklyAfter
<1>6. computeMonthlyAfter(first, rec.every, from, z) # Invalid
        => computeMonthlyAfter(first, rec.every, from, z) > from
  <2> DEFINE month == MonthOf(DayOf(LocalOf(z, from)))
             Slot(i) == MonthSlot(z, first, rec.every, month + i)
             hits == {i \in 0..(MonthsSearched - 1) : Slot(i) > from}
  <2>1. hits \in SUBSET Nat
    BY DEF MonthsSearched
  <2>2. hits # {} => FirstHit(hits) \in hits
    <3> HIDE DEF hits
    <3> QED
      BY <2>1, FirstHitIsLeast
  <2>3. hits # {} => Slot(FirstHit(hits)) > from
    BY <2>2
  <2> QED
    BY <2>3 DEF computeMonthlyAfter
<1> QED
  BY <1>1, <1>2, <1>3, <1>4, <1>5, <1>6 DEF ComputeNextRunAfter, Cadences

\* An interval of 0 seconds, which create_schedule accepts, makes no progress:
\* the next run that a completion stores is the first run, whatever has ended.
THEOREM ZeroIntervalStalls ==
  ASSUME NEW rec \in Recurrences, rec # Nil, rec.cadence = "interval", rec.every = 0,
         NEW first \in Int, NEW from \in Int
  PROVE  ComputeNextRunAfter(rec, "UTC", first, from) = first
<1>1. Computable(rec, "UTC")
  BY CalendarAssumption DEF Computable, Cadences
<1>2. computeIntervalAfter(first, 0, from) = first
  BY CalendarAssumption DEF computeIntervalAfter
<1> QED
  BY <1>1, <1>2 DEF ComputeNextRunAfter
=============================================================================
