---------------------------- MODULE RunSequence ----------------------------
(***************************************************************************)
(* The run times of one recurring schedule over its life: the first one at *)
(* creation, the next one each time an execution ends, and the one after a *)
(* pause and resume.  The commands of module Commands compute them; here   *)
(* they are held against what the cadence means, stated by looking at the  *)
(* wall clock in the schedule's time zone.                                 *)
(*                                                                         *)
(* The slot of the day can fall into the hour that summer time skips or    *)
(* repeats.  What the code then does depends on which instant time.Date    *)
(* returns; the properties are about schedules that are Clear of this.     *)
(***************************************************************************)
EXTENDS Commands, FiniteSets

CONSTANTS
  Horizon    \* the last instant of the clock

ASSUME HorizonAssumption == Horizon \in Nat

\* The wall clock in the schedule's zone shows the slot's time of day at t.
AtSlotClock(s, t) ==
  LET z == Zones[s.timezone]
  IN  TimeOfDay(LocalOf(z, t)) = SlotClock(z, s.firstRunAt)

\* The slot's wall clock reading comes once a day, every day.
Clear(s) ==
  \A day \in 1..(Horizon \div DayLength) :
    Cardinality({t \in ((day - 2) * DayLength)..((day + 2) * DayLength) :
                   /\ DayOf(LocalOf(Zones[s.timezone], t)) = day
                   /\ AtSlotClock(s, t)}) = 1

CONSTANTS
  Created    \* the recurring schedules, as create_schedule builds their rows

\* What 0 or a negative number of seconds or day of the month should mean, the
\* code does not say.
ASSUME CreatedAssumption ==
  \A s \in Created : s \in Schedule /\ s.recurrence.every > 0 /\ Clear(s)

VARIABLES
  schedule,  \* the row
  executed,  \* due times of the executions that have ended
  now        \* the leader's clock

vars == <<schedule, executed, now>>

Init ==
  /\ schedule \in Created
  /\ executed = {}
  /\ now = 0

Tick ==
  /\ now < Horizon
  /\ now' = now + 1
  /\ UNCHANGED <<schedule, executed>>

\* The occurrence that is due is claimed, executed and completed.  A claim
\* of an occurrence that has been executed is a conflict and goes no further.
Complete ==
  /\ schedule.nextRunAt # Nil
  /\ schedule.nextRunAt <= now
  /\ schedule.nextRunAt \notin executed
  /\ schedule' = AdvancedSchedule(schedule, schedule.nextRunAt)
  /\ schedule'.nextRunAt # Invalid
  /\ executed' = executed \cup {schedule.nextRunAt}
  /\ UNCHANGED now

\* The executions' rows, as far as resume_schedule looks at them.
Rows == [scheduledFor : executed, status : {"succeeded"}]

\* The schedule is paused and, at some later time, resumed.
Resume ==
  /\ schedule' = [schedule EXCEPT
       !.nextRunAt = ResumedNextRun(schedule, MostRecentTerminal(Rows), now)]
  /\ schedule'.nextRunAt # Invalid
  /\ UNCHANGED <<executed, now>>

Next == Tick \/ Complete \/ Resume

Spec == Init /\ [][Next]_vars

----------------------------------------------------------------------------
(* What a cadence means.                                                    *)

OnCadence(s, t) ==
  LET day == DayOf(LocalOf(Zones[s.timezone], t))
      firstDay == DayOf(LocalOf(Zones[s.timezone], s.firstRunAt))
      every == s.recurrence.every
      month == MonthOf(day)
      date == day - MonthStart(month) + 1
  IN  CASE s.recurrence.cadence = "interval" ->
             (t - s.firstRunAt) % (every * SecondLength) = 0
        [] s.recurrence.cadence = "daily" -> AtSlotClock(s, t)
        [] s.recurrence.cadence = "weekly" ->
             AtSlotClock(s, t) /\ Weekday(day) = Weekday(firstDay)
        [] s.recurrence.cadence = "monthly" ->
             /\ AtSlotClock(s, t)
             /\ date = every \/ (date < every /\ date = LastDay(month))

\* Two months and a day: no two slots of an instance are further apart.
Span == (LongMonth + ShortMonth + 1) * DayLength

Slots(s, lo, hi) == {t \in lo..hi : t >= s.firstRunAt /\ OnCadence(s, t)}

Earliest(ts) == CHOOSE t \in ts : \A u \in ts : t <= u
Latest(ts) == CHOOSE t \in ts : \A u \in ts : u <= t

Started == now >= schedule.firstRunAt

----------------------------------------------------------------------------
(* Properties.                                                              *)

\* ComputeNextRunOnOrAfter, which create_schedule and resume_schedule use,
\* returns the earliest slot that is not past, on both sides of a change to
\* or from summer time and of a month too short for the day of the month.
NextIsEarliest ==
  Started =>
    ComputeNextRunOnOrAfter(schedule.recurrence, schedule.timezone,
                            schedule.firstRunAt, now)
      = Earliest(Slots(schedule, now, now + Span))

\* ComputeNextRunAfter returns the earliest slot to come; for a weekly
\* cadence only when it is asked from a slot, as complete_execution does.
AfterIsEarliest ==
  (Started /\ (schedule.recurrence.cadence = "weekly" => OnCadence(schedule, now))) =>
    ComputeNextRunAfter(schedule.recurrence, schedule.timezone,
                        schedule.firstRunAt, now)
      = Earliest(Slots(schedule, now + 1, now + Span))

\* ComputeLatestRunOnOrBefore, which decides what catch_up_latest_only makes
\* up for, returns the latest slot that is due.
LatestIsLatest ==
  (Started /\ Slots(schedule, 0, now) # {}) =>
    ComputeLatestRunOnOrBefore(schedule.recurrence, schedule.timezone,
                               schedule.firstRunAt, now)
      = Latest(Slots(schedule, 0, now))

\* Whatever mix of completions, pauses and resumes a schedule goes through,
\* it runs on its cadence or at its first run time: in UTC, except for a
\* weekly schedule that skips what it missed.
RunsOnCadence ==
  (/\ schedule.timezone = "UTC"
   /\ schedule.recurrence.cadence = "weekly" => schedule.catchUpPolicy # "skip_missed")
  => \/ schedule.nextRunAt = schedule.firstRunAt
     \/ OnCadence(schedule, schedule.nextRunAt)

\* A daily schedule with a time zone runs at the same local time all year:
\* "The UTC hour must shift by one relative to winter even though the local
\* wall-clock time is identical" (internal/model/recurrence_test.go:352).
KeepsLocalTime ==
  schedule.recurrence.cadence = "daily" => AtSlotClock(schedule, schedule.nextRunAt)

\* A weekly schedule that is asked for its next run between two slots gets
\* the next slot, as TestComputeNextRunOnOrAfter_Weekly_FromBetweenSlots
\* expects (internal/model/recurrence_test.go:202): it stays on its weekday
\* when it is resumed.
KeepsWeekday ==
  (schedule.recurrence.cadence = "weekly" /\ schedule.timezone = "UTC")
  => OnCadence(schedule, schedule.nextRunAt)
=============================================================================
