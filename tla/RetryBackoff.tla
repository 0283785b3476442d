---------------------------- MODULE RetryBackoff ----------------------------
(***************************************************************************)
(* internal/model/schedule.go, RetryBackoff.DelayForAttempt: how long the  *)
(* worker waits after each failed attempt of an execution.  The delay is   *)
(* computed as a float64 and converted to a time.Duration, an integer of   *)
(* limited width.  Go leaves it to the machine what a value out of range   *)
(* is converted to: the least integer on amd64, the nearest on arm64.      *)
(***************************************************************************)
EXTENDS Integers

CONSTANTS
  Width,         \* bits of a time.Duration
  Initials, Multipliers, Maxes,    \* settings; a multiplier is <<num, den>>
  AttemptLimits, \* max_attempts of the schedule, 0 for none
  MaxAttempt     \* the last attempt that is looked at

MinDuration == -(2 ^ (Width - 1))
MaxDuration == 2 ^ (Width - 1) - 1

SettingsInRange ==
  /\ Initials \subseteq 0..MaxDuration /\ Maxes \subseteq 0..MaxDuration
  /\ Multipliers \subseteq (Nat \ {0}) \X (Nat \ {0})
  /\ AttemptLimits \subseteq Nat

ASSUME BackoffAssumption == Width \in Nat \ {0} /\ MaxAttempt \in Nat /\ SettingsInRange

VARIABLES
  rb,         \* the settings of the schedule
  attempt,    \* number of the last attempt, which failed
  delay,      \* the wait after it
  outcome

backoffVars == <<rb, attempt, delay, outcome>>

\* math.Pow, and the product with Initial, truncated.
Product(r, n) == (r.initial * r.multiplier[1] ^ (n - 1)) \div (r.multiplier[2] ^ (n - 1))

\* The conversion to an integer.
Converted(x) == IF x <= MaxDuration THEN {x} ELSE {MinDuration, MaxDuration}

\* Seeded fault: past the largest delay it starts over.
DelayForAttempt_StartsOver(r, n) ==
  {IF r.max > 0 /\ d > r.max THEN (IF r.initial > r.max THEN r.max ELSE r.initial) ELSE d :
     d \in Converted(Product(r, n))}

\* Attempt numbers start at 1.
DelayForAttempt(r, n) ==
  {IF r.max > 0 /\ d > r.max THEN r.max ELSE d : d \in Converted(Product(r, n))}

\* classifyAttemptOutcome, for an attempt that failed.
Outcome(r, n) ==
  IF r.maxAttempts > 0 /\ n >= r.maxAttempts THEN "terminal_failure" ELSE "retry"

BackoffInit ==
  /\ rb \in [initial : Initials, multiplier : Multipliers, max : Maxes,
             maxAttempts : AttemptLimits]
  /\ attempt = 1
  /\ outcome = Outcome(rb, 1)
  /\ delay \in DelayForAttempt(rb, 1)

\* The wait is over and the next attempt fails too.
Attempt ==
  /\ outcome = "retry"
  /\ attempt < MaxAttempt
  /\ attempt' = attempt + 1
  /\ outcome' = Outcome(rb, attempt')
  /\ delay' \in DelayForAttempt(rb, attempt')
  /\ UNCHANGED rb

BackoffNext == Attempt

----------------------------------------------------------------------------
(* Properties.                                                              *)

\* No delay is longer than the largest one the schedule allows, also when the
\* computation overflows; as long as the product fits into a time.Duration, no
\* delay is shorter than the one before it if the multiplier is at least 1.
BacksOffInRange ==
  [][/\ rb.max > 0 => delay' <= rb.max
     /\ Product(rb, attempt') <= MaxDuration /\ rb.multiplier[1] >= rb.multiplier[2]
          => delay' >= delay]_backoffVars
=============================================================================
