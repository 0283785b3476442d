--------------------------- MODULE MCStateMachine ---------------------------
(***************************************************************************)
(* A small instance of StateMachine: a once schedule, a schedule that      *)
(* recurs at every instant under the two policies that catch up, and one   *)
(* without a policy whose interval is 0.  A resume under skip_missed is in *)
(* module MCRunSequence.                                                   *)
(***************************************************************************)
EXTENDS StateMachine, TLC

MCZones == [UTC |-> [std |-> 0, dst |-> 0, from |-> 0, until |-> 0]]

MCCanonicalKey == ("content-type" :> "Content-Type") @@ ("X-Trace" :> "X-Trace")

Every(seconds) == [cadence |-> "interval", every |-> seconds]

\* The recurring schedules have the URL that an update gives to the others.
SpecOf(type, recurrence, timezone, policy, headers, callTimeout) ==
  [scheduleType |-> type, firstRunAt |-> 0, recurrence |-> recurrence,
   timezone |-> timezone, catchUpPolicy |-> policy,
   callbackURL |-> IF type = "once" THEN "usable" ELSE "", headers |-> headers,
   maxAttempts |-> 2, callTimeout |-> callTimeout]

MCSpecs ==
  {SpecOf("once", Nil, "UTC", "", {}, 30)}
    \cup {SpecOf("recurring", Every(1), "UTC", "catch_up_all", {}, Nil),
          SpecOf("recurring", Every(1), "UTC", "catch_up_latest_only", {}, Nil),
          SpecOf("recurring", Every(0), "UTC", "", {}, Nil),
          SpecOf("recurring", Every(1), "Local", "skip_missed", {}, 30),
          SpecOf("recurring", Nil, "UTC", "skip_missed", {}, 30),
          SpecOf("once", Nil, "UTC", "", {"content-type"}, 30),
          SpecOf("once", Nil, "UTC", "", {}, 0),
          SpecOf("once", Nil, "UTC", "", {}, MaxCallTimeout + 1)}

MCSettings ==
  {[callbackURL |-> "", headers |-> Nil, maxAttempts |-> Nil, callTimeout |-> 0],
   [callbackURL |-> Nil, headers |-> {"content-type"}, maxAttempts |-> Nil,
    callTimeout |-> Nil],
   [callbackURL |-> Nil, headers |-> Nil, maxAttempts |-> 3,
    callTimeout |-> MaxCallTimeout + 1]}

MCTimes == 0..2
MCRetryTimes == {1}

Symmetry ==
  Permutations(Nodes) \cup Permutations(ExecutionIds) \cup Permutations(AttemptIds)
=============================================================================
