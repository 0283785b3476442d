---------------------------- MODULE MCScheduler ----------------------------
(***************************************************************************)
(* Small instances of Scheduler: one schedule, that runs once or recurs at *)
(* every instant.                                                          *)
(***************************************************************************)
EXTENDS Scheduler, TLC

MCZones == [UTC |-> [std |-> 0, dst |-> 0, from |-> 0, until |-> 0]]

MCCanonicalKey == "X-Trace" :> "X-Trace"

SpecOf(type, recurrence, policy, url) ==
  [scheduleType |-> type, firstRunAt |-> 0, recurrence |-> recurrence, timezone |-> "UTC",
   catchUpPolicy |-> policy, callbackURL |-> url, headers |-> {},
   maxAttempts |-> MaxAttempts, callTimeout |-> Nil]

Once(url) == SpecOf("once", Nil, "", url)
Recurring == SpecOf("recurring", [cadence |-> "interval", every |-> 1], "catch_up_all", "usable")

Setting(spec, skewed, disturbances) ==
  [spec |-> spec, skewed |-> skewed, disturbances |-> disturbances]

SafetySettings ==
  {Setting(Once("usable"), FALSE, 2), Setting(Once("usable"), TRUE, 1),
   Setting(Recurring, FALSE, 1),
   Setting(Once(""), FALSE, 1), Setting(Once("malformed"), FALSE, 1)}

\* Without calls to wait for, there is room for a fault and a deposition.
LiveSettings == {Setting(Once("usable"), FALSE, 1), Setting(Once("malformed"), FALSE, 2)}

Symmetry == Permutations(Nodes)
=============================================================================
