-------------------------- MODULE OccurrenceLedger --------------------------
(***************************************************************************)
(* What the scheduler promises for each occurrence of a schedule, whoever  *)
(* leads the cluster while it is being worked on: it is run at most once,  *)
(* tried again only after a try that asked for it and never beyond the     *)
(* limit, and ends with the outcome of its last try.  A try counts as a    *)
(* success only if the receiver has answered a callback with success.      *)
(***************************************************************************)
EXTENDS Naturals

CONSTANTS
  Occurrences,   \* the due times of the schedules
  Limit,         \* the most tries of an occurrence, 0 for no limit
  None           \* no try so far

VARIABLES
  run,           \* occurrence -> how far it has come
  answered       \* occurrences with a callback that was answered with success

Runs ==
  [phase : {"due", "in_flight", "succeeded", "failed"}, tries : Nat,
   last : {None, "success", "retry", "terminal_failure"}]

Init ==
  /\ run = [o \in Occurrences |-> [phase |-> "due", tries |-> 0, last |-> None]]
  /\ answered = {}

Claim(o) ==
  /\ run[o].phase = "due"
  /\ run' = [run EXCEPT ![o].phase = "in_flight"]
  /\ UNCHANGED answered

\* The receiver accepts a callback; the scheduler may never get to record it.
Answer(o) ==
  /\ o \notin answered
  /\ answered' = answered \cup {o}
  /\ run[o].phase # "due"
  /\ UNCHANGED run

Try(o) ==
  LET r == run[o] IN
  /\ r.phase = "in_flight" /\ r.last \in {None, "retry"}
  /\ \E outcome \in {"success", "retry", "terminal_failure"} :
       /\ outcome = "success" => o \in answered
       /\ outcome = "terminal_failure" => r.tries + 1 = Limit
       /\ outcome = "retry" => Limit = 0 \/ r.tries + 1 < Limit
       /\ run' = [run EXCEPT ![o].tries = @ + 1, ![o].last = outcome]
  /\ UNCHANGED answered

End(o) ==
  LET r == run[o] IN
  /\ r.phase = "in_flight" /\ r.last \in {"success", "terminal_failure"}
  /\ run' = [run EXCEPT ![o].phase = IF r.last = "success" THEN "succeeded" ELSE "failed"]
  /\ UNCHANGED answered

\* Something changes, and for one occurrence.
Next ==
  /\ <<run, answered>>' # <<run, answered>>
  /\ \E o \in Occurrences : Claim(o) \/ Answer(o) \/ Try(o) \/ End(o)

Spec == Init /\ [][Next]_<<run, answered>>
=============================================================================
