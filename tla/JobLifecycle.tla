---------------------------- MODULE JobLifecycle ----------------------------
(***************************************************************************)
(* What the jobs table promises to a client of the API, without workers,   *)
(* leases as times, or faults: the life of every job, the number of its    *)
(* attempts, and whether an investigation report exists for it.            *)
(***************************************************************************)
EXTENDS Naturals

CONSTANTS
  Jobs,
  MaxAttempts   \* Jobs -> the attempts a job may use

Phases == {"absent", "queued", "leased", "direct", "completed", "failed"}

Life == [phase : Phases, attempts : Nat, reported : BOOLEAN]

VARIABLE life

Init == life = [j \in Jobs |-> [phase |-> "absent", attempts |-> 0, reported |-> FALSE]]

Running(l) == l.phase \in {"leased", "direct"}

\* The steps of one job, from l to m.
Submit(l, m) ==
  /\ l.phase = "absent"
  /\ m = [l EXCEPT !.phase = "queued"]

\* A claim, of a queued job or of one whose lease ran out.
Lease(j, l, m) ==
  /\ l.phase \in {"queued", "leased"}
  /\ l.attempts < MaxAttempts[j]
  /\ m = [phase |-> "leased", attempts |-> l.attempts + 1, reported |-> l.reported]

\* Taken out of the queue by hand.
TakeOut(l, m) ==
  /\ l.phase = "queued"
  /\ m = [l EXCEPT !.phase = "direct"]

Retry(j, l, m) ==
  /\ Running(l)
  /\ l.attempts < MaxAttempts[j]
  /\ m = [l EXCEPT !.phase = "queued"]

Report(l, m) ==
  /\ Running(l)
  /\ m = [phase |-> "completed", attempts |-> l.attempts, reported |-> TRUE]

\* Ended without a report, by a failure or by an operator.
Close(l, m) ==
  /\ Running(l)
  /\ \E phase \in {"completed", "failed"} : m = [l EXCEPT !.phase = phase]

JobStep(j, l, m) ==
  \/ Submit(l, m)
  \/ Lease(j, l, m)
  \/ TakeOut(l, m)
  \/ Retry(j, l, m)
  \/ Report(l, m)
  \/ Close(l, m)

\* One transaction can move several jobs: a claim fails exhausted ones.
Next ==
  /\ life' \in [Jobs -> Life]
  /\ \A j \in Jobs : life'[j] = life[j] \/ JobStep(j, life[j], life'[j])

Spec == Init /\ [][Next]_life
=============================================================================
