---------------------------- MODULE JobLifecycle ----------------------------
(***************************************************************************)
(* What the outbox promises to the code that enqueues a job, with nothing  *)
(* of claims, leases, workers or clocks: a job is submitted once, is tried *)
(* at most MaxAttempts times, and then is done or dead for good.  It may   *)
(* be given up only when its tries are used up.                            *)
(***************************************************************************)
EXTENDS Naturals

CONSTANTS Jobs,         \* the rows of public.outbox_events
          Leaseless,    \* jobs whose consumer does not count its tries
          MaxAttempts   \* outbox_events.max_attempts

VARIABLES phase,        \* phase[j]: what the submitter can know of j
          tries         \* tries[j]: claims charged to j and not given back

vars == <<phase, tries>>

Phases == {"absent", "open", "done", "dead"}

Init ==
    /\ phase = [j \in Jobs |-> "absent"]
    /\ tries = [j \in Jobs |-> 0]

Submit(j) ==
    /\ phase[j] = "absent"
    /\ phase'[j] = "open"
    /\ tries'[j] = 0

Try(j) ==
    /\ phase[j] = "open"
    /\ phase'[j] = "open"
    /\ tries[j] < MaxAttempts
    /\ tries'[j] = tries[j] + 1

\* A handler that has more to do returns the try it was charged.
GiveBack(j) ==
    /\ phase[j] = "open"
    /\ phase'[j] = "open"
    /\ tries[j] > 0
    /\ tries'[j] = tries[j] - 1

Finish(j) ==
    /\ phase[j] = "open"
    /\ phase'[j] = "done"
    /\ j \in Leaseless \/ tries[j] > 0
    /\ tries'[j] = tries[j]

GiveUp(j) ==
    /\ phase[j] = "open"
    /\ phase'[j] = "dead"
    /\ tries[j] = MaxAttempts
    /\ tries'[j] = tries[j]

Stay(j) ==
    /\ phase'[j] = phase[j]
    /\ tries'[j] = tries[j]

JobNext(j) == Submit(j) \/ Try(j) \/ GiveBack(j) \/ Finish(j) \/ GiveUp(j) \/ Stay(j)

\* One statement may move many rows, each by a step of its own.
Next == \A j \in Jobs : JobNext(j)

Spec == Init /\ [][Next]_vars
=============================================================================
