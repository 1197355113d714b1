--------------------------- MODULE DeliveryQueue ---------------------------
(***************************************************************************)
(* What the two persistent work queues of the server promise, whatever     *)
(* leases, retries, processors and crashes lie underneath:  a job that was *)
(* submitted stays queued until it is settled or given up; it is settled   *)
(* as done only after its effect was performed, or when the job was        *)
(* excused from it (its destination is gone, another job took it over);    *)
(* a done job never comes back; a job that was given up comes back only as *)
(* a whole, through an explicit revival.                                   *)
(*                                                                         *)
(* IssueJobs and Outbound implement this specification.                    *)
(***************************************************************************)
CONSTANT Jobs

VARIABLES
  stage,      \* Jobs -> the life-cycle stage of the job
  performed,  \* the jobs whose effect was performed at least once
  excused     \* the jobs that may settle without their effect

Stages == {"absent", "queued", "done", "dead", "purged"}

QueueInit ==
  /\ stage = [d \in Jobs |-> "absent"]
  /\ performed = {}
  /\ excused \in SUBSET Jobs

Move(d, from, to) ==
  /\ stage[d] = from
  /\ stage' = [stage EXCEPT ![d] = to]
  /\ UNCHANGED performed

\* One transaction may submit several jobs (one event, many destinations).
Submit ==
  /\ stage' \in [Jobs -> Stages]
  /\ \A d \in Jobs : stage'[d] # stage[d] => stage[d] = "absent"
                                             /\ stage'[d] = "queued"
  /\ UNCHANGED performed

Perform(d) ==
  /\ stage[d] = "queued"
  /\ performed' = performed \union {d}
  /\ UNCHANGED stage

Settle(d) ==
  /\ d \in performed \union excused
  /\ Move(d, "queued", "done")

GiveUp(d) == Move(d, "queued", "dead")

Revive(d) == Move(d, "dead", "queued")

\* Retention: only settled or abandoned jobs are deleted, many at a time.
Purge ==
  /\ stage' \in [Jobs -> Stages]
  /\ \A d \in Jobs : stage'[d] # stage[d] => stage[d] \in {"done", "dead"}
                                             /\ stage'[d] = "purged"
  /\ UNCHANGED performed

Excuse == UNCHANGED <<stage, performed>>

QueueNext ==
  /\ excused \subseteq excused'
  /\ \/ Submit \/ Purge
     \/ \E d \in Jobs : Perform(d) \/ Settle(d) \/ GiveUp(d) \/ Revive(d)
     \/ Excuse

queue == <<stage, performed, excused>>

QueueSpec == QueueInit /\ [][QueueNext]_queue
=============================================================================
