------------------------------ MODULE WorkPool ------------------------------
(***************************************************************************)
(* What the work queue promises the "smp" command: every accepted job runs *)
(* exactly once, and the wait returns only when all of them have finished. *)
(***************************************************************************)
CONSTANT Job

VARIABLES
  phase,   \* of the command: "none", "submit" or "wait"
  job      \* what became of each job of the current command

poolVars == <<phase, job>>

JobState == {"none", "queued", "running", "done", "rejected"}

PoolInit == phase = "none" /\ job = [j \in Job |-> "none"]

Begin ==
  /\ phase = "none"
  /\ phase' = "submit"
  /\ UNCHANGED job

Submit(j) ==
  /\ phase = "submit"
  /\ job[j] = "none"
  /\ \E s \in {"queued", "rejected"} : job' = [job EXCEPT ![j] = s]
  /\ UNCHANGED phase

StartWaiting ==
  /\ phase = "submit"
  /\ \A j \in Job : job[j] # "none"
  /\ phase' = "wait"
  /\ UNCHANGED job

Start(j) ==
  /\ job[j] = "queued"
  /\ job' = [job EXCEPT ![j] = "running"]
  /\ UNCHANGED phase

Finish(j) ==
  /\ job[j] = "running"
  /\ job' = [job EXCEPT ![j] = "done"]
  /\ UNCHANGED phase

Return ==
  /\ phase = "wait"
  /\ \A j \in Job : job[j] \in {"done", "rejected"}
  /\ phase' = "none"
  /\ job' = [j \in Job |-> "none"]

PoolNext ==
  \/ Begin
  \/ StartWaiting
  \/ Return
  \/ \E j \in Job : Submit(j) \/ Start(j) \/ Finish(j)

PoolSpec == PoolInit /\ [][PoolNext]_poolVars
=============================================================================
