------------------------------ MODULE WorkQueue ------------------------------
(***************************************************************************)
(* The work queue of kernel/scheduler/scheduler.c and its users: the idle  *)
(* loop of every CPU (kernel/task.c), and the shell's "smp" command, which *)
(* submits NTasks jobs, waits for them, and runs jobs itself while it      *)
(* waits. args[] and results[] live in the stack frame of the command.     *)
(*                                                                         *)
(* Everything under the queue's lock is one step. A job's function runs    *)
(* between two such steps, with interrupts on, so any other context may    *)
(* run in between, also one on the same CPU.                               *)
(***************************************************************************)
EXTENDS Integers

CONSTANTS
  CpuCount,   \* cpu_count: the CPUs the MADT lists
  Started,    \* those that came up and run their idle loop
  Shell,      \* the shell's context; the idle loops are named by their CPU
  ShellCpu,   \* the CPU that dispatched the shell
  MaxTasks,   \* MAX_TASKS
  NTasks      \* jobs of one "smp" command

CPU == 0..CpuCount - 1
Slot == 1..MaxTasks
Job == 1..NTasks
Ctx == Started \cup {Shell}

ASSUME QueueAssumption ==
  /\ CpuCount \in Nat \ {0}
  /\ Started \subseteq CPU
  /\ ShellCpu \in Started
  /\ Shell \notin Started
  /\ MaxTasks \in Nat \ {0}
  /\ NTasks \in Nat \ {0}

VARIABLES
  tasks,          \* the table: state (0 free, 1 submitted, 2 running), cpu_id, arg
  next_task_cpu,  \* the CPU the next job is pinned to
  results,        \* results[j].cpu_id, -1 until the job has run
  pc,             \* per context: "look" for a job, "fn" claimed, "end" ran it
  slot,           \* the slot the context claimed
  shell,          \* where the command is
  submitted       \* how many jobs the command has submitted

vars == <<tasks, next_task_cpu, results, pc, slot, shell, submitted>>

CpuOf(x) == IF x = Shell THEN ShellCpu ELSE x

\* The loops over tasks[] take the lowest index.
First(S) == CHOOSE i \in S : \A j \in S : i <= j

\* Round robin over cpu_count, started or not.
NextCpu(c) == IF CpuCount > 1 THEN (c + 1) % CpuCount ELSE c

Free == {i \in Slot : tasks[i].state = 0}

Claimable_AnyState(x) == {i \in Slot : tasks[i].state # 0 /\ tasks[i].cpu_id = CpuOf(x)}

\* What scheduler_step accepts on the CPU of context x.
Claimable(x) == {i \in Slot : tasks[i].state = 1 /\ tasks[i].cpu_id = CpuOf(x)}

Pending_Queued == {i \in Slot : tasks[i].state = 1}

\* What scheduler_wait_all waits for.
Pending == {i \in Slot : tasks[i].state \in {1, 2}}

-----------------------------------------------------------------------------
(* The command *)

SmpCommand ==
  /\ shell = "prompt"
  /\ shell' = "submit"
  /\ UNCHANGED <<tasks, next_task_cpu, results, pc, slot, submitted>>

\* One turn of the submit loop, scheduler_submit included. The command does
\* not look at what scheduler_submit returns.
SubmitJob ==
  /\ shell = "submit"
  /\ submitted < NTasks
  /\ LET j == submitted + 1
     IN  /\ submitted' = j
         /\ results' = [results EXCEPT ![j] = -1]
         /\ IF Free = {}
            THEN UNCHANGED <<tasks, next_task_cpu>>
            ELSE /\ tasks' = [tasks EXCEPT ![First(Free)] =
                                [state |-> 1, cpu_id |-> next_task_cpu, arg |-> j]]
                 /\ next_task_cpu' = NextCpu(next_task_cpu)
  /\ UNCHANGED <<pc, slot, shell>>

CallWaitAll ==
  /\ shell = "submit"
  /\ submitted = NTasks
  /\ shell' = "wait"
  /\ UNCHANGED <<tasks, next_task_cpu, results, pc, slot, submitted>>

\* The scan at the top of scheduler_wait_all. When it finds nothing the
\* command prints the results and its stack frame is gone.
WaitCheck ==
  /\ shell = "wait"
  /\ IF Pending # {}
     THEN shell' = "step" /\ UNCHANGED submitted
     ELSE shell' = "prompt" /\ submitted' = 0
  /\ UNCHANGED <<tasks, next_task_cpu, results, pc, slot>>

-----------------------------------------------------------------------------
(* scheduler_step, called by an idle loop or from scheduler_wait_all *)

Looks(x) == pc[x] = "look" /\ (x = Shell => shell = "step")

Claim(x) ==
  /\ Looks(x)
  /\ Claimable(x) # {}
  /\ LET i == First(Claimable(x))
     IN  /\ tasks' = [tasks EXCEPT ![i].state = 2]
         /\ slot' = [slot EXCEPT ![x] = i]
  /\ pc' = [pc EXCEPT ![x] = "fn"]
  /\ UNCHANGED <<next_task_cpu, results, shell, submitted>>

\* scheduler_step returns 0: an idle loop halts until the next interrupt, the
\* wait goes round again.
NothingToDo ==
  /\ Looks(Shell)
  /\ Claimable(Shell) = {}
  /\ shell' = "wait"
  /\ UNCHANGED <<tasks, next_task_cpu, results, pc, slot, submitted>>

\* sum_worker writes through the pointer in the slot.
RunJob(x) ==
  /\ pc[x] = "fn"
  /\ results' = [results EXCEPT ![tasks[slot[x]].arg] = CpuOf(x)]
  /\ pc' = [pc EXCEPT ![x] = "end"]
  /\ UNCHANGED <<tasks, next_task_cpu, slot, shell, submitted>>

EndStep_KeepsSlot(x) ==
  /\ pc[x] = "end"
  /\ pc' = [pc EXCEPT ![x] = "look"]
  /\ shell' = IF x = Shell THEN "wait" ELSE shell
  /\ UNCHANGED <<tasks, next_task_cpu, results, slot, submitted>>

EndStep(x) ==
  /\ pc[x] = "end"
  /\ tasks' = [tasks EXCEPT ![slot[x]].state = 0, ![slot[x]].cpu_id = CpuOf(x)]
  /\ pc' = [pc EXCEPT ![x] = "look"]
  /\ shell' = IF x = Shell THEN "wait" ELSE shell
  /\ UNCHANGED <<next_task_cpu, results, slot, submitted>>

-----------------------------------------------------------------------------

Init ==
  /\ tasks = [i \in Slot |-> [state |-> 0, cpu_id |-> 0, arg |-> 1]]
  /\ next_task_cpu = 0
  /\ results = [j \in Job |-> -1]
  /\ pc = [x \in Ctx |-> "look"]
  /\ slot = [x \in Ctx |-> 1]
  /\ shell = "prompt"
  /\ submitted = 0

Next ==
  \/ SmpCommand
  \/ SubmitJob
  \/ CallWaitAll
  \/ WaitCheck
  \/ NothingToDo
  \/ \E x \in Ctx :
       \/ Claim(x)
       \/ RunJob(x)
       \/ EndStep(x)

Spec == Init /\ [][Next]_vars

\* Every context gets the processor again and again (TaskSched's ReadyRuns),
\* and the queue's lock is held for a bounded scan only.
Fairness ==
  /\ WF_vars(SubmitJob)
  /\ WF_vars(CallWaitAll)
  /\ WF_vars(WaitCheck)
  /\ WF_vars(NothingToDo)
  /\ \A x \in Ctx : WF_vars(Claim(x) \/ RunJob(x) \/ EndStep(x))

FairSpec == Spec /\ Fairness

-----------------------------------------------------------------------------
(* Properties *)

\* Every variable keeps its type; a free slot keeps the cpu_id of its last run
\* (scheduler.c:93).
TypeOK ==
  /\ tasks \in [Slot -> [state : 0..2, cpu_id : CPU, arg : Job]]
  /\ next_task_cpu \in CPU
  /\ results \in [Job -> CPU \cup {-1}]
  /\ pc \in [Ctx -> {"look", "fn", "end"}]
  /\ slot \in [Ctx -> Slot]
  /\ shell \in {"prompt", "submit", "wait", "step"}
  /\ submitted \in 0..NTasks

Runs(x) == pc[x] \in {"fn", "end"}

\* A job is claimed by one context only, and its slot stays in state 2 until
\* that context frees it: no other submit, claim or finish touches the slot in
\* between (scheduler.c:85-95).
ClaimExclusive ==
  \A x \in Ctx : Runs(x) =>
    /\ tasks[slot[x]].state = 2
    /\ \A y \in Ctx \ {x} : Runs(y) => slot[y] # slot[x]

\* Nobody runs a job, or will, once the command has returned: a late worker
\* would write into a stack frame that is gone (kernel.c:481-499).
FrameAlive ==
  shell = "prompt" => Pending = {} /\ \A x \in Ctx : ~Runs(x)

\* scheduler_submit never finds the table full: the command ignores its
\* result and would print a result nobody computed (kernel.c:496,
\* scheduler.c:45-46).
NeverFull == shell = "submit" /\ submitted < NTasks => Free # {}

\* What has become of job j of the current command.
JobOf(j) ==
  IF j > submitted THEN "none"
  ELSE IF \E i \in Slot : tasks[i].state = 1 /\ tasks[i].arg = j THEN "queued"
  ELSE IF \E x \in Ctx : pc[x] = "fn" /\ tasks[slot[x]].arg = j THEN "running"
  ELSE IF results[j] # -1 THEN "done"
  ELSE "rejected"

Phase == CASE shell = "prompt" -> "none"
           [] shell = "submit" -> "submit"
           [] shell \in {"wait", "step"} -> "wait"

Pool == INSTANCE WorkPool WITH phase <- Phase, job <- [j \in Job |-> JobOf(j)]

\* The queue implements the pool: exactly-once execution of what was accepted,
\* and scheduler_wait_all returns only when every job of the command has
\* written its result (scheduler.c:29-100).
ImplementsPool == Pool!PoolSpec

\* The command comes back to the prompt (scheduler.c:49-66).
WaitReturns == shell = "wait" ~> shell = "prompt"
=============================================================================
