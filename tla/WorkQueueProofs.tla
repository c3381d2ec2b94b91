--------------------------- MODULE WorkQueueProofs ---------------------------
(***************************************************************************)
(* The work queue implements the abstract pool, for any number of CPUs,    *)
(* slots and jobs.                                                         *)
(***************************************************************************)
EXTENDS WorkQueue, ProofLemmas, FiniteSetTheorems, TLAPS

\* A slot in state 2 belongs to exactly one context.
SlotOwned ==
  /\ \A x \in Ctx : Runs(x) => tasks[slot[x]].state = 2
  /\ \A x, y \in Ctx : Runs(x) /\ Runs(y) /\ slot[x] = slot[y] => x = y
  /\ \A i \in Slot : tasks[i].state = 2 => \E x \in Ctx : Runs(x) /\ slot[x] = i

\* The slots in use hold different jobs of the current command.
SlotJobs ==
  /\ \A i \in Slot : tasks[i].state # 0 => tasks[i].arg <= submitted
  /\ \A i, k \in Slot : /\ tasks[i].state # 0
                        /\ tasks[k].state # 0
                        /\ tasks[i].arg = tasks[k].arg
                        => i = k

\* A job has a result exactly when its function has run.
ResultWritten ==
  /\ \A i \in Slot : tasks[i].state = 1 => results[tasks[i].arg] = -1
  /\ \A x \in Ctx : /\ pc[x] = "fn" => results[tasks[slot[x]].arg] = -1
                    /\ pc[x] = "end" => results[tasks[slot[x]].arg] # -1

ShellPhase ==
  /\ shell = "prompt" => submitted = 0
  /\ shell \in {"wait", "step"} => submitted = NTasks
  /\ Runs(Shell) => shell = "step"

Inv == TypeOK /\ SlotOwned /\ SlotJobs /\ ResultWritten /\ ShellPhase

-----------------------------------------------------------------------------

(* The leaves are for Zenon, unless they cite SMT.                         *)
USE Zenon

LEMMA FirstResult ==
  ASSUME NEW S \in SUBSET Slot, S # {}
  PROVE  First(S) \in S
<1>1. S \subseteq Nat
  BY SMT DEF Slot
<1>2. \E i \in S : \A j \in S : i <= j
  BY <1>1, LeastElement
<1>. QED BY <1>2 DEF First

LEMMA NextCpuType ==
  ASSUME NEW c \in CPU
  PROVE  NextCpu(c) \in CPU
<1>1. c + 1 \in Nat /\ CpuCount \in Nat \ {0}
  BY QueueAssumption, SMT DEF CPU
<1>2. (c + 1) % CpuCount \in 0..CpuCount - 1
  BY <1>1, ModRange
<1>. QED BY <1>2 DEF NextCpu, CPU

LEMMA CpuOfType ==
  ASSUME NEW x \in Ctx
  PROVE  CpuOf(x) \in CPU
BY QueueAssumption DEF CpuOf, Ctx, CPU

LEMMA InitInv == Init => Inv
<1>. SUFFICES ASSUME Init PROVE Inv
  OBVIOUS
<1>1. 0 \in CPU /\ 1 \in Slot /\ 1 \in Job
  BY QueueAssumption, SMT DEF CPU, Slot, Job
<1>2. TypeOK
  BY <1>1, QueueAssumption, SMT DEF Init, TypeOK
<1>3. SlotOwned /\ SlotJobs /\ ResultWritten /\ ShellPhase
  BY <1>1, SMT DEF Init, SlotOwned, SlotJobs, ResultWritten, ShellPhase, Runs, Ctx
<1>. QED BY <1>2, <1>3 DEF Inv

LEMMA SubmitJobInv == Inv /\ SubmitJob => Inv'
<1>. SUFFICES ASSUME Inv, SubmitJob PROVE Inv'
  OBVIOUS
<1>. DEFINE j == submitted + 1
<1>1. /\ j \in Job /\ submitted \in Nat
      /\ submitted' = j /\ j \in 0..NTasks
      /\ shell = "submit"
      /\ results' = [results EXCEPT ![j] = -1]
      /\ UNCHANGED <<pc, slot, shell>>
  BY QueueAssumption, SMT DEF Inv, TypeOK, SubmitJob, Job
<1>2. \A k \in Job \ {j} : results'[k] = results[k]
  BY <1>1 DEF Inv, TypeOK
<1>3. results' \in [Job -> CPU \cup {-1}] /\ results'[j] = -1
  BY <1>1 DEF Inv, TypeOK
<1>4. CASE Free = {}
  <2>1. UNCHANGED <<tasks, next_task_cpu>>
    BY <1>4 DEF SubmitJob
  <2>2. TypeOK'
    BY <1>1, <1>3, <2>1 DEF Inv, TypeOK
  <2>3. \A i \in Slot : tasks[i].state # 0 => tasks[i].arg # j /\ tasks[i].arg \in Job
    BY <1>1, SMT DEF Inv, SlotJobs, TypeOK, Job
  <2>4. SlotOwned' /\ ShellPhase'
    BY <1>1, <2>1 DEF Inv, SlotOwned, ShellPhase, Runs
  <2>5. SlotJobs'
    BY <1>1, <2>1, SMT DEF Inv, SlotJobs, TypeOK, Job
  <2>6. ResultWritten'
    BY <1>1, <1>2, <2>1, <2>3, SMT DEF Inv, ResultWritten, SlotOwned, Runs, TypeOK
  <2>. QED BY <2>2, <2>4, <2>5, <2>6 DEF Inv
<1>5. CASE Free # {}
  <2>. DEFINE f == First(Free)
  <2>1. f \in Slot /\ tasks[f].state = 0
    BY <1>5, FirstResult DEF Free
  <2>2. /\ tasks' = [tasks EXCEPT ![f] = [state |-> 1, cpu_id |-> next_task_cpu, arg |-> j]]
        /\ next_task_cpu' = NextCpu(next_task_cpu)
    BY <1>5 DEF SubmitJob
  <2>. HIDE DEF f
  <2>3. TypeOK'
    <3>1. [state |-> 1, cpu_id |-> next_task_cpu, arg |-> j]
            \in [state : 0..2, cpu_id : CPU, arg : Job]
      BY <1>1, SMT DEF Inv, TypeOK
    <3>2. tasks' \in [Slot -> [state : 0..2, cpu_id : CPU, arg : Job]]
      BY <2>1, <2>2, <3>1 DEF Inv, TypeOK
    <3>3. next_task_cpu' \in CPU
      BY <2>2, NextCpuType DEF Inv, TypeOK
    <3>. QED BY <1>1, <1>3, <3>2, <3>3 DEF Inv, TypeOK
  <2>4. /\ tasks'[f] = [state |-> 1, cpu_id |-> next_task_cpu, arg |-> j]
        /\ \A i \in Slot \ {f} : tasks'[i] = tasks[i]
    BY <2>1, <2>2 DEF Inv, TypeOK
  <2>5. \A x \in Ctx : Runs(x) => slot[x] \in Slot \ {f} /\ tasks[slot[x]].state = 2
    BY <2>1, SMT DEF Inv, SlotOwned, TypeOK
  <2>6. \A x : Runs(x)' <=> Runs(x)
    BY <1>1 DEF Runs
  <2>7. \A i \in Slot \ {f} : tasks[i].state # 0 =>
          tasks[i].arg # j /\ tasks[i].arg \in Job /\ tasks[i].arg <= submitted
    BY <1>1, SMT DEF Inv, SlotJobs, TypeOK, Job
  <2>8. SlotOwned'
    BY <1>1, <2>4, <2>5, <2>6, SMT DEF Inv, SlotOwned
  <2>9. SlotJobs'
    <3>1. \A i \in Slot : tasks'[i].state # 0 => tasks'[i].arg <= submitted'
      BY <1>1, <2>4, <2>7, SMT DEF Job
    <3>2. \A i, k \in Slot : /\ tasks'[i].state # 0
                             /\ tasks'[k].state # 0
                             /\ tasks'[i].arg = tasks'[k].arg
                             => i = k
      BY <2>4, <2>7, SMT DEF Inv, SlotJobs
    <3>. QED BY <3>1, <3>2 DEF SlotJobs
  <2>10. ResultWritten'
    <3>1. \A i \in Slot : tasks'[i].state = 1 => results'[tasks'[i].arg] = -1
      BY <1>2, <1>3, <2>4, <2>7, SMT DEF Inv, ResultWritten
    <3>2. \A x \in Ctx : Runs(x) => /\ tasks'[slot[x]] = tasks[slot[x]]
                                    /\ results'[tasks[slot[x]].arg] = results[tasks[slot[x]].arg]
      BY <1>2, <2>4, <2>5, <2>7, SMT
    <3>. QED BY <1>1, <3>1, <3>2, SMT DEF Inv, ResultWritten, Runs
  <2>11. ShellPhase'
    BY <1>1, <2>6 DEF Inv, ShellPhase
  <2>. QED BY <2>3, <2>8, <2>9, <2>10, <2>11 DEF Inv
<1>. QED BY <1>4, <1>5

LEMMA ClaimInv ==
  ASSUME Inv, NEW x \in Ctx, Claim(x)
  PROVE  Inv'
<1>. DEFINE i == First(Claimable(x))
<1>1. /\ i \in Slot
      /\ tasks[i].state = 1
      /\ tasks[i].cpu_id = CpuOf(x)
  BY FirstResult DEF Claim, Claimable
<1>2. /\ tasks' = [tasks EXCEPT ![i].state = 2]
      /\ slot' = [slot EXCEPT ![x] = i]
      /\ pc[x] = "look"
      /\ x = Shell => shell = "step"
      /\ pc' = [pc EXCEPT ![x] = "fn"]
      /\ UNCHANGED <<next_task_cpu, results, shell, submitted>>
  BY DEF Claim, Looks
<1>. HIDE DEF i
<1>3. /\ tasks'[i].state = 2
      /\ tasks'[i].cpu_id = tasks[i].cpu_id
      /\ tasks'[i].arg = tasks[i].arg
      /\ \A k \in Slot \ {i} : tasks'[k] = tasks[k]
  BY <1>1, <1>2 DEF Inv, TypeOK
<1>4. /\ pc'[x] = "fn" /\ slot'[x] = i
      /\ \A y \in Ctx \ {x} : pc'[y] = pc[y] /\ slot'[y] = slot[y]
  BY <1>2 DEF Inv, TypeOK
<1>5. TypeOK'
  <2>1. tasks' \in [Slot -> [state : 0..2, cpu_id : CPU, arg : Job]]
    BY <1>1, <1>2, SMT DEF Inv, TypeOK
  <2>. QED BY <1>1, <1>2, <2>1 DEF Inv, TypeOK
<1>6. \A y \in Ctx \ {x} : Runs(y) => slot[y] \in Slot \ {i} /\ tasks[slot[y]].state = 2
  BY <1>1, SMT DEF Inv, SlotOwned, TypeOK
<1>7. Runs(x)' /\ ~Runs(x) /\ \A y \in Ctx \ {x} : Runs(y)' <=> Runs(y)
  BY <1>2, <1>4 DEF Runs
<1>8. SlotOwned'
  <2>1. \A y \in Ctx : Runs(y)' => tasks'[slot'[y]].state = 2
    BY <1>3, <1>4, <1>6, <1>7, SMT
  <2>2. \A y, z \in Ctx : Runs(y)' /\ Runs(z)' /\ slot'[y] = slot'[z] => y = z
    BY <1>4, <1>6, <1>7, SMT DEF Inv, SlotOwned
  <2>3. \A k \in Slot : tasks'[k].state = 2 => \E y \in Ctx : Runs(y)' /\ slot'[y] = k
    BY <1>3, <1>4, <1>7, SMT DEF Inv, SlotOwned
  <2>. QED BY <2>1, <2>2, <2>3 DEF SlotOwned
<1>9. SlotJobs'
  BY <1>1, <1>2, <1>3, SMT DEF Inv, SlotJobs
<1>10. ResultWritten'
  <2>1. \A k \in Slot : tasks'[k].state = 1 => results'[tasks'[k].arg] = -1
    BY <1>2, <1>3, SMT DEF Inv, ResultWritten
  <2>2. results'[tasks'[i].arg] = -1
    BY <1>1, <1>2, <1>3 DEF Inv, ResultWritten
  <2>3. \A y \in Ctx \ {x} : Runs(y) => tasks'[slot'[y]] = tasks[slot[y]]
    BY <1>3, <1>4, <1>6, SMT
  <2>. QED BY <1>2, <1>4, <2>1, <2>2, <2>3, SMT DEF Inv, ResultWritten, Runs
<1>11. ShellPhase'
  BY <1>2, <1>4, <1>7 DEF Inv, ShellPhase, Ctx
<1>. QED BY <1>5, <1>8, <1>9, <1>10, <1>11 DEF Inv

LEMMA RunJobInv ==
  ASSUME Inv, NEW x \in Ctx, RunJob(x)
  PROVE  Inv'
<1>. DEFINE j == tasks[slot[x]].arg
<1>1. /\ pc[x] = "fn" /\ Runs(x)
      /\ results' = [results EXCEPT ![j] = CpuOf(x)]
      /\ pc' = [pc EXCEPT ![x] = "end"]
      /\ UNCHANGED <<tasks, next_task_cpu, slot, shell, submitted>>
  BY DEF RunJob, Runs
<1>2. slot[x] \in Slot /\ j \in Job /\ CpuOf(x) \in CPU /\ CpuOf(x) # -1
  BY CpuOfType, QueueAssumption, SMT DEF Inv, TypeOK, CPU
<1>3. TypeOK'
  BY <1>1, <1>2 DEF Inv, TypeOK
<1>4. /\ pc'[x] = "end"
      /\ \A y \in Ctx \ {x} : pc'[y] = pc[y]
      /\ \A y \in Ctx : Runs(y)' <=> Runs(y)
  BY <1>1 DEF Inv, TypeOK, Runs
<1>5. results'[j] # -1 /\ \A k \in Job \ {j} : results'[k] = results[k]
  BY <1>1, <1>2 DEF Inv, TypeOK
<1>6. SlotOwned' /\ SlotJobs'
  BY <1>1, <1>4 DEF Inv, SlotOwned, SlotJobs
<1>7. ResultWritten'
  <2>1. tasks[slot[x]].state = 2
    BY <1>1 DEF Inv, SlotOwned
  <2>2. \A i \in Slot \ {slot[x]} : tasks[i].state # 0 => tasks[i].arg \in Job \ {j}
    BY <1>2, <2>1, SMT DEF Inv, SlotJobs, TypeOK
  <2>3. \A y \in Ctx \ {x} : Runs(y) =>
          slot[y] \in Slot \ {slot[x]} /\ tasks[slot[y]].state # 0
    BY <1>1, SMT DEF Inv, SlotOwned, TypeOK
  <2>4. \A i \in Slot : tasks'[i].state = 1 => results'[tasks'[i].arg] = -1
    BY <1>1, <1>5, <2>1, <2>2, SMT DEF Inv, ResultWritten
  <2>5. \A y \in Ctx \ {x} : Runs(y) =>
          results'[tasks[slot[y]].arg] = results[tasks[slot[y]].arg]
    BY <1>5, <2>2, <2>3
  <2>6. \A y \in Ctx \ {x} : /\ pc'[y] = "fn" => results'[tasks[slot[y]].arg] = -1
                             /\ pc'[y] = "end" => results'[tasks[slot[y]].arg] # -1
    BY <1>4, <2>5 DEF Inv, ResultWritten, Runs
  <2>. QED BY <1>1, <1>4, <1>5, <2>4, <2>6, SMT DEF ResultWritten
<1>8. ShellPhase'
  BY <1>1, <1>4 DEF Inv, ShellPhase, Ctx
<1>. QED BY <1>3, <1>6, <1>7, <1>8 DEF Inv

LEMMA EndStepInv ==
  ASSUME Inv, NEW x \in Ctx, EndStep(x)
  PROVE  Inv'
<1>. DEFINE i == slot[x]
<1>1. /\ pc[x] = "end" /\ Runs(x)
      /\ tasks' = [tasks EXCEPT ![i].state = 0, ![i].cpu_id = CpuOf(x)]
      /\ pc' = [pc EXCEPT ![x] = "look"]
      /\ shell' = IF x = Shell THEN "wait" ELSE shell
      /\ UNCHANGED <<next_task_cpu, results, slot, submitted>>
  BY DEF EndStep, Runs
<1>2. i \in Slot /\ CpuOf(x) \in CPU /\ tasks[i].state = 2
  BY <1>1, CpuOfType DEF Inv, TypeOK, SlotOwned
<1>3. /\ tasks' = [k \in Slot |-> tasks'[k]]
      /\ tasks'[i] = [state |-> 0, cpu_id |-> CpuOf(x), arg |-> tasks[i].arg]
      /\ \A k \in Slot \ {i} : tasks'[k] = tasks[k]
  <2>. DEFINE e == [tasks EXCEPT ![i].state = 0]
              f == [e EXCEPT ![i].cpu_id = CpuOf(x)]
  <2>1. tasks \in [Slot -> [state : 0..2, cpu_id : CPU, arg : Job]]
    BY DEF Inv, TypeOK
  <2>2. /\ e = [k \in Slot |-> e[k]]
        /\ e[i] = [state |-> 0, cpu_id |-> tasks[i].cpu_id, arg |-> tasks[i].arg]
        /\ \A k \in Slot \ {i} : e[k] = tasks[k]
    BY <1>2, <2>1
  <2>3. tasks' = f
    BY <1>1
  <2>. HIDE DEF e
  <2>4. /\ f = [k \in Slot |-> f[k]]
        /\ f[i] = [state |-> 0, cpu_id |-> CpuOf(x), arg |-> tasks[i].arg]
        /\ \A k \in Slot \ {i} : f[k] = tasks[k]
    BY <1>2, <2>2, SMT
  <2>. QED BY <2>3, <2>4
<1>4. /\ tasks'[i].state = 0
      /\ \A k \in Slot \ {i} : tasks'[k] = tasks[k]
      /\ results' = results /\ slot' = slot /\ submitted' = submitted
  <2>1. tasks'[i].state = 0 /\ \A k \in Slot \ {i} : tasks'[k] = tasks[k]
    <3>1. tasks'[i] = [state |-> 0, cpu_id |-> CpuOf(x), arg |-> tasks[i].arg]
      BY <1>3
    <3>2. tasks'[i].state = 0
      BY ONLY <3>1, SMT
    <3>. QED BY <1>3, <3>2
  <2>2. results' = results /\ slot' = slot /\ submitted' = submitted
    BY <1>1
  <2>. QED BY <2>1, <2>2
<1>5. TypeOK'
  <2>1. \A k \in Slot : tasks'[k] \in [state : 0..2, cpu_id : CPU, arg : Job]
    BY <1>2, <1>3, SMT DEF Inv, TypeOK
  <2>2. tasks' \in [Slot -> [state : 0..2, cpu_id : CPU, arg : Job]]
    BY <1>3, <2>1
  <2>. QED BY <1>1, <2>2 DEF Inv, TypeOK
<1>6. ~Runs(x)' /\ \A y \in Ctx \ {x} : (Runs(y)' <=> Runs(y)) /\ pc'[y] = pc[y]
  BY <1>1 DEF Inv, TypeOK, Runs
<1>7. \A y \in Ctx \ {x} : Runs(y) => slot[y] \in Slot \ {i}
  BY <1>1 DEF Inv, SlotOwned, TypeOK
<1>8. SlotOwned' /\ SlotJobs'
  <2>1. SlotOwned'
    BY <1>2, <1>4, <1>6, <1>7, SMT DEF Inv, SlotOwned
  <2>2. SlotJobs'
    BY <1>2, <1>4, SMT DEF Inv, SlotJobs
  <2>. QED BY <2>1, <2>2
<1>9. ResultWritten'
  <2>1. \A k \in Slot : tasks'[k].state = 1 => results'[tasks'[k].arg] = -1
    BY <1>2, <1>4, SMT DEF Inv, ResultWritten
  <2>2. \A y \in Ctx \ {x} : Runs(y) => tasks'[slot'[y]] = tasks[slot[y]]
    BY <1>4, <1>7
  <2>3. pc'[x] = "look"
    BY <1>1 DEF Inv, TypeOK
  <2>. QED BY <1>4, <1>6, <2>1, <2>2, <2>3, SMT DEF Inv, ResultWritten, Runs
<1>10. ShellPhase'
  <2>1. x = Shell => shell = "step" /\ submitted = NTasks
    BY <1>1 DEF Inv, ShellPhase
  <2>2. x # Shell => (Runs(Shell)' <=> Runs(Shell))
    BY <1>6 DEF Ctx
  <2>. QED BY <1>1, <1>6, <2>1, <2>2 DEF Inv, ShellPhase
<1>. QED BY <1>5, <1>8, <1>9, <1>10 DEF Inv

\* The steps that only move the command.
ShellStep == SmpCommand \/ CallWaitAll \/ WaitCheck \/ NothingToDo

LEMMA ShellStepInv == Inv /\ ShellStep => Inv'
<1>. SUFFICES ASSUME Inv, ShellStep PROVE Inv'
  OBVIOUS
<1>. USE DEF ShellStep, SmpCommand, CallWaitAll, WaitCheck, NothingToDo, Looks
<1>1. UNCHANGED <<tasks, next_task_cpu, results, pc, slot>>
  OBVIOUS
<1>2. TypeOK'
  BY <1>1, QueueAssumption, SMT DEF Inv, TypeOK
<1>3. SlotOwned' /\ ResultWritten'
  BY <1>1 DEF Inv, SlotOwned, ResultWritten, Runs
<1>4. SlotJobs'
  <2>1. submitted' = submitted \/ Pending = {}
    OBVIOUS
  <2>2. Pending = {} => \A i \in Slot : tasks[i].state = 0
    BY SMT DEF Pending, Inv, TypeOK
  <2>. QED BY <1>1, <2>1, <2>2 DEF Inv, SlotJobs
<1>5. ShellPhase'
  <2>1. Runs(Shell)' <=> Runs(Shell)
    BY <1>1 DEF Runs
  <2>2. Runs(Shell) => shell = "step" /\ pc[Shell] # "look"
    BY DEF Inv, ShellPhase, Runs
  <2>. QED BY <2>1, <2>2 DEF Inv, ShellPhase
<1>. QED BY <1>2, <1>3, <1>4, <1>5 DEF Inv

LEMMA NextInv == Inv /\ [Next]_vars => Inv'
<1>. SUFFICES ASSUME Inv, [Next]_vars PROVE Inv'
  OBVIOUS
<1>1. CASE UNCHANGED vars
  BY <1>1, SMT DEF vars, Inv, TypeOK, SlotOwned, SlotJobs, ResultWritten, ShellPhase,
              Runs
<1>2. CASE ShellStep
  BY <1>2, ShellStepInv
<1>3. CASE SubmitJob
  BY <1>3, SubmitJobInv
<1>4. ASSUME NEW x \in Ctx, Claim(x) \/ RunJob(x) \/ EndStep(x)
      PROVE  Inv'
  BY <1>4, ClaimInv, RunJobInv, EndStepInv
<1>. QED BY <1>1, <1>2, <1>3, <1>4 DEF Next, ShellStep

\* The inductive invariant of the work queue.
THEOREM Safety == Spec => []Inv
<1>1. Inv /\ [Next]_vars => Inv'
  BY NextInv
<1>. QED BY <1>1, InitInv, PTL DEF Spec

\* The slots, the contexts and the shell keep their types, the round-robin
\* CPU number its range (scheduler.c:37-39).
THEOREM TypeCorrect == Spec => []TypeOK
<1>1. Inv => TypeOK
  BY DEF Inv
<1>. QED BY <1>1, Safety, PTL

\* A claimed slot belongs to one context from scheduler_step's first unlock to
\* its second (scheduler.c:85-95).
THEOREM ClaimsAreExclusive == Spec => []ClaimExclusive
<1>1. Inv => ClaimExclusive
  BY DEF Inv, SlotOwned, ClaimExclusive
<1>. QED BY <1>1, Safety, PTL

\* When the command is back at the prompt no job is queued or running, so
\* nobody writes into its dead stack frame (kernel.c:481-499).
THEOREM NoLateWorker == Spec => []FrameAlive
<1>1. Inv => FrameAlive
  <2>. SUFFICES ASSUME Inv, shell = "prompt"
                PROVE  Pending = {} /\ \A x \in Ctx : ~Runs(x)
    BY DEF FrameAlive
  <2>1. \A i \in Slot : tasks[i].state = 0
    BY SMT DEF Inv, SlotJobs, ShellPhase, TypeOK, Job
  <2>. QED BY <2>1, SMT DEF Pending, Inv, SlotOwned, TypeOK
<1>. QED BY <1>1, Safety, PTL

\* When the table has at least as many slots as the command has jobs (64 and 4
\* in the code), scheduler_submit never finds it full, however late the jobs
\* are finished: the slots in use hold different jobs among those already
\* submitted.
THEOREM SubmitFindsSlot ==
  ASSUME NTasks <= MaxTasks
  PROVE  Spec => []NeverFull
<1>1. ASSUME Inv, shell = "submit", submitted < NTasks
      PROVE  Free # {}
  <2>. SUFFICES ASSUME Free = {} PROVE FALSE
    OBVIOUS
  <2>. DEFINE f == [i \in Slot |-> tasks[i].arg]
  <2>1. submitted \in Nat /\ MaxTasks \in Nat /\ submitted < MaxTasks
    BY <1>1, QueueAssumption, SMT DEF Inv, TypeOK
  <2>2. \A i \in Slot : tasks[i].state # 0 /\ tasks[i].arg \in Job
    BY <1>1 DEF Free, Inv, TypeOK
  <2>3. \A i \in Slot : tasks[i].arg \in 1..submitted
    BY <1>1, <2>1, <2>2, SMT DEF Inv, SlotJobs, Job
  <2>4. f \in [Slot -> 1..submitted]
    BY <2>3
  <2>5. \A i, k \in Slot : f[i] = f[k] => i = k
    BY <1>1, <2>2 DEF Inv, SlotJobs
  <2>6. /\ IsFiniteSet(Slot) /\ Cardinality(Slot) = MaxTasks
        /\ IsFiniteSet(1..submitted) /\ Cardinality(1..submitted) = submitted
    BY <2>1, FS_Interval, SMT DEF Slot
  <2>. HIDE DEF f
  <2>7. \E i, k \in Slot : i # k /\ f[i] = f[k]
    BY <2>1, <2>4, <2>6, FS_PigeonHole
  <2>. QED BY <2>5, <2>7
<1>2. Inv => NeverFull
  BY <1>1 DEF NeverFull
<1>. QED BY <1>2, Safety, PTL

-----------------------------------------------------------------------------
(* Refinement *)

Queued(j) == \E i \in Slot : tasks[i].state = 1 /\ tasks[i].arg = j

Running(j) == \E x \in Ctx : pc[x] = "fn" /\ tasks[slot[x]].arg = j

Jobs == [j \in Job |-> JobOf(j)]

\* What happens to the jobs when a step changes only job j.
OnlyJob(j, s) == JobOf(j)' = s /\ \A k \in Job \ {j} : JobOf(k)' = JobOf(k)

LEMMA JobCases ==
  ASSUME NEW j \in Job
  PROVE  JobOf(j) = IF j > submitted THEN "none"
                    ELSE IF Queued(j) THEN "queued"
                    ELSE IF Running(j) THEN "running"
                    ELSE IF results[j] # -1 THEN "done"
                    ELSE "rejected"
BY DEF JobOf, Queued, Running

LEMMA JobCasesPrime ==
  ASSUME NEW j \in Job
  PROVE  JobOf(j)' = IF j > submitted' THEN "none"
                     ELSE IF Queued(j)' THEN "queued"
                     ELSE IF Running(j)' THEN "running"
                     ELSE IF results'[j] # -1 THEN "done"
                     ELSE "rejected"
BY DEF JobOf, Queued, Running

LEMMA OnlyJobChange ==
  ASSUME NEW j \in Job, NEW s, OnlyJob(j, s)
  PROVE  Jobs' = [Jobs EXCEPT ![j] = s]
BY DEF OnlyJob, Jobs

LEMMA SubmitRefines ==
  ASSUME Inv, SubmitJob
  PROVE  \E j \in Job : Pool!Submit(j)
<1>0. PICK j \in Job : j = submitted + 1
  BY QueueAssumption, SMT DEF SubmitJob, Inv, TypeOK, Job
<1>1. /\ shell = "submit" /\ submitted < NTasks /\ submitted' = j
      /\ results' = [results EXCEPT ![j] = -1]
      /\ UNCHANGED <<pc, slot, shell>>
  BY <1>0 DEF SubmitJob
<1>2. j = submitted + 1 /\ submitted \in Nat
  BY <1>0, SMT DEF Inv, TypeOK
<1>3. JobOf(j) = "none"
  BY <1>2, JobCases, SMT
<1>4. /\ results'[j] = -1
      /\ \A k \in Job \ {j} : results'[k] = results[k] /\ (k > submitted' <=> k > submitted)
  BY <1>1, <1>2, SMT DEF Inv, TypeOK, Job
<1>5. \A y \in Ctx : pc[y] = "fn" => slot[y] \in Slot \ Free
  BY SMT DEF Inv, SlotOwned, Runs, TypeOK, Free
<1>6. CASE Free = {}
  <2>1. tasks' = tasks
    BY <1>6 DEF SubmitJob
  <2>2. ~Queued(j) /\ ~Running(j)
    <3>1. \A k \in Slot : tasks[k].state # 0 => tasks[k].arg # j
      BY <1>2, SMT DEF Inv, SlotJobs, TypeOK, Job
    <3>2. \A y \in Ctx : pc[y] = "fn" => slot[y] \in Slot /\ tasks[slot[y]].state = 2
      BY DEF Inv, SlotOwned, Runs, TypeOK
    <3>. QED BY <3>1, <3>2, SMT DEF Queued, Running
  <2>3. \A k \in Job : (Queued(k)' <=> Queued(k)) /\ (Running(k)' <=> Running(k))
    BY <1>1, <2>1 DEF Queued, Running
  <2>4. JobOf(j)' = "rejected"
    BY <1>1, <1>2, <1>4, <2>2, <2>3, JobCasesPrime, SMT
  <2>5. \A k \in Job \ {j} : JobOf(k)' = JobOf(k)
    BY <1>4, <2>3, JobCases, JobCasesPrime
  <2>6. Jobs' = [Jobs EXCEPT ![j] = "rejected"]
    BY <1>2, <2>4, <2>5, OnlyJobChange DEF OnlyJob
  <2>. QED BY <1>1, <1>2, <1>3, <2>6 DEF Pool!Submit, Jobs, Phase
<1>7. CASE Free # {}
  <2>1. PICK i \in Slot : i \in Free /\ i = First(Free)
    BY <1>7, FirstResult DEF Free
  <2>2. /\ tasks' = [tasks EXCEPT ![i] = [state |-> 1, cpu_id |-> next_task_cpu, arg |-> j]]
    BY <1>2, <1>7, <2>1 DEF SubmitJob
  <2>3. /\ tasks'[i].state = 1 /\ tasks'[i].arg = j /\ tasks[i].state = 0
        /\ \A k \in Slot \ {i} : tasks'[k] = tasks[k]
    BY <2>1, <2>2 DEF Inv, TypeOK, Free
  <2>4. Queued(j)'
    BY <2>1, <2>3 DEF Queued
  <2>5. \A k \in Job \ {j} : Queued(k)' <=> Queued(k)
    BY <2>1, <2>3, SMT DEF Queued
  <2>6. \A k \in Job \ {j} : Running(k)' <=> Running(k)
    BY <1>1, <1>5, <2>1, <2>3 DEF Running
  <2>7. JobOf(j)' = "queued"
    BY <1>1, <1>2, <2>4, JobCasesPrime, SMT
  <2>8. \A k \in Job \ {j} : JobOf(k)' = JobOf(k)
    BY <1>4, <2>5, <2>6, JobCases, JobCasesPrime
  <2>9. Jobs' = [Jobs EXCEPT ![j] = "queued"]
    BY <1>2, <2>7, <2>8, OnlyJobChange DEF OnlyJob
  <2>. QED BY <1>1, <1>2, <1>3, <2>9 DEF Pool!Submit, Jobs, Phase
<1>. QED BY <1>6, <1>7

LEMMA ClaimRefines ==
  ASSUME Inv, NEW x \in Ctx, Claim(x)
  PROVE  \E j \in Job : Pool!Start(j)
<1>0. PICK i \in Slot : i \in Claimable(x) /\ i = First(Claimable(x))
  BY FirstResult DEF Claim, Claimable
<1>1. /\ pc[x] = "look"
      /\ tasks' = [tasks EXCEPT ![i].state = 2]
      /\ slot' = [slot EXCEPT ![x] = i]
      /\ pc' = [pc EXCEPT ![x] = "fn"]
      /\ UNCHANGED <<next_task_cpu, results, shell, submitted>>
  BY <1>0 DEF Claim, Looks
<1>2. tasks[i].state = 1
  BY <1>0 DEF Claimable
<1>3. PICK j \in Job : j = tasks[i].arg /\ j <= submitted /\ submitted \in Nat
  BY <1>2, SMT DEF Inv, TypeOK, SlotJobs
<1>4. /\ tasks'[i].state = 2 /\ tasks'[i].arg = j
      /\ \A k \in Slot \ {i} : tasks'[k] = tasks[k]
  BY <1>1, <1>3 DEF Inv, TypeOK
<1>5. /\ pc'[x] = "fn" /\ slot'[x] = i
      /\ \A y \in Ctx \ {x} : pc'[y] = pc[y] /\ slot'[y] = slot[y]
  BY <1>1 DEF Inv, TypeOK
<1>6. \A y \in Ctx : pc[y] = "fn" => slot[y] \in Slot \ {i}
  BY <1>2, SMT DEF Inv, SlotOwned, Runs, TypeOK
<1>7. \A k \in Slot \ {i} : tasks[k].state # 0 => tasks[k].arg # j
  BY <1>2, <1>3, SMT DEF Inv, SlotJobs
<1>8. Queued(j) /\ ~Queued(j)' /\ Running(j)'
  BY <1>2, <1>3, <1>4, <1>5, <1>7, SMT DEF Queued, Running
<1>9. \A k \in Job \ {j} : Queued(k)' <=> Queued(k)
  BY <1>2, <1>3, <1>4 DEF Queued
<1>10. \A k \in Job \ {j} : Running(k)' <=> Running(k)
  BY <1>1, <1>4, <1>5, <1>6, SMT DEF Running
<1>11. JobOf(j) = "queued" /\ JobOf(j)' = "running"
  <2>1. ~(j > submitted) /\ submitted' = submitted
    BY <1>1, <1>3, SMT DEF Job
  <2>. QED BY <1>8, <2>1, JobCases, JobCasesPrime
<1>12. \A k \in Job \ {j} : JobOf(k)' = JobOf(k)
  BY <1>1, <1>9, <1>10, JobCases, JobCasesPrime
<1>13. Jobs' = [Jobs EXCEPT ![j] = "running"]
  BY <1>3, <1>11, <1>12, OnlyJobChange DEF OnlyJob
<1>14. Phase' = Phase
  BY <1>1 DEF Phase
<1>. QED BY <1>3, <1>11, <1>13, <1>14 DEF Pool!Start, Jobs

LEMMA RunRefines ==
  ASSUME Inv, NEW x \in Ctx, RunJob(x)
  PROVE  \E j \in Job : Pool!Finish(j)
<1>0. PICK i \in Slot : i = slot[x]
  BY DEF Inv, TypeOK
<1>1. /\ pc[x] = "fn" /\ Runs(x)
      /\ results' = [results EXCEPT ![tasks[i].arg] = CpuOf(x)]
      /\ pc' = [pc EXCEPT ![x] = "end"]
      /\ UNCHANGED <<tasks, next_task_cpu, slot, shell, submitted>>
  BY <1>0 DEF RunJob, Runs
<1>2. tasks[i].state = 2
  BY <1>0, <1>1 DEF Inv, SlotOwned
<1>3. PICK j \in Job : j = tasks[i].arg /\ j <= submitted /\ submitted \in Nat
  BY <1>2, SMT DEF Inv, TypeOK, SlotJobs
<1>4. results'[j] # -1 /\ \A k \in Job \ {j} : results'[k] = results[k]
  BY <1>1, <1>3, CpuOfType, QueueAssumption, SMT DEF Inv, TypeOK, CPU
<1>5. pc'[x] = "end" /\ \A y \in Ctx \ {x} : pc'[y] = pc[y]
  BY <1>1 DEF Inv, TypeOK
<1>6. \A k \in Slot \ {i} : tasks[k].state # 0 => tasks[k].arg # j
  BY <1>2, <1>3, SMT DEF Inv, SlotJobs
<1>7. \A y \in Ctx \ {x} : pc[y] = "fn" => slot[y] \in Slot \ {i} /\ tasks[slot[y]].state = 2
  BY <1>0, <1>1 DEF Inv, SlotOwned, Runs, TypeOK
<1>8. ~Queued(j) /\ Running(j)
  BY <1>0, <1>1, <1>2, <1>3, <1>6, SMT DEF Queued, Running
<1>9. \A k \in Job : Queued(k)' <=> Queued(k)
  BY <1>1 DEF Queued
<1>10. ~Running(j)'
  BY <1>1, <1>5, <1>6, <1>7, SMT DEF Running
<1>11. \A k \in Job \ {j} : Running(k)' <=> Running(k)
  BY <1>0, <1>1, <1>3, <1>5 DEF Running
<1>12. JobOf(j) = "running" /\ JobOf(j)' = "done"
  <2>1. ~(j > submitted) /\ submitted' = submitted
    BY <1>1, <1>3, SMT DEF Job
  <2>. QED BY <1>4, <1>8, <1>9, <1>10, <2>1, JobCases, JobCasesPrime
<1>13. \A k \in Job \ {j} : JobOf(k)' = JobOf(k)
  BY <1>1, <1>4, <1>9, <1>11, JobCases, JobCasesPrime, SMT
<1>14. Jobs' = [Jobs EXCEPT ![j] = "done"]
  BY <1>12, <1>13, OnlyJobChange DEF OnlyJob
<1>15. Phase' = Phase
  BY <1>1 DEF Phase
<1>. QED BY <1>12, <1>14, <1>15 DEF Pool!Finish, Jobs

LEMMA EndRefines ==
  ASSUME Inv, NEW x \in Ctx, EndStep(x)
  PROVE  Jobs' = Jobs /\ Phase' = Phase
<1>0. PICK i \in Slot : i = slot[x]
  BY DEF Inv, TypeOK
<1>1. /\ pc[x] = "end" /\ Runs(x)
      /\ pc' = [pc EXCEPT ![x] = "look"]
      /\ shell' = IF x = Shell THEN "wait" ELSE shell
      /\ UNCHANGED <<results, slot, submitted>>
  BY DEF EndStep, Runs
<1>2. tasks[i].state = 2
  BY <1>0, <1>1 DEF Inv, SlotOwned
<1>3. tasks'[i].state = 0 /\ \A k \in Slot \ {i} : tasks'[k] = tasks[k]
  <2>1. tasks' = [tasks EXCEPT ![i].state = 0, ![i].cpu_id = CpuOf(x)]
    BY <1>0 DEF EndStep
  <2>. QED BY <2>1 DEF Inv, TypeOK
<1>4. pc'[x] = "look" /\ \A y \in Ctx \ {x} : pc'[y] = pc[y]
  BY <1>1 DEF Inv, TypeOK
<1>5. \A y \in Ctx \ {x} : pc[y] = "fn" => slot[y] \in Slot \ {i}
  BY <1>0, <1>1 DEF Inv, SlotOwned, Runs, TypeOK
<1>6. \A k \in Job : Queued(k)' <=> Queued(k)
  BY <1>2, <1>3, SMT DEF Queued
<1>7. \A k \in Job : Running(k)' <=> Running(k)
  BY <1>1, <1>3, <1>4, <1>5, SMT DEF Running
<1>8. \A k \in Job : JobOf(k)' = JobOf(k)
  BY <1>1, <1>6, <1>7, JobCases, JobCasesPrime
<1>9. x = Shell => shell = "step"
  BY <1>1 DEF Inv, ShellPhase
<1>10. Phase' = Phase
  BY <1>1, <1>9 DEF Phase
<1>. QED BY <1>8, <1>10 DEF Jobs

\* Steps that leave the table alone leave the jobs alone while the count of
\* submitted jobs stays.
LEMMA ShellRefines ==
  ASSUME Inv, ShellStep
  PROVE  Pool!Begin \/ Pool!StartWaiting \/ Pool!Return \/ (Jobs' = Jobs /\ Phase' = Phase)
<1>. USE DEF ShellStep, SmpCommand, CallWaitAll, WaitCheck, NothingToDo, Looks
<1>1. UNCHANGED <<tasks, results, pc, slot>>
  OBVIOUS
<1>2. \A k \in Job : (Queued(k)' <=> Queued(k)) /\ (Running(k)' <=> Running(k))
  BY <1>1 DEF Queued, Running
<1>3. submitted' = submitted => Jobs' = Jobs
  <2>1. submitted' = submitted => \A k \in Job : JobOf(k)' = JobOf(k)
    BY <1>1, <1>2, JobCases, JobCasesPrime
  <2>. QED BY <2>1 DEF Jobs
<1>4. CASE SmpCommand
  BY <1>3, <1>4 DEF Pool!Begin, Jobs, Phase
<1>5. CASE CallWaitAll
  <2>1. \A k \in Job : ~(k > submitted)
    BY <1>5, QueueAssumption, SMT DEF Job
  <2>2. \A k \in Job : JobOf(k) # "none"
    BY <2>1, JobCases
  <2>. QED BY <1>3, <1>5, <2>2 DEF Pool!StartWaiting, Jobs, Phase
<1>6. CASE NothingToDo
  BY <1>3, <1>6 DEF Phase
<1>7. CASE WaitCheck /\ Pending # {}
  BY <1>3, <1>7 DEF Phase
<1>8. CASE WaitCheck /\ Pending = {}
  <2>1. \A i \in Slot : tasks[i].state = 0
    BY <1>8, SMT DEF Pending, Inv, TypeOK
  <2>2. \A k \in Job : ~Queued(k) /\ ~Running(k)
    BY <2>1, SMT DEF Queued, Running, Inv, SlotOwned, Runs, TypeOK
  <2>3. submitted = NTasks /\ submitted' = 0 /\ shell = "wait" /\ shell' = "prompt"
    BY <1>8 DEF Inv, ShellPhase
  <2>4. \A k \in Job : ~(k > submitted) /\ k > submitted'
    BY <2>3, QueueAssumption, SMT DEF Job
  <2>5. \A k \in Job : JobOf(k) \in {"done", "rejected"} /\ JobOf(k)' = "none"
    BY <2>2, <2>4, JobCases, JobCasesPrime
  <2>. QED BY <2>3, <2>5 DEF Pool!Return, Jobs, Phase
<1>. QED BY <1>4, <1>5, <1>6, <1>7, <1>8

\* The table, the lock and the polling wait of scheduler.c implement the
\* abstract pool: each accepted job runs exactly once, and the command returns
\* only when all of them have finished.
THEOREM QueueRefinesPool == Spec => ImplementsPool
<1>1. Init => Pool!PoolInit
  <2>. SUFFICES ASSUME Init PROVE Pool!PoolInit
    OBVIOUS
  <2>1. \A k \in Job : k > submitted
    BY SMT DEF Init, Job
  <2>2. \A k \in Job : JobOf(k) = "none"
    BY <2>1, JobCases
  <2>. QED BY <2>2 DEF Pool!PoolInit, Init, Phase
<1>2. Inv /\ [Next]_vars => [Pool!PoolNext]_(Pool!poolVars)
  <2>. SUFFICES ASSUME Inv, [Next]_vars
                PROVE  Pool!PoolNext \/ UNCHANGED Pool!poolVars
    OBVIOUS
  <2>. USE DEF Pool!PoolNext, Pool!poolVars
  <2>1. Jobs' = Jobs /\ Phase' = Phase => UNCHANGED Pool!poolVars
    BY DEF Jobs
  <2>2. CASE UNCHANGED vars
    <3>1. \A k \in Job : JobOf(k)' = JobOf(k)
      BY <2>2 DEF vars, JobOf
    <3>2. Jobs' = Jobs /\ Phase' = Phase
      BY <2>2, <3>1 DEF vars, Jobs, Phase
    <3>. QED BY <2>1, <3>2
  <2>3. CASE ShellStep
    BY <2>1, <2>3, ShellRefines
  <2>4. CASE SubmitJob
    BY <2>4, SubmitRefines
  <2>5. ASSUME NEW x \in Ctx, Claim(x) PROVE Pool!PoolNext
    BY <2>5, ClaimRefines
  <2>6. ASSUME NEW x \in Ctx, RunJob(x) PROVE Pool!PoolNext
    BY <2>6, RunRefines
  <2>7. ASSUME NEW x \in Ctx, EndStep(x) PROVE UNCHANGED Pool!poolVars
    BY <2>1, <2>7, EndRefines
  <2>. QED BY <2>2, <2>3, <2>4, <2>5, <2>6, <2>7 DEF Next, ShellStep
<1>. QED BY <1>1, <1>2, Safety, PTL DEF Spec, ImplementsPool, Pool!PoolSpec
=============================================================================
