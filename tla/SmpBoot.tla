------------------------------ MODULE SmpBoot ------------------------------
(***************************************************************************)
(* How the CPUs enter the task manager: start_aps and ap_main of           *)
(* kernel/ap_startup.c and the end of kernel_main. The timer has been      *)
(* ticking since init_idt, and a CPU that entered its idle task already    *)
(* schedules while the others are still on their way.                      *)
(*                                                                         *)
(* An AP runs with interrupts off until the iret into its idle task (pc    *)
(* "boot"). The BSP boots with interrupts on (pc "run"); it has no current *)
(* task at first, so its ticks only send the reschedule IPI. A CPU on its  *)
(* boot stack has onStack NoTask.                                          *)
(***************************************************************************)
EXTENDS TaskSched

VARIABLES
  boot,      \* per CPU: the next step of its boot code
  toStart,   \* the APs start_aps has not started yet
  bspEsp     \* what kernel_esp of the BSP's idle task points at: the frame
             \* task_create made ("entry"), the boot stack ("boot"), or a
             \* context saved on the task's own stack ("own")

bootVars == <<boot, toStart, bspEsp>>

allVars == <<vars, bootVars>>

\* The CPUs start_aps loops over.
ApsToStart == CPU \ {BSP}

\* The boot code of CPU c is executing, at step l.
Boots(c, l) == boot[c] = l /\ pc[c] \in {"run", "boot"} /\ onStack[c] = NoTask

Then(c, l) == boot' = [boot EXCEPT ![c] = l]

\* One turn of the loop in start_aps, in the order of cpu_info[]: INIT and
\* SIPI, then a delay and no handshake.
StartAp ==
  /\ Boots(BSP, "start")
  /\ \E c \in toStart :
       /\ \A d \in toStart : c <= d
       /\ toStart' = toStart \ {c}
       /\ Then(c, "create")
  /\ UNCHANGED <<vars, bspEsp>>

ApsStarted ==
  /\ Boots(BSP, "start")
  /\ toStart = {}
  /\ Then(BSP, "create")
  /\ UNCHANGED <<vars, toStart, bspEsp>>

\* task_create, which takes sched_lock: the new task is READY and free for
\* any CPU.
TaskCreate(t) ==
  /\ sched_lock = NoCpu
  /\ ring' = IF ring = <<>> THEN <<t>> ELSE RingInsert(t)
  /\ state' = [state EXCEPT ![t] = "READY"]
  /\ stack' = [stack EXCEPT ![t] = TRUE]
  /\ UNCHANGED <<cpu_assigned, wakeup_tick, current_task, sched_lock,
                 tick_count, ipi, pc, call, onStack, toStart, bspEsp>>

CreateIdle(c) ==
  /\ Boots(c, "create")
  /\ TaskCreate(Idle[c])
  /\ Then(c, "state")

\* The plain stores after task_create, without sched_lock: state, then
\* cpu_assigned and current_task.
MarkRunning(c) ==
  /\ Boots(c, "state")
  /\ state' = [state EXCEPT ![Idle[c]] = "RUNNING"]
  /\ Then(c, "assign")
  /\ UNCHANGED <<ring, cpu_assigned, wakeup_tick, stack, current_task,
                 sched_lock, tick_count, ipi, pc, call, onStack, toStart,
                 bspEsp>>

Assign(c) ==
  /\ Boots(c, "assign")
  /\ cpu_assigned' = [cpu_assigned EXCEPT ![Idle[c]] = c]
  /\ current_task' = [current_task EXCEPT ![c] = Idle[c]]
  /\ Then(c, IF c = BSP THEN "shell" ELSE "iret")
  /\ UNCHANGED <<ring, state, wakeup_tick, stack, sched_lock, tick_count, ipi,
                 pc, call, onStack, toStart, bspEsp>>

CreateShell ==
  /\ Boots(BSP, "shell")
  /\ TaskCreate(Shell)
  /\ Then(BSP, "iret")

\* cli, load of the idle task's kernel_esp, iret. If that pointer leads back
\* into the boot stack, the frame it points at is dead: nothing is modelled
\* after that.
EnterIdle(c) ==
  /\ Boots(c, "iret")
  /\ Then(c, "done")
  /\ IF c = BSP /\ bspEsp = "boot"
     THEN Goto(c, "fault") /\ UNCHANGED onStack
     ELSE Goto(c, "run") /\ onStack' = [onStack EXCEPT ![c] = Idle[c]]
  /\ UNCHANGED <<ring, state, cpu_assigned, wakeup_tick, stack, current_task,
                 sched_lock, tick_count, ipi, call, toStart, bspEsp>>

\* A tick on the BSP before it has a current task: task_switch_tick returns.
EarlyTick ==
  /\ pc[BSP] = "run"
  /\ current_task[BSP] = NoTask
  /\ tick_count' = TickAfter(1)
  /\ ipi' = [c \in CPU |-> (c # BSP /\ boot[c] \in {"iret", "done"}) \/ ipi[c]]
  /\ UNCHANGED <<ring, state, cpu_assigned, wakeup_tick, stack, current_task,
                 sched_lock, pc, call, onStack, bootVars>>

\* task_switch_from saves the interrupted context in kernel_esp, also when
\* that context is the boot code.
SavesEsp(c) ==
  bspEsp' = IF current_task[c] # Idle[BSP] THEN bspEsp
            ELSE IF onStack[c] = NoTask THEN "boot"
            ELSE "own"

Tick ==
  /\ current_task[BSP] # NoTask
  /\ TimerTick
  /\ SavesEsp(BSP)
  /\ UNCHANGED <<boot, toStart>>

Resched(c) == ReschedIpi(c) /\ SavesEsp(c) /\ UNCHANGED <<boot, toStart>>

\* LoadEsp, which leads back to the boot stack if kernel_esp was saved there.
BootLoadEsp(c) ==
  /\ pc[c] = "return"
  /\ onStack' = [onStack EXCEPT ![c] =
       IF current_task[c] = Idle[BSP] /\ bspEsp = "boot" THEN NoTask
       ELSE current_task[c]]
  /\ Goto(c, "run")
  /\ UNCHANGED <<ring, state, cpu_assigned, wakeup_tick, stack, current_task,
                 sched_lock, tick_count, ipi, call, bootVars>>

\* kernel_main at the call of start_aps.
BootInit ==
  /\ ring = <<>>
  /\ state = [t \in Task |-> "NONE"]
  /\ cpu_assigned = [t \in Task |-> NoCpu]
  /\ wakeup_tick = [t \in Task |-> 0]
  /\ stack = [t \in Task |-> FALSE]
  /\ current_task = [c \in CPU |-> NoTask]
  /\ sched_lock = NoCpu
  /\ tick_count = 0
  /\ ipi = [c \in CPU |-> FALSE]
  /\ pc = [c \in CPU |-> IF c = BSP THEN "run" ELSE "boot"]
  /\ call = [c \in CPU |-> Quiet]
  /\ onStack = [c \in CPU |-> NoTask]
  /\ boot = [c \in CPU |-> IF c = BSP THEN "start" ELSE "off"]
  /\ toStart = ApsToStart
  /\ bspEsp = "entry"

BootNext ==
  \/ StartAp
  \/ ApsStarted
  \/ CreateShell
  \/ EarlyTick
  \/ Tick
  \/ \E c \in CPU :
       \/ CreateIdle(c)
       \/ MarkRunning(c)
       \/ Assign(c)
       \/ EnterIdle(c)
       \/ Resched(c)
       \/ Acquire(c) /\ UNCHANGED bootVars
       \/ Switch(c) /\ UNCHANGED bootVars
       \/ BootLoadEsp(c)

BootSpec == BootInit /\ [][BootNext]_allVars

-----------------------------------------------------------------------------
(* Properties *)

\* No two CPUs execute on the stack of the same task: loading the idle task's
\* kernel_esp before the iret "ensures the idle task runs on its own allocated
\* stack, preventing stack sharing when SMP task migration occurs"
\* (ap_startup.c:75-77).
OwnIdleStack ==
  \A c, d \in CPU : c # d /\ onStack[c] = onStack[d] => onStack[c] = NoTask
=============================================================================
