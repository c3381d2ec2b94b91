------------------------------ MODULE TaskSched ------------------------------
(***************************************************************************)
(* The preemptive SMP task manager: kernel/task.c, the timer and           *)
(* reschedule interrupts (kernel/cpu/timer.c, kernel/cpu/interrupt.S), the *)
(* system calls that switch tasks (SYS_EXIT, SYS_SLEEP_MS and SYS_YIELD of *)
(* kernel/elf.c), and the two shell commands that change the task ring     *)
(* (exec and kill).                                                        *)
(*                                                                         *)
(* Everything the code does under sched_lock is one step taken while the   *)
(* lock is held; taking the lock, and loading the new stack pointer after  *)
(* it was released, are steps of their own, so other CPUs run in between.  *)
(* Interrupts are off from the entry of an interrupt or system call to its *)
(* iret, so a CPU is interrupted only when its pc is "run".                *)
(***************************************************************************)
EXTENDS Naturals, Sequences

CONSTANTS
  CPU,        \* indices of cpu_info[]
  BSP,        \* the CPU that receives IRQ0
  Task,       \* task_t frames: the idle tasks, the shell, user tasks
  Idle,       \* the idle task of each CPU
  Shell,      \* the task running shell_main
  BootRing,   \* the task ring as kernel_main leaves it
  Loadable,   \* the tasks whose page directory maps the kernel: in the code
              \* all but the programs, elf_exec removes it from theirs
  Killable,   \* the tasks whose pid is typed after "kill"
  Syscalls,   \* which switching system calls the user programs make
  TickMod,    \* tick_count wraps here (2^32 in the code)
  MaxSleep,   \* longest SYS_SLEEP_MS, in ticks
  NoTask,     \* a null task_t pointer
  NoCpu       \* cpu_assigned = -1; also the owner of a free sched_lock

User == Task \ ({Shell} \cup {Idle[c] : c \in CPU})

ASSUME TaskAssumption ==
  /\ BSP \in CPU
  /\ Idle \in [CPU -> Task]
  /\ \A c, d \in CPU : Idle[c] = Idle[d] => c = d
  /\ Shell \in Task \ {Idle[c] : c \in CPU}
  /\ BootRing \in Seq(Task)
  /\ \A t \in Task :
       (\E i \in 1..Len(BootRing) : BootRing[i] = t) <=> t \notin User
  /\ \A i, j \in 1..Len(BootRing) : BootRing[i] = BootRing[j] => i = j
  /\ Loadable \subseteq Task
  /\ Killable \subseteq Task
  /\ Syscalls \subseteq {"yield", "sleep", "exit"}
  /\ TickMod \in Nat \ {0}
  /\ MaxSleep \in Nat
  /\ NoTask \notin Task
  /\ NoCpu \notin CPU

VARIABLES
  ring,         \* the circular list, ready_head first
  state,        \* task_t.state; "NONE" is a frame not allocated yet
  cpu_assigned, \* task_t.cpu_assigned
  wakeup_tick,  \* task_t.wakeup_tick
  stack,        \* the task owns the frames of its kernel stack
  current_task, \* cpu_info[].current_task
  sched_lock,   \* the CPU holding sched_lock
  tick_count,   \* timer.c's tick counter
  ipi,          \* reschedule IPI (vector 0x51) pending at the CPU
  pc,           \* where the CPU is: see PcValue
  call,         \* what it wants to do under sched_lock
  onStack       \* the task whose kernel stack the CPU executes on

vars == <<ring, state, cpu_assigned, wakeup_tick, stack, current_task,
          sched_lock, tick_count, ipi, pc, call, onStack>>

TaskState == {"NONE", "FREE", "READY", "RUNNING", "BLOCKED"}

\* "run": a task executes with interrupts on; "spin": spinning on sched_lock;
\* "locked": holding it; "return": lock released, stack pointer of the next
\* task not loaded yet; "fault": isr128 loaded a null stack pointer; "lost":
\* the CPU loaded a page directory in which it finds no code.
PcValue == {"run", "spin", "locked", "return", "fault", "lost"}

\* "READY" and "BLOCKED" are task_switch_from's new_state.
Op == {"READY", "BLOCKED", "exit", "exec", "kill"}

-----------------------------------------------------------------------------
(* Helpers *)

ScanAfter_Head(t) == ring

\* The circular order that starts after t and ends with t.
ScanAfter(t) ==
  LET k == CHOOSE i \in 1..Len(ring) : ring[i] = t
  IN  SubSeq(ring, k + 1, Len(ring)) \o SubSeq(ring, 1, k)

\* The first element of seq that is in S, NoTask if there is none.
FirstIn(seq, S) ==
  LET hits == {i \in 1..Len(seq) : seq[i] \in S}
  IN  IF hits = {} THEN NoTask
      ELSE seq[CHOOSE i \in hits : \A j \in hits : i <= j]

\* Unsigned addition to tick_count.
TickAfter(n) == (tick_count + n) % TickMod

Eligible_AnyCpu(t, c, st, ca) == st[t] = "READY"

Eligible_NotBusy(t, c, st, ca) ==
  st[t] \notin {"RUNNING", "BLOCKED"} /\ ca[t] \in {NoCpu, c}

Eligible_Fresh(t, c, st, ca) == st[t] = "READY" /\ ca[t] = NoCpu

\* The test of pick_next_locked; kernel_esp is set before a task enters the
\* ring and never cleared, so that conjunct of the code always holds.
Eligible(t, c, st, ca) == st[t] = "READY" /\ ca[t] \in {NoCpu, c}

\* pick_next_locked: first eligible task after the current one, the current
\* one last.
PickNext(c, st, ca) ==
  FirstIn(ScanAfter(current_task[c]), {t \in Task : Eligible(t, c, st, ca)})

RingInsert_LosesHead(t) == <<t>> \o SubSeq(ring, 2, Len(ring))

\* Insertion behind ready_head (task_create, elf_exec).
RingInsert(t) == SubSeq(ring, 1, 1) \o <<t>> \o SubSeq(ring, 2, Len(ring))

\* The unlinking in task_kill.
RingRemove(t) ==
  LET k == CHOOSE i \in 1..Len(ring) : ring[i] = t
  IN  SubSeq(ring, 1, k - 1) \o SubSeq(ring, k + 1, Len(ring))

InRing(t) == \E i \in 1..Len(ring) : ring[i] = t

-----------------------------------------------------------------------------
(* Interrupts and system calls: from "run" to the entry of sched_lock *)

\* isr128 has popped its registers and iret frame from address 0, or the CPU
\* cannot fetch its next instruction: nothing is modelled after that.
Faulted == \E c \in CPU : pc[c] \in {"fault", "lost"}

Goto(c, l) == ~Faulted /\ pc' = [pc EXCEPT ![c] = l]

WantLock(c, op, arg) ==
  /\ Goto(c, "spin")
  /\ call' = [call EXCEPT ![c] = [op |-> op, arg |-> arg]]

Woken_Late(now) ==
  IF sched_lock # NoCpu THEN {}
  ELSE {t \in Task : /\ InRing(t)
                     /\ state[t] = "BLOCKED"
                     /\ wakeup_tick[t] # 0
                     /\ now > wakeup_tick[t]}

\* Sleepers the timer wakes at tick now; none if try_lock fails.
Woken(now) ==
  IF sched_lock # NoCpu THEN {}
  ELSE {t \in Task : /\ InRing(t)
                     /\ state[t] = "BLOCKED"
                     /\ wakeup_tick[t] # 0
                     /\ now >= wakeup_tick[t]}

\* IRQ0 on the BSP: timer_handler, then irq_common's task_switch_tick up to
\* the lock. resched_pending is set and consumed within the interrupt.
TimerTick ==
  /\ pc[BSP] = "run"
  /\ LET now   == TickAfter(1)
         woken == Woken(now)
     IN  /\ tick_count' = now
         /\ state' = [t \in Task |-> IF t \in woken THEN "READY" ELSE state[t]]
         /\ wakeup_tick' = [t \in Task |->
              IF t \in woken \cup {current_task[BSP]} THEN 0 ELSE wakeup_tick[t]]
  /\ ipi' = [c \in CPU |-> c # BSP \/ ipi[c]]
  /\ WantLock(BSP, "READY", NoTask)
  /\ UNCHANGED <<ring, cpu_assigned, stack, current_task, sched_lock, onStack>>

\* Vector 0x51 on an AP: resched_ipi_handler and task_switch_tick.
ReschedIpi(c) ==
  /\ pc[c] = "run"
  /\ ipi[c]
  /\ ipi' = [ipi EXCEPT ![c] = FALSE]
  /\ wakeup_tick' = [wakeup_tick EXCEPT ![current_task[c]] = 0]
  /\ WantLock(c, "READY", NoTask)
  /\ UNCHANGED <<ring, state, cpu_assigned, stack, current_task, sched_lock,
                 tick_count, onStack>>

RunsUser(c, sys) ==
  /\ pc[c] = "run"
  /\ current_task[c] \in User
  /\ sys \in Syscalls

SysYield(c) ==
  /\ RunsUser(c, "yield")
  /\ wakeup_tick' = [wakeup_tick EXCEPT ![current_task[c]] = 0]
  /\ WantLock(c, "READY", NoTask)
  /\ UNCHANGED <<ring, state, cpu_assigned, stack, current_task, sched_lock,
                 tick_count, ipi, onStack>>

\* n is (ms + 9) / 10.
SysSleep(c) ==
  /\ RunsUser(c, "sleep")
  /\ \E n \in 0..MaxSleep :
       wakeup_tick' = [wakeup_tick EXCEPT ![current_task[c]] = TickAfter(n)]
  /\ WantLock(c, "BLOCKED", NoTask)
  /\ UNCHANGED <<ring, state, cpu_assigned, stack, current_task, sched_lock,
                 tick_count, ipi, onStack>>

SysExit(c) ==
  /\ RunsUser(c, "exit")
  /\ WantLock(c, "exit", NoTask)
  /\ UNCHANGED <<ring, state, cpu_assigned, wakeup_tick, stack, current_task,
                 sched_lock, tick_count, ipi, onStack>>

\* The shell's exec and kill, up to their lock.
ShellCommand(c) ==
  /\ pc[c] = "run"
  /\ current_task[c] = Shell
  /\ \/ \E t \in User : state[t] = "NONE" /\ WantLock(c, "exec", t)
     \/ \E t \in Killable : WantLock(c, "kill", t)
  /\ UNCHANGED <<ring, state, cpu_assigned, wakeup_tick, stack, current_task,
                 sched_lock, tick_count, ipi, onStack>>

-----------------------------------------------------------------------------
(* Under sched_lock *)

Acquire(c) ==
  /\ pc[c] = "spin"
  /\ sched_lock = NoCpu
  /\ sched_lock' = c
  /\ Goto(c, "locked")
  /\ UNCHANGED <<ring, state, cpu_assigned, wakeup_tick, stack, current_task,
                 tick_count, ipi, call, onStack>>

Holds(c, ops) == pc[c] = "locked" /\ call[c].op \in ops

Dispatch(c, next, st, ca) ==
  /\ state' = [st EXCEPT ![next] = "RUNNING"]
  /\ cpu_assigned' = [ca EXCEPT ![next] = c]
  /\ current_task' = [current_task EXCEPT ![c] = next]
  /\ Goto(c, "return")

Quiet == [op |-> "READY", arg |-> NoTask]

Release(c) ==
  /\ sched_lock' = NoCpu
  /\ call' = [call EXCEPT ![c] = Quiet]

HomeCpu_Any(c) == NoCpu

\* What task_switch_from leaves in cpu_assigned of the outgoing task.
HomeCpu(c) == c

\* task_switch_from returned 0: irq_common and SYS_YIELD go on with the
\* current task, SYS_SLEEP_MS hands the 0 to isr128, which loads it in ESP.
NoSwitchPc(op) == IF op = "BLOCKED" THEN "fault" ELSE "run"

\* task_switch_from from its lock to its unlock.
Switch(c) ==
  /\ Holds(c, {"READY", "BLOCKED"})
  /\ LET curr == current_task[c]
         op   == call[c].op
         st   == [state EXCEPT ![curr] = op]
         ca   == [cpu_assigned EXCEPT ![curr] = HomeCpu(c)]
         next == PickNext(c, st, ca)
     IN  IF next \in {NoTask, curr}
         THEN /\ state' = [state EXCEPT ![curr] = "RUNNING"]
              /\ cpu_assigned' = [cpu_assigned EXCEPT ![curr] = c]
              /\ Goto(c, NoSwitchPc(op))
              /\ UNCHANGED current_task
         ELSE Dispatch(c, next, st, ca)
  /\ Release(c)
  /\ UNCHANGED <<ring, wakeup_tick, stack, tick_count, ipi, onStack>>

\* SYS_EXIT: the task frees its own kernel stack, stays in the ring as FREE,
\* and the CPU goes to a task that never ran (cpu_assigned < 0) or, when
\* there is none, to a null stack pointer.
Exit(c) ==
  /\ Holds(c, {"exit"})
  /\ LET curr == current_task[c]
         st   == [state EXCEPT ![curr] = "FREE"]
         ca   == [cpu_assigned EXCEPT ![curr] = NoCpu]
         next == FirstIn(ring, {t \in Task \ {curr} :
                                  st[t] = "READY" /\ ca[t] = NoCpu})
     IN  /\ stack' = [stack EXCEPT ![curr] = FALSE]
         /\ IF next = NoTask
            THEN /\ state' = st
                 /\ cpu_assigned' = ca
                 /\ current_task' = [current_task EXCEPT ![c] = NoTask]
                 /\ Goto(c, "fault")
            ELSE Dispatch(c, next, st, ca)
  /\ Release(c)
  /\ UNCHANGED <<ring, wakeup_tick, tick_count, ipi, onStack>>

\* elf_exec's last step: the loaded task enters the ring.
Exec(c) ==
  /\ Holds(c, {"exec"})
  /\ LET t == call[c].arg
     IN  /\ ring' = RingInsert(t)
         /\ state' = [state EXCEPT ![t] = "READY"]
         /\ stack' = [stack EXCEPT ![t] = TRUE]
  /\ Goto(c, "run")
  /\ Release(c)
  /\ UNCHANGED <<cpu_assigned, wakeup_tick, current_task, tick_count, ipi,
                 onStack>>

MayKill_Any(t) == InRing(t)

\* task_kill goes through: the pid is in the ring and not RUNNING.
MayKill(t) == InRing(t) /\ state[t] # "RUNNING"

Kill(c) ==
  /\ Holds(c, {"kill"})
  /\ LET t == call[c].arg
     IN  IF MayKill(t)
         THEN /\ ring' = RingRemove(t)
              /\ state' = [state EXCEPT ![t] = "FREE"]
              /\ cpu_assigned' = [cpu_assigned EXCEPT ![t] = NoCpu]
              /\ stack' = [stack EXCEPT ![t] = FALSE]
         ELSE UNCHANGED <<ring, state, cpu_assigned, stack>>
  /\ Goto(c, "run")
  /\ Release(c)
  /\ UNCHANGED <<wakeup_tick, current_task, tick_count, ipi, onStack>>

\* page_dir_switch, then mov %eax, %esp and iret of irq_common and isr128.
LoadEsp(c) ==
  /\ pc[c] = "return"
  /\ IF current_task[c] \in Loadable
     THEN Goto(c, "run") /\ onStack' = [onStack EXCEPT ![c] = current_task[c]]
     ELSE Goto(c, "lost") /\ UNCHANGED onStack
  /\ UNCHANGED <<ring, state, cpu_assigned, wakeup_tick, stack, current_task,
                 sched_lock, tick_count, ipi, call>>

-----------------------------------------------------------------------------
(* Every CPU runs its idle task, the shell is READY: kernel_main's iret. *)

Init ==
  /\ ring = BootRing
  /\ state = [t \in Task |-> IF t = Shell THEN "READY"
                             ELSE IF t \in User THEN "NONE" ELSE "RUNNING"]
  /\ cpu_assigned \in [Task -> CPU \cup {NoCpu}]
  /\ \A c \in CPU : cpu_assigned[Idle[c]] = c
  /\ \A t \in User \cup {Shell} : cpu_assigned[t] = NoCpu
  /\ wakeup_tick = [t \in Task |-> 0]
  /\ stack = [t \in Task |-> t \notin User]
  /\ current_task = Idle
  /\ sched_lock = NoCpu
  /\ tick_count = 0
  /\ ipi = [c \in CPU |-> FALSE]
  /\ pc = [c \in CPU |-> "run"]
  /\ call = [c \in CPU |-> Quiet]
  /\ onStack = Idle

Next ==
  \/ TimerTick
  \/ \E c \in CPU :
       \/ ReschedIpi(c)
       \/ SysYield(c)
       \/ SysSleep(c)
       \/ SysExit(c)
       \/ ShellCommand(c)
       \/ Acquire(c)
       \/ Switch(c)
       \/ Exit(c)
       \/ Exec(c)
       \/ Kill(c)
       \/ LoadEsp(c)

Spec == Init /\ [][Next]_vars

Locked(c) == Switch(c) \/ Exit(c) \/ Exec(c) \/ Kill(c)

\* Interrupts are taken when interrupts are on, however often the CPU turns
\* them off in between, and a CPU that spins on sched_lock gets it in the end.
Fairness ==
  /\ SF_vars(TimerTick)
  /\ \A c \in CPU : /\ SF_vars(ReschedIpi(c))
                    /\ SF_vars(Acquire(c))
                    /\ WF_vars(Locked(c) \/ LoadEsp(c))

FairSpec == Spec /\ Fairness

-----------------------------------------------------------------------------
(* Properties *)

\* Every variable keeps its type; tick_count stays within its width
\* (timer.c:12, task.h:15-24).
TypeOK ==
  /\ ring \in Seq(Task)
  /\ state \in [Task -> TaskState]
  /\ cpu_assigned \in [Task -> CPU \cup {NoCpu}]
  /\ wakeup_tick \in [Task -> 0..TickMod - 1]
  /\ stack \in [Task -> BOOLEAN]
  /\ current_task \in [CPU -> Task \cup {NoTask}]
  /\ sched_lock \in CPU \cup {NoCpu}
  /\ tick_count \in 0..TickMod - 1
  /\ ipi \in [CPU -> BOOLEAN]
  /\ pc \in [CPU -> PcValue]
  /\ call \in [CPU -> [op : Op, arg : Task \cup {NoTask}]]
  /\ onStack \in [CPU -> Task]

\* No two CPUs ever execute on the same kernel stack, not even in the window
\* where task_switch_from has released sched_lock and the old stack is still
\* in use (task.c:150-155). This is what keeping cpu_assigned on the outgoing
\* task is for (task.c:124).
StackExclusive ==
  \A c, d \in CPU : c # d => onStack[c] # onStack[d]

\* A RUNNING task is the current task of the CPU it is assigned to, and of no
\* other; a task that is nobody's current task is not RUNNING, so it is never
\* lost to the scheduler (task.c:120-150, elf.c:65-89, task.c:210).
RunningIsCurrent ==
  \A t \in Task, c \in CPU :
    (state[t] = "RUNNING" /\ cpu_assigned[t] = c) <=> current_task[c] = t

\* Whatever can still be dispatched owns its kernel stack: neither task_kill
\* nor SYS_EXIT frees the stack of a task that can run again (task.c:245-248,
\* elf.c:45-48).
RunnableOwnsStack ==
  \A t \in Task : state[t] \in {"READY", "RUNNING", "BLOCKED"} => stack[t]

\* Every task that can still run is in the ring exactly once, so the scans of
\* pick_next_locked, timer_handler and task_kill can find it (task.c:60-67,
\* 215-225, 475-484 of elf.c).
RingComplete ==
  /\ \A i, j \in 1..Len(ring) : ring[i] = ring[j] => i = j
  /\ \A t \in Task : state[t] \in {"READY", "RUNNING", "BLOCKED"} => InRing(t)

\* A task that has run never moves to another CPU: "Keep on this CPU to
\* prevent migration" (task.c:124). Its context is saved on a stack that only
\* its own CPU can still be using.
NoMigration ==
  [][\A t \in Task : cpu_assigned[t] \in CPU =>
       cpu_assigned'[t] = cpu_assigned[t] \/ state'[t] = "FREE"]_vars

\* Nobody leaves FREE: a task that exited or was killed never runs again
\* (elf.c:65-66, task.c:226-227).
FreeIsFinal ==
  [][\A t \in Task : state[t] = "FREE" => state'[t] = "FREE"]_vars

\* A program that goes to sleep leaves its CPU without a stack to load only
\* if the idle task of that CPU was killed: pick_next_locked otherwise comes
\* to the idle task at the latest, wherever it is in the ring and whatever
\* was created, blocked or ended before (task.c:79-101, 132-138, elf.c:161-166,
\* interrupt.S:99-100).
NullStackNeedsKill ==
  \A c \in CPU : pc[c] = "fault" /\ current_task[c] # NoTask => state[Idle[c]] = "FREE"

\* No CPU executes on a kernel stack whose frames were given back to the
\* frame allocator (task.c:245-248).
StackInUseIsOwned == \A c \in CPU : stack[onStack[c]]

\* Round robin: a READY task is dispatched (or killed), whatever the other
\* tasks do (task.c:79-101).
ReadyRuns ==
  \A t \in Task : state[t] = "READY" ~> state[t] # "READY" \/ Faulted

\* A sleeper with a wakeup tick is woken (or killed), although a tick skips
\* the wake-up scan when it loses sched_lock (timer.c:35-51): it is enough
\* that ticks stop losing it at some point.
SleepersWake ==
  <>[][TimerTick => sched_lock = NoCpu]_vars =>
    \A t \in User : (state[t] = "BLOCKED" /\ wakeup_tick[t] # 0)
                      ~> (state[t] # "BLOCKED" \/ Faulted)

=============================================================================
