# Noverix: TLA+ models, model checking and proofs

Noverix is a 32-bit x86 kernel: a preemptive SMP task manager, a work queue for
kernel jobs, a frame allocator, paging and a heap, an extent file system on an
ATA disk, a polling TCP/IP stack on an RTL8139 card, a PS/2 keyboard and a
shell. This directory holds TLA+ modules written from its source, the TLC
configurations that check them, and TLAPS proofs.

## 1. The system

| part | state it keeps | operations | interacts with | what makes it correct |
| --- | --- | --- | --- | --- |
| Task manager (`kernel/task.c`, `kernel/cpu/timer.c`, `interrupt.S`, the switching calls of `kernel/elf.c`) | the circular ready list, `task_t` of each task, `current_task` of each CPU, `sched_lock`, `tick_count` | `task_create`, `task_switch_tick`, `task_yield`, `task_block_and_switch`, `task_kill`, `SYS_EXIT`, `elf_exec`'s last part, timer tick, reschedule IPI | frames come from the frame allocator, stacks are loaded by `irq_common` and `isr128` | one stack is used by one CPU; RUNNING and `current_task` agree; nobody is lost from the ring; freed tasks stay freed; READY tasks run; sleepers wake |
| Boot of the CPUs (`kernel/ap_startup.c`, end of `kernel_main`) | as above, and how far each CPU is | `start_aps`, `ap_main`, creation of the idle tasks and the shell | runs while the timer already ticks and started CPUs already schedule | every CPU enters its own idle task once |
| Work queue (`kernel/scheduler/scheduler.c`) | `tasks[64]`, `next_task_cpu`, its own lock | `scheduler_submit`, `scheduler_step`, `scheduler_wait_all` | called by the idle loops and by the `smp` command, whose stack frame holds arguments and results | a job runs exactly once; the wait returns when all have finished, and does return |
| Locks (`kernel/sync/sync.h`), TLB shootdown (`sync/tlb.c`) | one word per lock, `tlb_flush_addr` | lock, try_lock, irqsave, irqrestore, shootdown IPI | used by every other part | no CPU waits for a lock whose holder it keeps from running |
| Frame allocator (`memory/pfa.c`), paging (`memory/paging.c`) | frame bitmap, page directories | `alloc_frame(s)`, `free_frame(s)`, `map_page(_to_dir)`, `unmap_page`, `page_dir_create`, `page_dir_switch` | used by tasks, loader, heap | a frame has one owner; the kernel stays mapped |
| Program loader (`kernel/elf.c`) | the static load buffer, the page directory under construction | `elf_exec`, `free_task_resources` | NVFS, frames, paging, task ring | segments land in the program's own frames; failure and clean-up give back only what was taken |
| Heap (`memory/heap.c`) | blocks with header and footer in a fixed arena | `malloc`, `calloc`, `realloc`, `free` | kernel callers, `SYS_MALLOC`/`SYS_FREE` | blocks tile the arena, live blocks do not overlap, neighbours coalesce |
| NVFS (`drivers/nvfs.c`), ATA (`drivers/ata.c`) | superblock, bitmap, inode table, extents, directories on disk; mount state and cwd | mount, read, write, append, delete, mkdir, rmdir, chdir, list | shell commands, `elf_exec`, system calls | a block has one owner; a crash leaves old or new contents; names resolve to what was written |
| ARP, ICMP, IP (`net/net.c`), TCP (`net/tcp.c`) | ARP cache, ping state, sockets | `net_arp_resolve`, `net_ping`, `tcp_connect/send/recv/close`, packet handlers | polls the card driver | bytes are delivered once and in order; retries end; answers are matched with requests |
| RTL8139 (`drivers/rtl8139.c`) | TX index, RX ring offset | init, send, recv | card DMA | descriptors are used in the card's order; the ring is read where the card wrote |
| Keyboard (`drivers/keyboard.c`) | ring buffer of 256 characters, modifier flags | IRQ1 handler, `keyboard_get_char` | shell, `SYS_READ_CHAR` | characters come out in order, none invented |
| Shell (`kernel/kernel.c`) | line buffer, history ring | readline, command dispatch | everything | history shows the last lines entered |

Where it is hard: CPUs interleave at every unlock; interrupts run between any
two instructions with IF set; a switched-out task's stack is in use until the
new stack pointer is loaded; `try_lock` paths skip work; the disk may lose
power between two sector writes; packets are lost, duplicated and reordered;
counters (ticks, sequence numbers) wrap.

## 2. Plan

The order was: what everything else runs on first, then what loses data, then
the devices. Done: `TaskSched` and `SmpBoot`; `WorkPool` and `WorkQueue`;
`Loader`; `FileStore` and `Nvfs`; `HeapStore` and `Heap`; `Net` and `Tcp`;
`Rtl8139`; `Keyboard`. Proofs cover the task manager and the boot of the CPUs,
the work queue, the loader, the heap, the network commands, the card driver and
the keyboard: every safety property of the passing runs but those of `Nvfs`.

To come, in this order:

1. Locks: which locks are taken with interrupts on or off, and by whom, to find
   a CPU that waits for a lock whose holder it keeps from running (`nvfs_lock`).
2. The current directory and relative paths of NVFS, and the growth of its inode
   table.
3. Theorems: `NoBlockShared` of `Nvfs`, first for the calls that do not grow a
   directory, then `EntriesSound`.

## 3. Modules

Everything in a module is translated from the lines `PROJECT.json` gives for
it. Definitions that end in `_Something` (`Eligible_AnyCpu`) are wrong variants
of the definition after them; they show that a property notices the mistake and
are used by nothing.

**`TaskSched`** models `task.c`, the interrupt entries and the switching system
calls. `ring` is the circular list from `ready_head`; `state`, `cpu_assigned`
and `wakeup_tick` are the fields of `task_t`; `stack` says who owns stack
frames; `pc`, `call` and `onStack` say where a CPU is between interrupt entry
and `iret`, and on whose kernel stack. What happens under `sched_lock` is one
step (`Switch`, `Exit`, `Exec`, `Kill`). Taking the lock (`Acquire`) and
loading the new stack pointer (`LoadEsp`) are steps of their own, because the
lock is released before the old stack is left (`task.c:150`). `TimerTick`
contains the wake-up scan with its `try_lock`. `Loadable` is the set of tasks
whose page directory maps the kernel. In the code as it stands that is every
task but the programs, because `elf_exec` clears `pd[0]` (section 7): a CPU that
dispatches another one is `"lost"`. `sched_kill_race` uses that set. The passing
runs make all tasks loadable, to check what the task manager does with programs
apart from this one store. The proofs hold for every value of `Loadable`.

**`SmpBoot`** extends `TaskSched` by `start_aps`, `ap_main` and the end of
`kernel_main`. The stores after `task_create` are separate steps. Ticks and
reschedule interrupts of `TaskSched` run in between.

**`WorkPool`** is what the job queue promises: each accepted job runs once, and
the wait ends when all have finished. **`WorkQueue`** is the table of
`scheduler.c` as the idle loops and the `smp` command use it; a claimed job runs
outside the lock, in a step of its own. A slot is served only by the CPU it was
pinned to, as in `scheduler_step`; `README.md:27` and `CODEBASE_INDEX.md:715` of
the repository speak of any idle CPU, and no property here depends on either.

**`Loader`** models `pfa.c`, the page directories, `elf_exec` and the clean-up
of kill. `SYS_EXIT` frees the same things, but no program gets to call it
(`DispatchProgram`). A directory entry covers `FramesPerPde` frames and memory is
mapped one to one. `accessed` holds the kernel entries whose Accessed bit the
processor has set, because the clean-up compares whole entries. `released`
records the frames that clean-ups freed because of such a difference, and is
read by nothing but `OneOwner`. Allocation is first fit, as in the code.
`pfa_init` does not reserve the frames of the kernel heap (`HeapFrames`), so a
program may get them; `heap` says whether loading has written to them.

**`FileStore`** is an abstract tree of files and directories on which a call
takes effect at one moment. **`Nvfs`** is `nvfs.c`: the disk is a bitmap, an
inode table and blocks. A call reads the disk and yields the list of its sector
writes in the order of the code, each with what the code does if that write
fails; `WriteSector`, `WriteFails` and `Crash` go through the list. `tree` is
what a mount would show, `before` and `last` are for the mapping to
`FileStore`. Abstractions: data comes in whole blocks, paths are absolute and at
most two names long, time stamps are left out, and the bitmap has more bits than
the disk has blocks, as in images made by `mknvfs.py`. `bitmap_find` tests the
first bit of a run against the size of the bitmap and the others not (`Runs`).

**`HeapStore`** is what an allocator promises: regions that do not overlap and
data that stays. **`Heap`** is `heap.c` on raw words: headers, footers and the
callers' data are in the same array `mem`. `starts` is where a walk over the
headers finds blocks, `held` what each caller holds, `freed` the pointers that
were freed and not handed out since. Every call holds `heap_lock` with
interrupts off and is one action; a call that fails changes nothing. Sizes are
added and multiplied modulo `UIntMax + 1`.

**`Net`** is the ARP cache, ping and packet dispatch of `net.c`. The stack has
no task of its own: a shell command polls until it has what it wants or its
ticks have passed, so `pc` is the place where the command waits, a poll handles
one frame of `Inbound`, and a timeout may come at any wait. Frames stay in `net`
for ever, and may be received in any order, repeatedly or never. **`Tcp`**
extends it by the sockets of `tcp.c` and by a peer that is marked external. A
poll contains all of `tcp_handle_packet`, the acknowledgement included.

**`Rtl8139`** is `rtl8139_send` and `rtl8139_recv` at the grain of the register
accesses, beside the card, which stores frames and transmits at any time in
between. Offsets count words of 4 bytes; a frame is its number, its length and
its words.

**`Keyboard`** is the interrupt handler, which only tries `kb_lock`, and
`get_char` on every CPU, which reads and advances in two steps under the lock.
`accepted`, `stored`, `dropped` and `returned` record what happened.

**`ProofLemmas`**, **`TaskSchedProofs`** (with `SmpBoot`), **`WorkQueueProofs`**,
**`LoaderProofs`**, **`HeapProofs`**, **`TcpProofs`**, **`NicProofs`** and
**`KeyboardProofs`** hold the proofs. The `MC…` modules give the constants their
small values.

## 4. Runs

Expected to pass:

| run | instance | shows |
| --- | --- | --- |
| `sched_safety` | 2 CPUs, idle tasks, shell, 2 programs, all system calls, all kills (idle tasks too), ticks modulo 3 | one CPU per stack (`StackExclusive`); RUNNING is being current (`RunningIsCurrent`); who can run owns a stack (`RunnableOwnsStack`) and is in the ring once (`RingComplete`); nobody migrates (`NoMigration`); FREE is final (`FreeIsFinal`); a sleep or yield finds a stack to load unless the idle task of its CPU was killed (`NullStackNeedsKill`) |
| `sched_live` | 2 CPUs, 1 program that yields and sleeps and may be killed | READY tasks run (`ReadyRuns`); sleepers with a nonzero wake-up tick wake (`SleepersWake`) |
| `queue` | 3 CPUs, 4 jobs, 4 slots, any number of `smp` commands | exclusive claims; no late worker; the table never overflows; `WorkQueue` implements `WorkPool`; the command returns |
| `loader` | 5 `exec` calls, 4 regions, the last above that of the programs | every frame in use is marked and has one owner, through all failures and kills, unless a clean-up freed it through a kernel entry that had changed (`OneOwner`) |
| `nvfs` | 5 blocks, 4 inodes, 1 direct extent, 1 entry per directory block, 7 different calls, one fault | no block of a reachable file is free or shared; entries are sound; `Nvfs` implements `FileStore` |
| `heap` | 11 words, 3 callers, `malloc`, `calloc`, `realloc`, `free`, double frees, sizes on both sides of the wrap | blocks tile the arena (`Tiles`); used blocks are the held ones, and large enough unless the sum in `realloc` wrapped (`UsedAreHeld`); no two free neighbours (`Coalesced`); a second `free` is refused (`DoubleFreeRefused`); `Heap` implements `HeapStore` |
| `net` | 2 commands, a server on the subnet, a host outside it, 1 socket slot, initial sequence numbers with and without a wrap | frames go to their next hop (`FramesReachNextHop`); ping reports only a reply that was received after its request (`PingFresh`); data are stored once and in order (`InOrderOnce`); a confirmed send has arrived, all of it and nothing after it, unless it crossed the end of the sequence numbers (`SendConfirmed`); no slot leaks (`NoSlotLeak`); no polling inside a poll (`NoNestedPoll`); every command returns (`CommandReturns`) |
| `nic` | ring of 16 words, 6 frames of 3 lengths, 3 descriptors, 4 sends | driver and card agree about the ring (`RingInSync`); frames arrive whole (`DeliveredIntact`); success means transmitted, nothing twice or late (`SendHonest`); driver and card use the same descriptor until a timeout (`InStep`) |
| `keyboard` | 2 CPUs reading, ring of 3, 5 codes of 7 kinds | the handler decodes what the codes so far mean (`Decoded`); each character is read once and in order (`EachKeyOnce`); all are read in the end (`AllRead`) |

Expected to find a violation. Each quotes, in `PROJECT.json`, the line of the
repository that says otherwise:

| run | property | what happens |
| --- | --- | --- |
| `sched_kill_race` | `StackInUseIsOwned` | `kill` frees the stack of an idle task that is already READY while its CPU is still on that stack |
| `boot_share` | `OwnIdleStack` | a CPU that already schedules takes the new idle task of another one before `ap_main` claims it, and both run on its stack |
| `loader_preempt` | `HeapIntact` | a task switch during loading brings back `kernel_page_dir`, and the rest of the program goes into the kernel heap |

### Bounds, and why they are enough

Two CPUs give every race between a CPU that switches and one that kills, picks
or creates. Two programs let one wait while the other moves. Ticks modulo 3
with sleeps of up to 2 reach the wrap-around from every distance. Four jobs on
three CPUs make one CPU run two, and make the slots just enough. In `loader`
memory holds two programs, so the later `exec` calls fail at every allocation,
a program can be killed between any two of them, and the first frame used of the
region above changes an Accessed bit after a directory was copied. In `nvfs` one direct extent and one entry per block
make the second entry or block go through the indirect block, 5 blocks fill up
during every kind of call, and one fault suffices to interrupt each call at each
write. `NInodes` is never exhausted (a guard of `Call`, marked BOUND).
Power does not fail inside `delete` and `rmdir` there (section 7).

In `heap` eleven words hold three minimal blocks and a rest that is too small to
split, so that blocks are cut, used whole, merged with one neighbour and with
both. Unsigned numbers end at 63: 52 is the largest size whose block size does
not wrap and is refused, 53 the first that wraps and cuts the block to the
minimum. In `net` the second command meets
all frames of the first: late ARP and echo replies and segments of an old
connection; with one slot a leak would make it fail. Of 32 sequence numbers one
connection starts at 3 and does not wrap; the other starts at 29, and its message
crosses the end. In `nic` six frames go around the ring,
fill it, and cross its end at each offset; four sends use each of three
descriptors and the first again. In `keyboard` two characters fill the ring,
and five codes are enough for a prefix, a modifier, its release and two keys.

`CHECK_DEADLOCK FALSE` is set where the system may stop: after a faulted CPU in
`TaskSched`, in `SmpBoot` for the same reason, in `Loader` when all `exec`
calls are over, and in `net` and `nic` when the bounded numbers of commands,
frames and sends are used up.

### Fairness

`TaskSched`: the tick and the reschedule interrupt are strongly fair, since an
interrupt stays pending until interrupts are on; so is getting `sched_lock`,
which `xchg` gives to any spinner and which is held for one scan; steps under
the lock and the load of ESP are weakly fair, being straight-line code with
interrupts off. Programs are never assumed to make a system call. `SleepersWake`
also assumes that from some point on ticks do not find the lock taken: the code
skips the scan under contention, and nothing bounds how often. `WorkQueue`:
every context is weakly fair, which is `ReadyRuns` of `TaskSched`; nobody is
assumed to type `smp`. `Tcp`: ticks pass, so the timeout of a wait is weakly
fair, and so are the steps between two waits; nothing is assumed of the network
or of the peer. `Keyboard`: the handler and a CPU inside `get_char` go on, both
with interrupts off; of the readers that spin for the lock some one gets it.

## 5. Proofs

For any number of CPUs, tasks, slots, jobs, callers, hosts, descriptors and any
sizes, from the named assumptions of the modules (`TaskAssumption`,
`QueueAssumption`, `LoaderAssumption`, `HeapAssumption`, `NetAssumption`,
`TcpAssumption`, `NicAssumption`, `KeyboardAssumption`, `CodeAssumption`), which state how the
constants fit together and which the runs evaluate. Where a theorem needs more
it says so in its own hypotheses, named below.

`TaskSchedProofs` proves `Spec => []Inv`. `StackExclusive` is not inductive as
it stands. In the window after the lock is released a CPU is on the stack of a
task that is READY; that nobody else takes this task follows from `StackOwner`:
the task keeps `cpu_assigned` on that CPU, or it is FREE. For this to survive
a switch `RunningIsCurrent` and `StackOfCurrent` are needed, for the ring
`RingAllocated`, and for `exec` `ShellCalls`: only one CPU runs the shell, so
the task to be inserted is inserted once. From `Inv` and its step lemma
follow `TypeCorrect`, `NoSharedStack`, `RunningExact`, `RingExact`, `StackKept`,
`TasksStayHome` and `EndedForGood`. `SleepFindsTask` adds a second invariant,
`SleepInv`: an idle task that is not FREE is READY or RUNNING on its own CPU, so
the scan of a sleep or yield finds it, and `task_switch_from` returns 0 to a
system call only after `task_kill` was given the idle task. It has no
hypothesis: programs exit and any task is killed. `SYS_EXIT` itself is not
covered (section 7).

`TasksKeptDuringBoot` is the same kind of result for `BootSpec`. None of the
parts of `Inv` that concern stacks holds while CPUs come up (section 7), so it
has an invariant of its own, `BootInv`. An idle task is in the ring exactly when
its CPU is past `task_create`, the shell only when the BSP is past its own, so
neither is inserted twice. A CPU that gets as far as `sched_lock` has a current
task and that task is in the ring, because an AP takes no interrupt before its
`iret` and the BSP gets no reschedule interrupt. Everything in the ring owns its
stack.

`WorkQueueProofs` proves its `Inv` (each slot in state 2 has one owner, slots in
use hold different jobs, a job has a result exactly when it has run), from it
`TypeCorrect`, `ClaimsAreExclusive` and `NoLateWorker`, and `QueueRefinesPool`:
initial states map to initial states and each step to a step of the pool or a
stutter. `SubmitFindsSlot` (`NeverFull`) assumes that one command submits at most
`MaxTasks` jobs; the code has 4 and 64. The slots in use hold different jobs
submitted so far, so there are fewer of them than slots, and the first free one
exists.

`LoaderProofs` proves `TypeCorrect` and `OneOwnerHolds`. That every frame in use
is marked and has one owner is not true of the code (section 7): the clean-up
takes an entry whose Accessed bit differs from the kernel's for one of the
program's own, and frees what it leads to. `OneOwner` leaves out exactly the
frames that were freed so (`released`), and is proved without a hypothesis on
the memory or the programs: this comparison is the only way to lose a frame.
`OwnInv` adds that the frame of a `task_t`, which `task_kill` keeps, is none of
those it frees (`TaskApart`).

`HeapProofs` proves `HeapInv`: types, `Tiles`, `BlocksAreHeld`, `Coalesced`, and
`Refused`. `BlocksAreHeld` is `UsedAreHeld` with the size the code computes for a
request, which every call preserves, in the place of the size asked; `NeedOf`
relates the two and shows that they part only for the eleven largest sizes.
`Refused` makes `DoubleFreeRefused` inductive: a freed pointer that was
not handed out again lies outside all used blocks, and the word in front of it
does not look used. Each operator that rewrites tags (`Place`, `MergeNext`,
`MergePrev`, the cut of `realloc`) has a lemma that it takes a tiled arena to a
tiled one and leaves used blocks alone, and a second one about the borders
between free neighbours (`Joined`): a merge removes a border, a cut adds one only
in front of a used block or at a seam. `HeapTyped`, `BlocksTile`,
`NoSharedBlock`, `SecondFreeRefused` and `FreeBlocksMerged` are the
consequences.

`HeapIsStore` is the refinement: the region of a caller is the payload of its
block and its data are the words in it, and every step of `Heap` is a step of
`HeapStore` or a stutter. It needs one more invariant, `Relied` (what a caller
relies on fits into what the code computes for its request), and `Spares`: an operator that rewrites
tags writes into no used block but the one the call is about. That `realloc`
carries the contents over is the case where block, copy and old place can touch.

`TcpProofs` proves an invariant of six parts. What is cached is true (`Sound`),
so every frame that is sent is addressed to its next hop (`Frames`). The only
slot in use is that of the running command and leads to its destination
(`OneSlot`), which together with `Sound` makes `NoNestedPoll` inductive. No
reply is counted before its request (`Fresh`). The consequences are
`TypeCorrect`, `FramesAddressed`, `NoSlotLost`, `NoRecursivePoll` and
`FreshReplies`.

`SendsConfirmed` (the peer has received exactly the message, unless its numbers
cross the end, where the comparison of `tcp_send` holds at once) and
`StoredInOrder` relate three places: the socket, the peer's
end of the same connection and every segment that was ever sent between them,
since the network may deliver any of those at any time. `TalkInv` says for
each state of the socket what the peer can have received and which
acknowledgements can exist; in particular none covers data the peer has not
taken in. `StreamInv` says that the peer's segments carry consecutive numbers
and that the socket has stored exactly those below `rcv_nxt`. Both tell
connections apart by their local port, so they assume `MaxCommands <= NPorts`:
the counter of `tcp_connect` has 16 bits and after 65536 commands a late segment
may belong to the port's earlier user. `StoredInOrder` also assumes
`MaxSegs < SeqMod`, that one connection does not go once through all sequence
numbers.

`NicProofs` proves all properties of `Rtl8139`. `RingInSync` is not inductive:
that the card overwrites no unread header needs the distances of all frames from
`rx_offset` to be ordered and to stay below one round (`Laid`), and the contents
of all unread frames (`Intact`). For the descriptors, the card owns at most the
one the driver uses next, and what that holds is younger than everything
transmitted (`Queued`). The ring arithmetic is reduced to the case distinction
of `Wraps`, after which every step is linear.

`KeyboardProofs` proves `TypeCorrect`, `KeysOnce` and `CodesDecoded`. Who is
inside `get_char` holds `kb_lock` and has read what is still at the tail
(`Locked`); between tail and head lies what was stored and not returned
(`Buffered`). For decoding, the flags of the handler are compared with what the
codes so far mean (`DecodeInv`); `Decode` is defined by sets of earlier codes,
which one more code leaves alone or extends by one, so no induction over the
sequence is needed.

The type invariants of these components are proved; of them the runs repeat that
of `Loader`.

Only model-checked: the liveness properties (`ReadyRuns`, `SleepersWake`,
`WaitReturns`, `CommandReturns`, `AllRead`), which the prover does not do, and
everything about `Nvfs`. Its properties hold for the calls, crashes and failed
writes of the run and not in general (section 7), so a theorem needs hypotheses
about what is called and where power fails, and its invariant has to describe
the disk after every prefix of every list of writes, clean-ups included. That is
not done; `NoBlockShared`, `EntriesSound` and the refinement of `FileStore` stay
with TLC.

## 6. Not modelled

Boot assembly, GDT and IDT tables, ACPI parsing, APIC registers, PCI, serial,
screen and graphics: straight-line set-up or output. The shell's line editing
and history are sequential and mostly about the screen. The system calls that
only pass through (print, read, graphics) keep no state of their own. Of NVFS,
the current directory and relative paths; of the locks, the discipline across
all of them, and the TLB shootdown with `unmap_page`, which nothing calls; of the card driver, the reset and the
recovery from entries with a bad status, which the card does not produce.
`PROJECT.json` lists every part with its reason.

## 7. Known limits of the code met while modelling

These were seen in the source and lie outside the passing instances.

Tasks and boot:

- `SYS_EXIT` looks for tasks that never ran; with none it returns 0, and
  `isr128` loads 0 into ESP (`elf.c:68`).
- Between `task_create` and the stores that claim it, a new idle task is READY
  in the ring, and another CPU can dispatch it (`ap_startup.c:62`, run
  `boot_share`).
- The first dispatch of a program: `elf_exec` clears `pd[0]`, which maps the
  kernel (`elf.c:430`), and `task_switch_from` loads that directory while it
  executes kernel code (`task.c:153`). `DispatchProgram` of `Loader` stops there
  (`halted`), and so does `LoadEsp` of `TaskSched` for tasks outside `Loadable`.
- `kill` accepts the PID of an idle task. `SYS_SLEEP_MS` then may find no task
  and return 0 (`task.c:137`).
- A wake-up tick that wraps to exactly 0 means "not sleeping", and the task is
  not woken (`elf.c:161`, `timer.c:42`).
- Jobs are pinned round robin to all CPUs the MADT lists; one pinned to a CPU
  that did not come up is never run, and `smp` does not return
  (`scheduler.c:39`).
- `kernel_main` sets `current_task` with interrupts on (`kernel.c:1014`). A tick
  before `cli` saves the boot stack as the idle task's; `SmpBoot` follows this
  in `bspEsp`.

Memory:

- An Accessed bit that the processor sets after `page_dir_create` makes a kernel
  entry look like the program's own. Its table and all frames of the region are
  freed with the program, whoever holds them (`elf.c:29`).
- `realloc` with one of the eleven largest sizes wraps, cuts the block to the
  minimum and returns it (`heap.c:120`). A first
  block of minimal size is not merged backwards (`heap.c:193`), nor is the rest
  that `realloc` cuts off merged with a free block behind it; `Coalesced` leaves
  both out.
- `pfa_init` does not reserve the frames of the heap (`pfa.c:51`): once those
  below are in use, programs, directories and stacks are put there.

File system:

- `nvfs_delete` and `nvfs_rmdir` free the inode before they remove the entry.
  When power fails in between, the next new file shows up under the old name
  too (`nvfs.c:967`).
- `nvfs_append` keeps at most 4096 bytes of a file (`nvfs.c:1174`); a directory
  keeps 14 extents (`nvfs.c:106`); `nvfs_write` accepts the name of a directory
  (`nvfs.c:876`). `AtomicCalls` fails in each of these cases.
- The inode table grows into data block 0, the root directory, and a grown table
  is refused at the next mount (`nvfs.c:155`, `nvfs.c:765`).
- Failed writes: the `nvfs` run lets data and inode writes of append and bitmap
  writes of delete fail. The others are not survived, because results are not
  looked at or undone in part: a failed bitmap write while a file grows breaks
  `NoBlockShared` (`nvfs.c:367`); a failed data or inode write in create, mkdir
  or delete breaks `EntriesSound` (`nvfs.c:943`, `nvfs.c:967`).

Network:

- A second segment overwrites the first in `rcv_buf`, although both were
  acknowledged, when `tcp_recv` has not read it (`tcp.c:194`). A FIN is accepted
  out of order, and data that come with it are lost. An RST ends a wait only by
  its timeout. Data that arrive as `tcp_recv`'s time ends are lost.
- `snd_una >= snd_nxt` is an unsigned comparison: when the message crosses the end
  of the sequence numbers it holds at once, and `tcp_send` reports a success that
  nobody confirmed (`tcp.c:290`).
- `ping` takes any echo reply, a late one of an earlier ping too. ARP requests
  to us that arrive while a tcp command waits for its peer are dropped. A tcp
  command to an address outside the subnet never resolves it, because
  `send_tcp_segment` does not use the gateway (`tcp.c:105`).
- RX_CFG_NO_WRAP is set, so the card stores a frame past the end of the ring, and
  `rtl8139_recv` reads that part from its start: `DeliveredIntact` leaves out
  frames that cross the end.
- After a transmit timeout whose frame does go out later, `tx_next_idx` and the
  card's descriptor stay different, and later sends time out
  (`rtl8139.c:236`).

Keyboard:

- A code that arrives while a reader on another CPU holds `kb_lock` is lost
  (`keyboard.c:57`); a lost release leaves shift pressed. `SYS_READ_CHAR` on
  CPU 0 spins with interrupts off, so that no key can arrive.
- `history_add` puts the newest line first while there is room and last once the
  history is full (`kernel.c:66`); `readline` saves a line that is not terminated when UP is pressed.
