------------------------------- MODULE Loader -------------------------------
(***************************************************************************)
(* The frames and page directories of programs: the frame allocator        *)
(* (kernel/memory/pfa.c), paging (kernel/memory/paging.c), elf_exec and    *)
(* free_task_resources (kernel/elf.c) and the clean-up of task_kill.       *)
(*                                                                         *)
(* A page directory entry covers FramesPerPde frames. The kernel maps all  *)
(* of memory one to one, so entry n of kernel_page_dir maps the frames of  *)
(* region n. The kernel is in region 0; its heap is at the start of region *)
(* UserPde, in frames pfa_init does not reserve, and a program's own       *)
(* directory uses the same virtual region for its pages. The processor     *)
(* sets the Accessed bit of a kernel entry when the kernel first touches a *)
(* frame of its region.                                                    *)
(***************************************************************************)
EXTENDS Integers, FiniteSets

CONSTANTS
  NPde,          \* regions of physical memory
  FramesPerPde,  \* 1024 in the code
  UserPde,       \* USER_PDE_IDX
  KernelFrames,  \* kernel, page directory and tables: frames 0..KernelFrames - 1
  Pages,         \* pages of a program (512 in the code)
  StackFrames,   \* TASK_STACK_SIZE >> 12
  HeapLength,    \* frames of the kernel heap (HEAP_SIZE >> 12)
  Segments,      \* PT_LOAD segments of a program file
  Prog,          \* calls of elf_exec, each for one program
  Kernel,        \* stands for kernel_page_dir in cr3
  NoFrame

NFrames == NPde * FramesPerPde

Frame == 0..NFrames - 1

Pde == 0..NPde - 1

ASSUME LoaderAssumption ==
  /\ {NPde, FramesPerPde, KernelFrames, Pages, StackFrames, HeapLength, Segments}
       \subseteq Nat \ {0}
  /\ UserPde \in Pde \ {0, 1}
  /\ NPde < KernelFrames
  /\ KernelFrames <= FramesPerPde
  /\ Kernel \notin Prog
  /\ NoFrame \notin Frame

VARIABLES
  bitmap,    \* the frames alloc_frame takes for used
  accessed,  \* the kernel's directory entries with the Accessed bit
  prog,      \* per program: its status and the frames it holds
  step,      \* where elf_exec is: "idle", "map", "load" or "task"
  seg,       \* segments copied so far
  cr3,       \* the directory of the shell's CPU: Kernel or a program
  heap,      \* "intact", or "overwritten" by the loading of a program
  halted,    \* a CPU lost the mapping of the code it executes
  released   \* history: the frames clean-ups freed through kernel entries

vars == <<bitmap, accessed, prog, step, seg, cr3, heap, halted, released>>

Region(f) == f \div FramesPerPde

RegionFrames(r) == {f \in Frame : Region(f) = r}

\* The tables of kernel_page_dir are the last of the kernel's frames.
KernelTable(r) == KernelFrames - 1 - r

\* inherited: entries copied from the kernel's directory and still present;
\* seen: those that had the Accessed bit when they were copied.
Empty == [status |-> "none", pd |-> NoFrame, inherited |-> {}, seen |-> {},
          table |-> NoFrame, pages |-> {}, task |-> NoFrame, stack |-> {}]

\* The starts of the runs of n free frames, when the frames in taken are not.
FreeRuns(taken, n) ==
  {f \in Frame : f + n <= NFrames /\ \A k \in 0..n - 1 : f + k \notin taken}

\* alloc_frame and alloc_frames: first fit.
FirstFit(taken, n) ==
  CHOOSE f \in FreeRuns(taken, n) : \A g \in FreeRuns(taken, n) : f <= g

Run(f, n) == f..f + n - 1

HeapFrames == {f \in RegionFrames(UserPde) : f < UserPde * FramesPerPde + HeapLength}

\* The kernel writes to the frames in F.
Touch(F) ==
  /\ accessed' = accessed \cup {Region(f) : f \in F}
  /\ heap' = IF F \cap HeapFrames = {} THEN heap ELSE "overwritten"

\* What entry r of a program's directory leads to: its own table and pages,
\* or a table of the kernel.
Reached(p, r) ==
  IF r = UserPde THEN {prog[p].table} \cup prog[p].pages
  ELSE {KernelTable(r)} \cup RegionFrames(r)

\* The entries copied from the kernel's directory that do not equal its
\* entries any more. The comparison covers the whole word, so also the
\* Accessed bit. The program's own entry always differs.
Differs(p) == {r \in prog[p].inherited : (r \in prog[p].seen) # (r \in accessed)}

StackFreed_OneMore(p) == prog[p].stack \cup {f + 1 : f \in prog[p].stack}

\* free_frames(kernel_stack_base, TASK_STACK_SIZE >> 12).
StackFreed(p) == prog[p].stack

-----------------------------------------------------------------------------
(* elf_exec *)

Loading(p, l) == ~halted /\ step = l /\ prog[p].status = "loading"

\* Error return: whatever the program still held is never given back.
Fails(p) ==
  /\ step' = "idle"
  /\ seg' = 0
  /\ prog' = [prog EXCEPT ![p] = [Empty EXCEPT !.status = "ended"]]

\* The file is valid: page_dir_create, then pd[USER_PDE_IDX] = 0.
CreateDir(p) ==
  /\ ~halted /\ step = "idle" /\ prog[p].status = "none"
  /\ FreeRuns(bitmap, 1) # {}
  /\ LET pd == FirstFit(bitmap, 1)
     IN  /\ bitmap' = bitmap \cup {pd}
         /\ Touch({pd})
         /\ prog' = [prog EXCEPT ![p] = [Empty EXCEPT
                       !.status = "loading", !.pd = pd,
                       !.inherited = Pde \ {UserPde}, !.seen = accessed]]
  /\ step' = "map"
  /\ UNCHANGED <<seg, cr3, halted, released>>

DirFails(p) ==
  /\ ~halted /\ step = "idle" /\ prog[p].status = "none"
  /\ FreeRuns(bitmap, 1) = {}
  /\ Fails(p)
  /\ UNCHANGED <<bitmap, accessed, cr3, heap, halted, released>>

\* What one turn of the mapping loop allocates: the page, and the table if
\* there is none yet. The kernel writes the table only.
PageFrame == FirstFit(bitmap, 1)
TableFrame(p) ==
  IF prog[p].table # NoFrame THEN prog[p].table
  ELSE FirstFit(bitmap \cup {PageFrame}, 1)

\* alloc_frame and map_page_to_dir succeed. After the last page the CPU
\* switches to the program's directory.
MapPage(p) ==
  /\ Loading(p, "map")
  /\ Cardinality(Frame \ bitmap) >= IF prog[p].table = NoFrame THEN 2 ELSE 1
  /\ LET last == Cardinality(prog[p].pages) = Pages - 1
     IN  /\ step' = IF last THEN "load" ELSE "map"
         /\ cr3' = IF last THEN p ELSE cr3
  /\ bitmap' = bitmap \cup {PageFrame, TableFrame(p)}
  /\ Touch({TableFrame(p)})
  /\ prog' = [prog EXCEPT ![p].pages = @ \cup {PageFrame}, ![p].table = TableFrame(p)]
  /\ UNCHANGED <<seg, halted, released>>

\* No frame for the page, or for its table: only the directory is freed.
MapFails(p) ==
  /\ Loading(p, "map")
  /\ IF FreeRuns(bitmap, 1) = {}
     THEN bitmap' = bitmap \ {prog[p].pd}
     ELSE /\ prog[p].table = NoFrame
          /\ Cardinality(Frame \ bitmap) = 1
          /\ bitmap' = (bitmap \cup {PageFrame}) \ {prog[p].pd}
  /\ Fails(p)
  /\ UNCHANGED <<accessed, cr3, heap, halted, released>>

\* Writes to the program's virtual addresses, through the directory in cr3.
\* Which of its pages they cover is left open.
WriteProgram ==
  IF cr3 = Kernel THEN heap' = "overwritten"
  ELSE \/ heap' = heap
       \/ prog[cr3].pages \cap HeapFrames # {} /\ heap' = "overwritten"

CopySegment_NoBound ==
  /\ ~halted /\ step = "load" /\ seg <= Segments
  /\ seg' = seg + 1
  /\ WriteProgram
  /\ UNCHANGED <<bitmap, accessed, prog, step, cr3, halted, released>>

\* lib_memcpy and lib_memset of one PT_LOAD segment.
CopySegment ==
  /\ ~halted /\ step = "load" /\ seg < Segments
  /\ seg' = seg + 1
  /\ WriteProgram
  /\ UNCHANGED <<bitmap, accessed, prog, step, cr3, halted, released>>

\* The exit trampoline and the stack, back to kernel_page_dir, pd[0] and
\* pd[1] cleared.
SwitchBack(p) ==
  /\ Loading(p, "load") /\ seg = Segments
  /\ WriteProgram
  /\ cr3' = Kernel
  /\ prog' = [prog EXCEPT ![p].inherited = @ \ {0, 1}]
  /\ step' = "task"
  /\ seg' = 0
  /\ UNCHANGED <<bitmap, accessed, halted, released>>

\* alloc_task, then alloc_frames for the kernel stack.
TaskFrame == FirstFit(bitmap, 1)
StackRuns == FreeRuns(bitmap \cup {TaskFrame}, StackFrames)

MakeTask(p) ==
  /\ Loading(p, "task")
  /\ FreeRuns(bitmap, 1) # {} /\ StackRuns # {}
  /\ LET s == Run(FirstFit(bitmap \cup {TaskFrame}, StackFrames), StackFrames)
     IN  /\ bitmap' = bitmap \cup {TaskFrame} \cup s
         /\ Touch({TaskFrame} \cup s)
         /\ prog' = [prog EXCEPT ![p].status = "ready", ![p].task = TaskFrame,
                                 ![p].stack = s]
  /\ step' = "idle"
  /\ UNCHANGED <<seg, cr3, halted, released>>

\* No frame for the task, or no run for its stack: free_frame(t) at most.
TaskFails(p) ==
  /\ Loading(p, "task")
  /\ IF FreeRuns(bitmap, 1) = {} THEN UNCHANGED <<accessed, heap>>
     ELSE StackRuns = {} /\ Touch({TaskFrame})
  /\ Fails(p)
  /\ UNCHANGED <<bitmap, cr3, halted, released>>

-----------------------------------------------------------------------------
(* The other tasks *)

\* A tick takes the CPU from the shell while it loads; the next dispatch of
\* the shell loads shell->page_dir, which is kernel_page_dir.
PreemptLoad ==
  /\ ~halted /\ step = "load" /\ cr3 # Kernel
  /\ cr3' = Kernel
  /\ UNCHANGED <<bitmap, accessed, prog, step, seg, heap, halted, released>>

\* task_kill of a program that waits: what the differing entries lead to,
\* the directory and the stack are freed. The frame of the task_t is not.
\* SYS_EXIT would do the same, but no program gets to make a system call:
\* see DispatchProgram.
KillProgram(p) ==
  /\ ~halted /\ step = "idle" /\ prog[p].status = "ready"
  /\ LET own    == Reached(p, UserPde) \cup {prog[p].pd} \cup StackFreed(p)
         shared == UNION {Reached(p, r) : r \in Differs(p)}
     IN  /\ bitmap' = bitmap \ (own \cup shared)
         /\ released' = released \cup shared
  /\ prog' = [prog EXCEPT ![p] = [Empty EXCEPT !.status = "ended", !.task = prog[p].task]]
  /\ UNCHANGED <<accessed, step, seg, cr3, heap, halted>>

\* task_switch_from loads the program's directory; the next instruction is
\* kernel code, in region 0.
DispatchProgram(p) ==
  /\ ~halted /\ prog[p].status = "ready"
  /\ halted' = (0 \notin prog[p].inherited)
  /\ UNCHANGED <<bitmap, accessed, prog, step, seg, cr3, heap, released>>

\* The shell is about to run its first exec; heap_init touched the heap.
Init ==
  /\ bitmap = 0..KernelFrames - 1
  /\ accessed = {0, UserPde}
  /\ prog = [p \in Prog |-> Empty]
  /\ step = "idle"
  /\ seg = 0
  /\ cr3 = Kernel
  /\ heap = "intact"
  /\ halted = FALSE
  /\ released = {}

Next ==
  \/ CopySegment
  \/ PreemptLoad
  \/ \E p \in Prog :
       \/ CreateDir(p)
       \/ DirFails(p)
       \/ MapPage(p)
       \/ MapFails(p)
       \/ SwitchBack(p)
       \/ MakeTask(p)
       \/ TaskFails(p)
       \/ KillProgram(p)
       \/ DispatchProgram(p)

Spec == Init /\ [][Next]_vars

-----------------------------------------------------------------------------
(* Properties *)

\* The steps of elf_exec and the frames it hands out keep their types, and a
\* program never gets more than its pages.
TypeOK ==
  /\ bitmap \subseteq Frame
  /\ accessed \subseteq Pde
  /\ \A p \in Prog :
       /\ prog[p].status \in {"none", "loading", "ready", "ended"}
       /\ {prog[p].pd, prog[p].table, prog[p].task} \subseteq Frame \cup {NoFrame}
       /\ prog[p].pages \cup prog[p].stack \subseteq Frame
       /\ Cardinality(prog[p].pages) <= Pages
       /\ prog[p].seen \cup prog[p].inherited \subseteq Pde
  /\ step \in {"idle", "map", "load", "task"}
  /\ seg \in 0..Segments
  /\ cr3 \in Prog \cup {Kernel}
  /\ heap \in {"intact", "overwritten"}
  /\ halted \in BOOLEAN
  /\ released \subseteq Frame

\* The frames of a program.
Owned(p) ==
  ({prog[p].pd, prog[p].table, prog[p].task} \ {NoFrame})
    \cup prog[p].pages \cup prog[p].stack

\* A frame pfa_init reserved or a program holds is marked in the bitmap and
\* has one owner, the kernel or one program, through every allocation, every
\* failure of elf_exec and every task_kill, unless a clean-up released it
\* through an entry of the kernel's directory whose Accessed bit changed after
\* it was copied. task_kill frees "per-process page tables (skip PDEs matching
\* kernel)" (CODEBASE_INDEX.md:452, task.c:228-248, elf.c:340-455): what its
\* test of the entries lets through is all that can go wrong.
OneOwner ==
  LET reserved == 0..KernelFrames - 1
  IN  /\ reserved \subseteq bitmap \cup released
      /\ \A p \in Prog :
           /\ Owned(p) \ released \subseteq bitmap \ reserved
           /\ \A q \in Prog \ {p} : Owned(p) \cap Owned(q) \subseteq released

\* Loading a program does not write the kernel heap, whose addresses it
\* shares and whose frames alloc_frame may hand out (pfa.c:51): "Per-process
\* page directories isolate each user task's address space" (README.md:323).
HeapIntact == heap = "intact"
=============================================================================
