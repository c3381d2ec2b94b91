---------------------------- MODULE LoaderProofs ----------------------------
(***************************************************************************)
(* The frames of programs, for any size of memory, any number of programs, *)
(* pages and stack frames: the types, and the one owner of every frame     *)
(* that no clean-up released through an entry of the kernel's directory.   *)
(***************************************************************************)
EXTENDS Loader, ProofLemmas, FiniteSetTheorems, TLAPS

Record ==
  [status : {"none", "loading", "ready", "ended"}, pd : Frame \cup {NoFrame},
   inherited : SUBSET Pde, seen : SUBSET Pde, table : Frame \cup {NoFrame},
   pages : SUBSET Frame, task : Frame \cup {NoFrame}, stack : SUBSET Frame]

Typed ==
  /\ bitmap \subseteq Frame
  /\ accessed \subseteq Pde
  /\ prog \in [Prog -> Record]
  /\ step \in {"idle", "map", "load", "task"}
  /\ seg \in 0..Segments
  /\ cr3 \in Prog \cup {Kernel}
  /\ heap \in {"intact", "overwritten"}
  /\ halted \in BOOLEAN
  /\ released \subseteq Frame

\* elf_exec loads one program at a time.
OneLoads ==
  /\ \A p \in Prog : prog[p].status = "loading" => step # "idle"
  /\ \A p, q \in Prog :
       prog[p].status = "loading" /\ prog[q].status = "loading" => p = q

\* The mapping loop has mapped fewer pages than it must, and stops in time.
PagesBounded ==
  \A p \in Prog :
    /\ Cardinality(prog[p].pages) <= Pages
    /\ prog[p].status = "loading" /\ step = "map" =>
         Cardinality(prog[p].pages) < Pages

\* The entries of a program's directory that are the kernel's own.
Entries ==
  \A p \in Prog :
    /\ UserPde \notin prog[p].inherited
    /\ \/ prog[p].status = "ready"
       \/ prog[p].status = "loading" /\ step = "task"
       => prog[p].inherited \cap {0, 1} = {}

TypeInv == Typed /\ OneLoads /\ PagesBounded /\ Entries

-----------------------------------------------------------------------------
(* The leaves are for Zenon, unless they cite SMT.                         *)
USE Zenon

LEMMA Sizes ==
  /\ NFrames \in Nat /\ KernelFrames \in Nat \ {0} /\ KernelFrames <= NFrames
  /\ NPde \in Nat \ {0} /\ FramesPerPde \in Nat \ {0} /\ Pages \in Nat \ {0}
  /\ StackFrames \in Nat \ {0} /\ Segments \in Nat \ {0}
<1>1. /\ NPde \in Nat \ {0} /\ FramesPerPde \in Nat \ {0}
      /\ KernelFrames \in Nat \ {0} /\ KernelFrames <= FramesPerPde
      /\ Pages \in Nat \ {0} /\ StackFrames \in Nat \ {0}
      /\ Segments \in Nat \ {0}
  BY LoaderAssumption
<1>2. NPde * FramesPerPde \in Nat /\ NPde * FramesPerPde >= FramesPerPde
  BY <1>1, SMT
<1>. QED BY <1>1, <1>2, SMT DEF NFrames

LEMMA FrameFinite == IsFiniteSet(Frame) /\ \A S \in SUBSET Frame : IsFiniteSet(S)
<1>1. IsFiniteSet(Frame)
  BY Sizes, FS_Interval, SMT DEF Frame
<1>. QED BY <1>1, FS_Subset

LEMMA RegionType ==
  ASSUME NEW f \in Frame
  PROVE  Region(f) \in Pde
<1>1. f \in Nat /\ f < NPde * FramesPerPde
  BY Sizes, SMT DEF Frame, NFrames
<1>2. NPde \in Nat \ {0} /\ FramesPerPde \in Nat \ {0}
  BY Sizes
<1>3. PICK q \in Int : q = f \div FramesPerPde
  BY <1>1, <1>2, SMT
<1>4. q >= 0 /\ q * FramesPerPde <= f
  BY <1>1, <1>2, <1>3, SMT
<1>5. q < NPde
  <2>. SUFFICES ASSUME q >= NPde PROVE FALSE
    BY <1>2, <1>3, SMT
  <2>1. q * FramesPerPde >= NPde * FramesPerPde
    BY <1>2, SMT
  <2>2. q * FramesPerPde \in Int /\ NPde * FramesPerPde \in Int
    BY <1>2, SMT
  <2>. QED BY <1>1, <1>4, <2>1, <2>2, SMT
<1>. QED BY <1>2, <1>3, <1>4, <1>5, SMT DEF Region, Pde

LEMMA TouchType ==
  ASSUME accessed \subseteq Pde, NEW F \in SUBSET Frame, Touch(F)
  PROVE  accessed' \subseteq Pde /\ heap' \in {heap, "overwritten"}
BY RegionType DEF Touch

LEMMA EmptyType == Empty \in Record /\ Cardinality(Empty.pages) = 0
BY FS_EmptySet DEF Empty, Record

LEMMA FirstFitResult ==
  ASSUME NEW taken, NEW n \in Nat \ {0}, FreeRuns(taken, n) # {}
  PROVE  /\ FirstFit(taken, n) \in Frame
         /\ Run(FirstFit(taken, n), n) \subseteq Frame \ taken
<1>1. FreeRuns(taken, n) \subseteq Nat
  BY Sizes, SMT DEF FreeRuns, Frame
<1>2. \E f \in FreeRuns(taken, n) : \A g \in FreeRuns(taken, n) : f <= g
  BY <1>1, LeastElement
<1>3. PICK f \in FreeRuns(taken, n) : f = FirstFit(taken, n)
  BY <1>2 DEF FirstFit
<1>4. f \in Frame /\ f + n <= NFrames /\ \A k \in 0..n - 1 : f + k \notin taken
  BY DEF FreeRuns
<1>5. \A a \in f..f + n - 1 : a \in Frame /\ a \notin taken
  <2>. TAKE a \in f..f + n - 1
  <2>1. a - f \in 0..n - 1 /\ f + (a - f) = a /\ a \in Frame
    BY <1>4, Sizes, SMT DEF Frame
  <2>. QED BY <1>4, <2>1
<1>. QED BY <1>3, <1>4, <1>5 DEF Run

\* alloc_frame: a frame that was not used.
LEMMA OneFrame ==
  ASSUME NEW taken
  PROVE  /\ FreeRuns(taken, 1) = Frame \ taken
         /\ FreeRuns(taken, 1) # {} => FirstFit(taken, 1) \in Frame \ taken
<1>1. FreeRuns(taken, 1) = Frame \ taken
  BY Sizes, SMT DEF FreeRuns, Frame
<1>2. ASSUME FreeRuns(taken, 1) # {} PROVE FirstFit(taken, 1) \in Frame \ taken
  <2>1. /\ FirstFit(taken, 1) \in Frame
        /\ Run(FirstFit(taken, 1), 1) \subseteq Frame \ taken
    BY <1>2, FirstFitResult, SMT
  <2>2. FirstFit(taken, 1) \in Run(FirstFit(taken, 1), 1)
    BY <2>1, Sizes, SMT DEF Run, Frame
  <2>. QED BY <2>1, <2>2
<1>. QED BY <1>1, <1>2
-----------------------------------------------------------------------------
(* What each action does to the program it is about: the new record r.     *)

Becomes(p, r) == r \in Record /\ prog' = [prog EXCEPT ![p] = r]

LEMMA OnlyOne ==
  ASSUME Typed, NEW p \in Prog, NEW r, Becomes(p, r)
  PROVE  /\ prog' \in [Prog -> Record] /\ prog'[p] = r
         /\ \A q \in Prog \ {p} : prog'[q] = prog[q]
BY DEF Typed, Becomes

LEMMA EndedRecord ==
  LET r == [Empty EXCEPT !.status = "ended"]
  IN  /\ r \in Record /\ r.status = "ended" /\ r.pages = {} /\ r.inherited = {}
      /\ r.pd = NoFrame /\ r.table = NoFrame /\ r.task = NoFrame /\ r.stack = {}
BY DEF Empty, Record

LEMMA FailsDoes ==
  ASSUME Typed, NEW p \in Prog, Fails(p)
  PROVE  \E r : /\ Becomes(p, r) /\ r.status = "ended" /\ r.pages = {}
                /\ r.inherited = {} /\ r.pd = NoFrame /\ r.table = NoFrame
                /\ r.task = NoFrame /\ r.stack = {}
BY EndedRecord DEF Fails, Becomes

LEMMA CreateDirDoes ==
  ASSUME Typed, NEW p \in Prog, CreateDir(p)
  PROVE  \E r, f : /\ Becomes(p, r) /\ f \in Frame \ bitmap
                   /\ bitmap' = bitmap \cup {f} /\ Touch({f})
                   /\ r.status = "loading" /\ r.pd = f /\ r.table = NoFrame
                   /\ r.task = NoFrame /\ r.pages = {} /\ r.stack = {}
                   /\ r.inherited = Pde \ {UserPde}
<1>. DEFINE f == FirstFit(bitmap, 1)
            r == [Empty EXCEPT !.status = "loading", !.pd = f,
                    !.inherited = Pde \ {UserPde}, !.seen = accessed]
<1>1. /\ prog' = [prog EXCEPT ![p] = r] /\ bitmap' = bitmap \cup {f}
      /\ Touch({f})
  BY DEF CreateDir
<1>2. f \in Frame \ bitmap
  BY OneFrame DEF CreateDir
<1>. HIDE DEF f
<1>3. /\ r \in Record /\ r.status = "loading" /\ r.pd = f /\ r.table = NoFrame
      /\ r.task = NoFrame /\ r.pages = {} /\ r.stack = {}
      /\ r.inherited = Pde \ {UserPde}
  BY <1>2 DEF Empty, Record, Typed
<1>. HIDE DEF r
<1>. QED BY <1>1, <1>2, <1>3 DEF Becomes

LEMMA TwoFrames ==
  ASSUME Typed, NEW f \in Frame \ bitmap, Cardinality(Frame \ bitmap) >= 2
  PROVE  FreeRuns(bitmap \cup {f}, 1) # {}
<1>1. IsFiniteSet(Frame \ bitmap) /\ Cardinality(Frame \ bitmap) \in Nat
  BY FrameFinite, FS_CardinalityType
<1>2. Cardinality((Frame \ bitmap) \ {f}) = Cardinality(Frame \ bitmap) - 1
  BY <1>1, FS_RemoveElement
<1>3. (Frame \ bitmap) \ {f} # {}
  BY <1>1, <1>2, FS_EmptySet, SMT
<1>4. FreeRuns(bitmap \cup {f}, 1) = Frame \ (bitmap \cup {f})
  BY OneFrame
<1>. QED BY <1>3, <1>4

LEMMA MapPageDoes ==
  ASSUME Typed, NEW p \in Prog, MapPage(p)
  PROVE  \E r, f, t :
           /\ Becomes(p, r) /\ f \in Frame \ bitmap
           /\ IF prog[p].table = NoFrame THEN t \in Frame \ (bitmap \cup {f})
              ELSE t = prog[p].table
           /\ bitmap' = bitmap \cup {f, t} /\ Touch({t}) /\ t \in Frame
           /\ r.status = "loading" /\ r.pd = prog[p].pd /\ r.table = t
           /\ r.task = prog[p].task /\ r.stack = prog[p].stack
           /\ r.pages = prog[p].pages \cup {f}
           /\ r.inherited = prog[p].inherited
<1>. DEFINE f == PageFrame
            t == TableFrame(p)
            r == [prog[p] EXCEPT !.pages = prog[p].pages \cup {f}, !.table = t]
<1>1. prog[p] \in Record /\ prog[p].status = "loading"
  BY DEF Typed, MapPage, Loading
<1>2. IsFiniteSet(Frame \ bitmap) /\ Cardinality(Frame \ bitmap) \in Nat
  BY FrameFinite, FS_CardinalityType
<1>3. Cardinality(Frame \ bitmap) >= IF prog[p].table = NoFrame THEN 2 ELSE 1
  BY DEF MapPage
<1>4. f \in Frame \ bitmap
  <2>1. Frame \ bitmap # {}
    BY <1>2, <1>3, FS_EmptySet, SMT
  <2>. QED BY <2>1, OneFrame DEF PageFrame
<1>5. IF prog[p].table = NoFrame THEN t \in Frame \ (bitmap \cup {f})
      ELSE t = prog[p].table
  <2>1. CASE prog[p].table = NoFrame
    <3>1. FreeRuns(bitmap \cup {f}, 1) # {}
      BY <1>3, <1>4, <2>1, TwoFrames
    <3>2. FirstFit(bitmap \cup {f}, 1) \in Frame \ (bitmap \cup {f})
      BY <3>1, OneFrame
    <3>. QED BY <2>1, <3>2 DEF TableFrame
  <2>2. CASE prog[p].table # NoFrame
    BY <2>2 DEF TableFrame
  <2>. QED BY <2>1, <2>2
<1>6. /\ bitmap' = bitmap \cup {f, t} /\ Touch({t})
      /\ prog' = [prog EXCEPT ![p].pages = prog[p].pages \cup {f}, ![p].table = t]
  BY DEF MapPage
<1>. HIDE DEF f, t
<1>7. prog' = [prog EXCEPT ![p] = r]
  BY <1>6 DEF Typed, Record
<1>8. t \in Frame
  BY <1>1, <1>5 DEF Record
<1>9. /\ r \in Record
      /\ r.status = "loading" /\ r.pd = prog[p].pd /\ r.table = t
      /\ r.task = prog[p].task /\ r.stack = prog[p].stack
      /\ r.pages = prog[p].pages \cup {f}
      /\ r.inherited = prog[p].inherited
  BY <1>1, <1>4, <1>8 DEF Record
<1>. HIDE DEF r
<1>. QED BY <1>4, <1>5, <1>6, <1>7, <1>8, <1>9 DEF Becomes
LEMMA SwitchBackDoes ==
  ASSUME Typed, NEW p \in Prog, SwitchBack(p)
  PROVE  \E r : /\ Becomes(p, r)
                /\ r.status = "loading" /\ r.pd = prog[p].pd
                /\ r.table = prog[p].table /\ r.task = prog[p].task
                /\ r.pages = prog[p].pages /\ r.stack = prog[p].stack
                /\ r.inherited = prog[p].inherited \ {0, 1}
<1>. DEFINE r == [prog[p] EXCEPT !.inherited = prog[p].inherited \ {0, 1}]
<1>1. prog[p] \in Record /\ prog[p].status = "loading"
  BY DEF Typed, SwitchBack, Loading
<1>2. prog' = [prog EXCEPT ![p] = r]
  BY DEF SwitchBack, Typed
<1>3. /\ r \in Record
      /\ r.status = "loading" /\ r.pd = prog[p].pd
      /\ r.table = prog[p].table /\ r.task = prog[p].task
      /\ r.pages = prog[p].pages /\ r.stack = prog[p].stack
      /\ r.inherited = prog[p].inherited \ {0, 1}
  BY <1>1 DEF Record
<1>. HIDE DEF r
<1>. QED BY <1>2, <1>3 DEF Becomes

LEMMA MakeTaskDoes ==
  ASSUME Typed, NEW p \in Prog, MakeTask(p)
  PROVE  \E r, f, F :
           /\ Becomes(p, r) /\ f \in Frame \ bitmap
           /\ F \subseteq Frame \ (bitmap \cup {f})
           /\ bitmap' = bitmap \cup {f} \cup F /\ Touch({f} \cup F)
           /\ r.status = "ready" /\ r.pd = prog[p].pd
           /\ r.table = prog[p].table /\ r.task = f
           /\ r.pages = prog[p].pages /\ r.stack = F
           /\ r.inherited = prog[p].inherited
<1>. DEFINE f == TaskFrame
            F == Run(FirstFit(bitmap \cup {f}, StackFrames), StackFrames)
            r == [prog[p] EXCEPT !.status = "ready", !.task = f, !.stack = F]
<1>1. prog[p] \in Record
  BY DEF Typed
<1>2. f \in Frame \ bitmap
  BY OneFrame DEF MakeTask, TaskFrame
<1>3. F \subseteq Frame \ (bitmap \cup {f})
  BY Sizes, FirstFitResult DEF MakeTask, StackRuns
<1>4. /\ bitmap' = bitmap \cup {f} \cup F /\ Touch({f} \cup F)
      /\ prog' = [prog EXCEPT ![p].status = "ready", ![p].task = f, ![p].stack = F]
  BY DEF MakeTask
<1>. HIDE DEF f, F
<1>5. prog' = [prog EXCEPT ![p] = r]
  BY <1>4 DEF Typed, Record
<1>6. /\ r \in Record
      /\ r.status = "ready" /\ r.pd = prog[p].pd
      /\ r.table = prog[p].table /\ r.task = f
      /\ r.pages = prog[p].pages /\ r.stack = F
      /\ r.inherited = prog[p].inherited
  BY <1>1, <1>2, <1>3 DEF Record
<1>. HIDE DEF r
<1>. QED BY <1>2, <1>3, <1>4, <1>5, <1>6 DEF Becomes

LEMMA KillProgramDoes ==
  ASSUME Typed, NEW p \in Prog, KillProgram(p)
  PROVE  \E r : /\ Becomes(p, r)
                /\ r.status = "ended" /\ r.pd = NoFrame /\ r.table = NoFrame
                /\ r.task = prog[p].task /\ r.pages = {} /\ r.stack = {}
                /\ r.inherited = {}
<1>. DEFINE r == [Empty EXCEPT !.status = "ended", !.task = prog[p].task]
<1>1. prog[p] \in Record
  BY DEF Typed
<1>2. prog' = [prog EXCEPT ![p] = r]
  BY DEF KillProgram
<1>3. /\ r \in Record
      /\ r.status = "ended" /\ r.pd = NoFrame /\ r.table = NoFrame
      /\ r.task = prog[p].task /\ r.pages = {} /\ r.stack = {}
      /\ r.inherited = {}
  BY <1>1 DEF Empty, Record
<1>. HIDE DEF r
<1>. QED BY <1>2, <1>3 DEF Becomes

-----------------------------------------------------------------------------
(* Types                                                                   *)

\* A step that changes the record of one program keeps the parts of TypeInv
\* that are about the programs.
LEMMA RecordStep ==
  ASSUME TypeInv, NEW p \in Prog, NEW r, Becomes(p, r),
         Cardinality(r.pages) <= Pages, UserPde \notin r.inherited,
         step' = step \/ \A q \in Prog \ {p} : prog[q].status # "loading",
         r.status = "loading" =>
           /\ step' # "idle"
           /\ \A q \in Prog \ {p} : prog[q].status # "loading"
           /\ step' = "map" => Cardinality(r.pages) < Pages,
         \/ r.status = "ready"
         \/ r.status = "loading" /\ step' = "task"
         => r.inherited \cap {0, 1} = {}
  PROVE  /\ prog' \in [Prog -> Record]
         /\ OneLoads' /\ PagesBounded' /\ Entries'
<1>1. /\ prog' \in [Prog -> Record] /\ prog'[p] = r
      /\ \A q \in Prog \ {p} : prog'[q] = prog[q]
  BY OnlyOne DEF TypeInv
<1>2. OneLoads'
  BY <1>1 DEF TypeInv, OneLoads
<1>3. PagesBounded'
  BY <1>1 DEF TypeInv, PagesBounded
<1>4. Entries'
  BY <1>1 DEF TypeInv, Entries
<1>. QED BY <1>1, <1>2, <1>3, <1>4

LEMMA NoPages == Cardinality({}) = 0 /\ 0 <= Pages /\ 0 < Pages
BY FS_EmptySet, Sizes, SMT

LEMMA Alone ==
  ASSUME OneLoads, NEW p \in Prog, prog[p].status = "loading"
  PROVE  \A q \in Prog \ {p} : prog[q].status # "loading"
BY DEF OneLoads
LEMMA FailsKeeps ==
  ASSUME TypeInv, NEW p \in Prog, Fails(p),
         step = "idle" \/ prog[p].status = "loading",
         bitmap' \subseteq Frame, accessed' \subseteq Pde,
         heap' \in {heap, "overwritten"}, UNCHANGED <<cr3, halted, released>>
  PROVE  TypeInv'
<1>1. PICK r : /\ Becomes(p, r) /\ r.status = "ended" /\ r.pages = {}
               /\ r.inherited = {}
  BY FailsDoes DEF TypeInv
<1>2. \A q \in Prog \ {p} : prog[q].status # "loading"
  BY Alone DEF TypeInv, OneLoads
<1>3. /\ prog' \in [Prog -> Record]
      /\ OneLoads' /\ PagesBounded' /\ Entries'
  BY <1>1, <1>2, NoPages, RecordStep
<1>4. Typed'
  BY <1>3, Sizes, SMT DEF TypeInv, Typed, Fails
<1>. QED BY <1>3, <1>4 DEF TypeInv

LEMMA CreateDirKeeps ==
  ASSUME TypeInv, NEW p \in Prog, CreateDir(p)
  PROVE  TypeInv'
<1>1. PICK r, f : /\ Becomes(p, r) /\ f \in Frame \ bitmap
                  /\ bitmap' = bitmap \cup {f} /\ Touch({f})
                  /\ r.status = "loading" /\ r.pages = {}
                  /\ r.inherited = Pde \ {UserPde}
  BY CreateDirDoes DEF TypeInv
<1>2. step = "idle" /\ step' = "map" /\ UNCHANGED <<seg, cr3, halted, released>>
  BY DEF CreateDir
<1>3. \A q \in Prog \ {p} : prog[q].status # "loading"
  BY <1>2 DEF TypeInv, OneLoads
<1>4. /\ prog' \in [Prog -> Record]
      /\ OneLoads' /\ PagesBounded' /\ Entries'
  BY <1>1, <1>2, <1>3, NoPages, RecordStep
<1>5. accessed' \subseteq Pde /\ heap' \in {heap, "overwritten"}
  BY <1>1, TouchType DEF TypeInv, Typed
<1>6. Typed'
  BY <1>1, <1>2, <1>4, <1>5 DEF TypeInv, Typed
<1>. QED BY <1>4, <1>6 DEF TypeInv

LEMMA MapPageKeeps ==
  ASSUME TypeInv, NEW p \in Prog, MapPage(p)
  PROVE  TypeInv'
<1>1. PICK r, f, t :
        /\ Becomes(p, r) /\ f \in Frame \ bitmap
        /\ bitmap' = bitmap \cup {f, t} /\ Touch({t}) /\ t \in Frame
        /\ r.status = "loading" /\ r.pages = prog[p].pages \cup {f}
        /\ r.inherited = prog[p].inherited
  BY MapPageDoes DEF TypeInv
<1>2. /\ step = "map" /\ prog[p].status = "loading"
      /\ LET last == Cardinality(prog[p].pages) = Pages - 1
         IN  /\ step' = IF last THEN "load" ELSE "map"
             /\ cr3' = IF last THEN p ELSE cr3
      /\ UNCHANGED <<seg, halted, released>>
  BY DEF MapPage, Loading
<1>3. \A q \in Prog \ {p} : prog[q].status # "loading"
  BY <1>2, Alone DEF TypeInv
<1>4. /\ Cardinality(r.pages) \in Nat /\ Cardinality(prog[p].pages) \in Nat
      /\ Cardinality(r.pages) <= Cardinality(prog[p].pages) + 1
      /\ Cardinality(prog[p].pages) < Pages /\ Pages \in Nat
  <2>1. prog[p].pages \in SUBSET Frame
    BY DEF TypeInv, Typed, Record
  <2>2. IsFiniteSet(prog[p].pages) /\ Cardinality(prog[p].pages) \in Nat
    BY <2>1, FrameFinite, FS_CardinalityType
  <2>3. Cardinality(prog[p].pages) < Pages /\ Pages \in Nat
    BY <1>2, Sizes DEF TypeInv, PagesBounded
  <2>4. Cardinality(prog[p].pages \cup {f}) =
          IF f \in prog[p].pages THEN Cardinality(prog[p].pages)
          ELSE Cardinality(prog[p].pages) + 1
    BY <2>2, FS_AddElement
  <2>5. r.pages = prog[p].pages \cup {f}
    BY <1>1
  <2>. QED BY <2>2, <2>3, <2>4, <2>5, SMT
<1>5. Cardinality(r.pages) <= Pages /\ (step' = "map" => Cardinality(r.pages) < Pages)
  BY <1>2, <1>4, SMT
<1>6. UserPde \notin r.inherited /\ step' \in {"map", "load"}
  BY <1>1, <1>2 DEF TypeInv, Entries
<1>7. /\ prog' \in [Prog -> Record]
      /\ OneLoads' /\ PagesBounded' /\ Entries'
  BY <1>1, <1>3, <1>5, <1>6, RecordStep
<1>8. accessed' \subseteq Pde /\ heap' \in {heap, "overwritten"}
  BY <1>1, TouchType DEF TypeInv, Typed
<1>9. Typed'
  BY <1>1, <1>2, <1>7, <1>8 DEF TypeInv, Typed
<1>. QED BY <1>7, <1>9 DEF TypeInv

LEMMA SwitchBackKeeps ==
  ASSUME TypeInv, NEW p \in Prog, SwitchBack(p)
  PROVE  TypeInv'
<1>1. PICK r : /\ Becomes(p, r) /\ r.status = "loading"
               /\ r.pages = prog[p].pages
               /\ r.inherited = prog[p].inherited \ {0, 1}
  BY SwitchBackDoes DEF TypeInv
<1>2. /\ prog[p].status = "loading" /\ step' = "task" /\ cr3' = Kernel
      /\ seg' = 0 /\ heap' \in {heap, "overwritten"}
      /\ UNCHANGED <<bitmap, accessed, halted, released>>
  BY DEF SwitchBack, Loading, WriteProgram
<1>3. \A q \in Prog \ {p} : prog[q].status # "loading"
  BY <1>2, Alone DEF TypeInv
<1>4. /\ Cardinality(r.pages) <= Pages /\ UserPde \notin r.inherited
      /\ r.inherited \cap {0, 1} = {}
  BY <1>1 DEF TypeInv, PagesBounded, Entries
<1>5. /\ prog' \in [Prog -> Record]
      /\ OneLoads' /\ PagesBounded' /\ Entries'
  BY <1>1, <1>2, <1>3, <1>4, RecordStep
<1>6. Typed'
  BY <1>2, <1>5, Sizes, SMT DEF TypeInv, Typed
<1>. QED BY <1>5, <1>6 DEF TypeInv

LEMMA MakeTaskKeeps ==
  ASSUME TypeInv, NEW p \in Prog, MakeTask(p)
  PROVE  TypeInv'
<1>1. PICK r, f, F :
        /\ Becomes(p, r) /\ f \in Frame \ bitmap
        /\ F \subseteq Frame \ (bitmap \cup {f})
        /\ bitmap' = bitmap \cup {f} \cup F /\ Touch({f} \cup F)
        /\ r.status = "ready" /\ r.pages = prog[p].pages
        /\ r.inherited = prog[p].inherited
  BY MakeTaskDoes DEF TypeInv
<1>2. /\ prog[p].status = "loading" /\ step = "task" /\ step' = "idle"
      /\ UNCHANGED <<seg, cr3, halted, released>>
  BY DEF MakeTask, Loading
<1>3. \A q \in Prog \ {p} : prog[q].status # "loading"
  BY <1>2, Alone DEF TypeInv
<1>4. /\ Cardinality(r.pages) <= Pages /\ UserPde \notin r.inherited
      /\ r.inherited \cap {0, 1} = {}
  BY <1>1, <1>2 DEF TypeInv, PagesBounded, Entries
<1>5. /\ prog' \in [Prog -> Record]
      /\ OneLoads' /\ PagesBounded' /\ Entries'
  BY <1>1, <1>3, <1>4, RecordStep
<1>6. accessed' \subseteq Pde /\ heap' \in {heap, "overwritten"}
  BY <1>1, TouchType DEF TypeInv, Typed
<1>7. Typed'
  BY <1>1, <1>2, <1>5, <1>6 DEF TypeInv, Typed
<1>. QED BY <1>5, <1>7 DEF TypeInv
\* What a clean-up frees through the entries that differ are frames.
LEMMA KillReleases ==
  ASSUME Typed, Entries, NEW p \in Prog, KillProgram(p)
  PROVE  released' \subseteq Frame /\ released \subseteq released'
<1>. DEFINE shared == UNION {Reached(p, r) : r \in Differs(p)}
<1>1. released' = released \cup shared /\ released \subseteq Frame
  BY DEF KillProgram, Typed
<1>2. ASSUME NEW r \in Differs(p) PROVE Reached(p, r) \subseteq Frame
  <2>1. r \in Pde /\ r # UserPde
    BY DEF Differs, Typed, Record, Entries
  <2>2. KernelTable(r) \in Frame
    <3>1. NPde \in Nat \ {0} /\ NPde < KernelFrames /\ r \in 0..NPde - 1
      BY <2>1, LoaderAssumption, Sizes DEF Pde
    <3>. QED BY <3>1, Sizes, SMT DEF KernelTable, Frame
  <2>. QED BY <2>1, <2>2 DEF Reached, RegionFrames
<1>3. shared \subseteq Frame
  BY <1>2
<1>. HIDE DEF shared
<1>. QED BY <1>1, <1>3

LEMMA KillKeeps ==
  ASSUME TypeInv, NEW p \in Prog, KillProgram(p)
  PROVE  TypeInv'
<1>1. PICK r : /\ Becomes(p, r) /\ r.status = "ended" /\ r.pages = {}
               /\ r.inherited = {}
  BY KillProgramDoes DEF TypeInv
<1>2. /\ bitmap' \subseteq bitmap
      /\ UNCHANGED <<accessed, step, seg, cr3, heap, halted>>
  BY DEF KillProgram
<1>5. released' \subseteq Frame
  BY KillReleases DEF TypeInv
<1>3. /\ prog' \in [Prog -> Record]
      /\ OneLoads' /\ PagesBounded' /\ Entries'
  BY <1>1, <1>2, NoPages, RecordStep
<1>4. Typed'
  BY <1>2, <1>3, <1>5 DEF TypeInv, Typed
<1>. QED BY <1>3, <1>4 DEF TypeInv

\* The steps that leave every program alone.
LEMMA OthersKeep ==
  ASSUME TypeInv,
         \/ CopySegment \/ PreemptLoad \/ UNCHANGED vars
         \/ \E p \in Prog : DispatchProgram(p)
  PROVE  TypeInv'
<1>1. /\ UNCHANGED <<bitmap, accessed, prog, step>>
      /\ seg' \in {seg, seg + 1} /\ (seg' = seg + 1 => seg < Segments)
      /\ cr3' \in {cr3, Kernel} /\ heap' \in {heap, "overwritten"}
      /\ released' = released
  <2>1. CASE CopySegment
    BY <2>1 DEF CopySegment, WriteProgram
  <2>2. CASE PreemptLoad
    BY <2>2, Sizes, SMT DEF PreemptLoad, TypeInv, Typed
  <2>3. CASE UNCHANGED vars
    BY <2>3, Sizes, SMT DEF vars, TypeInv, Typed
  <2>4. CASE \E p \in Prog : DispatchProgram(p)
    BY <2>4, Sizes, SMT DEF DispatchProgram, TypeInv, Typed
  <2>. QED BY <2>1, <2>2, <2>3, <2>4
<1>2. halted' \in BOOLEAN
  BY DEF CopySegment, PreemptLoad, vars, DispatchProgram, TypeInv, Typed
<1>3. seg' \in 0..Segments
  BY <1>1, Sizes, SMT DEF TypeInv, Typed
<1>4. Typed'
  BY <1>1, <1>2, <1>3 DEF TypeInv, Typed
<1>5. OneLoads' /\ PagesBounded' /\ Entries'
  BY <1>1 DEF TypeInv, OneLoads, PagesBounded, Entries
<1>. QED BY <1>4, <1>5 DEF TypeInv

LEMMA TypeInit ==
  ASSUME Init
  PROVE  TypeInv
<1>1. \A p \in Prog : prog[p] = Empty
  BY DEF Init
<1>2. /\ 0..KernelFrames - 1 \subseteq Frame /\ {0, UserPde} \subseteq Pde
      /\ 0 \in 0..Segments
  BY Sizes, LoaderAssumption, SMT DEF Frame, Pde
<1>3. prog \in [Prog -> Record]
  BY EmptyType DEF Init
<1>4. halted \in BOOLEAN
  BY DEF Init
<1>5. Typed
  BY <1>2, <1>3, <1>4 DEF Init, Typed
<1>6. /\ Empty.status = "none" /\ Empty.inherited = {}
      /\ Cardinality(Empty.pages) = 0
  BY EmptyType DEF Empty
<1>7. OneLoads /\ PagesBounded /\ Entries
  BY <1>1, <1>6, NoPages DEF OneLoads, PagesBounded, Entries
<1>. QED BY <1>5, <1>7 DEF TypeInv

LEMMA TypeNext ==
  ASSUME TypeInv, [Next]_vars
  PROVE  TypeInv'
<1>1. ASSUME NEW p \in Prog, DirFails(p) PROVE TypeInv'
  BY <1>1, FailsKeeps DEF DirFails, TypeInv, Typed
<1>2. ASSUME NEW p \in Prog, MapFails(p) PROVE TypeInv'
  <2>1. bitmap' \subseteq Frame
    BY <1>2, OneFrame, SMT DEF MapFails, TypeInv, Typed, PageFrame
  <2>. QED BY <1>2, <2>1, FailsKeeps DEF MapFails, Loading, TypeInv, Typed
<1>3. ASSUME NEW p \in Prog, TaskFails(p) PROVE TypeInv'
  <2>1. accessed' \subseteq Pde /\ heap' \in {heap, "overwritten"}
    <3>1. CASE FreeRuns(bitmap, 1) = {}
      BY <1>3, <3>1 DEF TaskFails, TypeInv, Typed
    <3>2. CASE FreeRuns(bitmap, 1) # {}
      <4>1. TaskFrame \in Frame /\ Touch({TaskFrame})
        BY <1>3, <3>2, OneFrame DEF TaskFails, TaskFrame
      <4>. QED BY <4>1, TouchType DEF TypeInv, Typed
    <3>. QED BY <3>1, <3>2
  <2>. QED BY <1>3, <2>1, FailsKeeps DEF TaskFails, Loading, TypeInv, Typed
<1>4. ASSUME NEW p \in Prog,
             \/ CreateDir(p) \/ MapPage(p) \/ SwitchBack(p) \/ MakeTask(p)
             \/ KillProgram(p)
      PROVE  TypeInv'
  BY <1>4, CreateDirKeeps, MapPageKeeps, SwitchBackKeeps, MakeTaskKeeps, KillKeeps
<1>5. ASSUME \/ CopySegment \/ PreemptLoad \/ UNCHANGED vars
             \/ \E p \in Prog : DispatchProgram(p)
      PROVE  TypeInv'
  BY <1>5, OthersKeep
<1>. QED BY <1>1, <1>2, <1>3, <1>4, <1>5 DEF Next

\* The types, with one program loading at a time and the mapping loop inside
\* its bound, are an inductive invariant of the loader.
THEOREM LoaderTyped == Spec => []TypeInv
<1>1. Init => TypeInv
  BY TypeInit
<1>2. TypeInv /\ [Next]_vars => TypeInv'
  BY TypeNext
<1>. QED BY <1>1, <1>2, PTL DEF Spec

\* elf_exec hands out only frames that exist and never more than its pages,
\* for any size of memory and number of programs.
THEOREM TypeCorrect == Spec => []TypeOK
<1>1. TypeInv => TypeOK
  BY SMT DEF TypeInv, Typed, Record, PagesBounded, TypeOK
<1>. QED BY <1>1, LoaderTyped, PTL
-----------------------------------------------------------------------------
(* Owners                                                                  *)

Held(r) == ({r.pd, r.table, r.task} \ {NoFrame}) \cup r.pages \cup r.stack

\* task_kill keeps the frame of the task_t: it must be none of those it frees.
TaskApart ==
  \A p \in Prog :
    /\ prog[p].task \notin released \cup {NoFrame} =>
         /\ prog[p].task \notin {prog[p].pd, prog[p].table}
         /\ prog[p].task \notin prog[p].pages \cup prog[p].stack
    /\ prog[p].status = "loading" => prog[p].task = NoFrame /\ prog[p].stack = {}

OwnInv == OneOwner /\ TaskApart

\* A step that gives a program some free frames and takes some of its own.
\* It may take others, which it then adds to the released ones.
LEMMA OwnerStep ==
  ASSUME Typed, OneOwner, NEW p \in Prog, NEW r, Becomes(p, r),
         released \subseteq released',
         NEW new, new \subseteq Frame \ bitmap,
         NEW freed, freed \subseteq Owned(p) \cup {NoFrame} \cup released',
         Held(r) \subseteq Owned(p) \cup new, Held(r) \cap freed \subseteq released',
         bitmap' = (bitmap \cup new) \ freed
  PROVE  OneOwner'
<1>. DEFINE K == 0..KernelFrames - 1
<1>1. /\ prog'[p] = r /\ \A q \in Prog \ {p} : prog'[q] = prog[q]
  BY OnlyOne
<1>2. Owned(p)' = Held(r) /\ \A q \in Prog \ {p} : Owned(q)' = Owned(q)
  BY <1>1 DEF Owned, Held
<1>3. /\ K \subseteq bitmap \cup released
      /\ \A q \in Prog : Owned(q) \ released \subseteq bitmap \ K
      /\ \A q1, q2 \in Prog : q1 # q2 => Owned(q1) \cap Owned(q2) \subseteq released
  BY DEF OneOwner
<1>4. NoFrame \notin bitmap /\ NoFrame \notin K /\ K \cap new \subseteq released
  <2>1. K \subseteq Frame
    BY Sizes, SMT DEF Frame
  <2>. QED BY <1>3, <2>1, LoaderAssumption DEF Typed
<1>. HIDE DEF K
<1>5. K \subseteq bitmap' \cup released'
  BY <1>3, <1>4
<1>6. Owned(p)' \ released' \subseteq bitmap' \ K
  BY <1>2, <1>3, <1>4
<1>7. ASSUME NEW q \in Prog \ {p} PROVE Owned(q)' \ released' \subseteq bitmap' \ K
  <2>1. /\ Owned(q) \ released \subseteq bitmap \ K
        /\ Owned(q) \cap Owned(p) \subseteq released
    BY <1>3
  <2>. QED BY <1>2, <1>4, <2>1
<1>8. ASSUME NEW q \in Prog \ {p} PROVE Owned(q)' \cap Owned(p)' \subseteq released'
  <2>1. /\ Owned(q) \ released \subseteq bitmap \ K
        /\ Owned(q) \cap Owned(p) \subseteq released
    BY <1>3
  <2>. QED BY <1>2, <2>1
<1>9. ASSUME NEW q1 \in Prog, NEW q2 \in Prog \ {q1}
      PROVE  Owned(q1)' \cap Owned(q2)' \subseteq released'
  <2>1. CASE q1 = p
    BY <1>8, <2>1
  <2>2. CASE q2 = p
    BY <1>8, <2>2
  <2>3. CASE q1 # p /\ q2 # p
    BY <1>2, <1>3, <2>3
  <2>. QED BY <2>1, <2>2, <2>3
<1>10. \A q \in Prog : Owned(q)' \ released' \subseteq bitmap' \ K
  BY <1>6, <1>7
<1>. QED BY <1>5, <1>9, <1>10 DEF OneOwner, K

LEMMA ApartStep ==
  ASSUME Typed, TaskApart, NEW p \in Prog, NEW r, Becomes(p, r),
         released \subseteq released',
         r.task \notin released' \cup {NoFrame} =>
           /\ r.task \notin {r.pd, r.table}
           /\ r.task \notin r.pages \cup r.stack,
         r.status = "loading" => r.task = NoFrame /\ r.stack = {}
  PROVE  TaskApart'
<1>1. /\ prog'[p] = r /\ \A q \in Prog \ {p} : prog'[q] = prog[q]
  BY OnlyOne
<1>. QED BY <1>1 DEF TaskApart

LEMMA FailsOwn ==
  ASSUME TypeInv, OwnInv, NEW p \in Prog, Fails(p), released' = released,
         NEW new, new \subseteq Frame \ bitmap,
         NEW freed, freed \subseteq Owned(p) \cup {NoFrame},
         bitmap' = (bitmap \cup new) \ freed
  PROVE  OwnInv'
<1>1. PICK r : /\ Becomes(p, r) /\ r.status = "ended" /\ r.pages = {}
               /\ r.pd = NoFrame /\ r.table = NoFrame
               /\ r.task = NoFrame /\ r.stack = {}
  BY FailsDoes DEF TypeInv
<1>2. Held(r) = {}
  BY <1>1 DEF Held
<1>3. Held(r) \subseteq Owned(p) \cup new /\ Held(r) \cap freed = {}
  BY <1>2
<1>4. Typed /\ OneOwner /\ TaskApart
  BY DEF TypeInv, OwnInv
<1>5. OneOwner'
  BY <1>1, <1>3, <1>4, OwnerStep
<1>6. TaskApart'
  BY <1>1, <1>4, ApartStep
<1>. QED BY <1>5, <1>6 DEF OwnInv

LEMMA CreateDirOwn ==
  ASSUME TypeInv, OwnInv, NEW p \in Prog, CreateDir(p)
  PROVE  OwnInv'
<1>1. Typed /\ OneOwner /\ TaskApart
  BY DEF TypeInv, OwnInv
<1>. released' = released
  BY DEF CreateDir
<1>2. PICK r, f : /\ Becomes(p, r) /\ f \in Frame \ bitmap
                  /\ bitmap' = bitmap \cup {f}
                  /\ r.pd = f /\ r.table = NoFrame
                  /\ r.task = NoFrame /\ r.pages = {} /\ r.stack = {}
  BY <1>1, CreateDirDoes
<1>. DEFINE new == {f} freed == {}
<1>3. Held(r) \subseteq Owned(p) \cup new /\ Held(r) \cap freed = {}
  BY <1>2 DEF Held
<1>4. /\ new \subseteq Frame \ bitmap /\ freed \subseteq Owned(p) \cup {NoFrame}
      /\ bitmap' = (bitmap \cup new) \ freed
  BY <1>2
<1>. HIDE DEF new, freed
<1>5. OneOwner'
  BY <1>1, <1>2, <1>3, <1>4, OwnerStep
<1>6. TaskApart'
  BY <1>1, <1>2, ApartStep
<1>. QED BY <1>5, <1>6 DEF OwnInv

LEMMA MapPageOwn ==
  ASSUME TypeInv, OwnInv, NEW p \in Prog, MapPage(p)
  PROVE  OwnInv'
<1>1. Typed /\ OneOwner /\ TaskApart
  BY DEF TypeInv, OwnInv
<1>. released' = released
  BY DEF MapPage
<1>2. prog[p].task = NoFrame /\ prog[p].stack = {}
  BY <1>1 DEF TaskApart, MapPage, Loading
<1>3. PICK r, f, t :
        /\ Becomes(p, r) /\ f \in Frame \ bitmap
        /\ IF prog[p].table = NoFrame THEN t \in Frame \ (bitmap \cup {f})
           ELSE t = prog[p].table
        /\ bitmap' = bitmap \cup {f, t} /\ Touch({t}) /\ t \in Frame
        /\ r.status = "loading" /\ r.pd = prog[p].pd /\ r.table = t
        /\ r.task = prog[p].task /\ r.stack = prog[p].stack
        /\ r.pages = prog[p].pages \cup {f}
        /\ r.inherited = prog[p].inherited
  BY <1>1, MapPageDoes
<1>. DEFINE new == {f} \cup ({t} \ bitmap) freed == {}
<1>4. Held(r) \subseteq Owned(p) \cup new /\ Held(r) \cap freed = {}
  BY <1>2, <1>3, SMT DEF Held, Owned
<1>5. /\ new \subseteq Frame \ bitmap /\ freed \subseteq Owned(p) \cup {NoFrame}
      /\ bitmap' = (bitmap \cup new) \ freed
  BY <1>3
<1>. HIDE DEF new, freed
<1>6. OneOwner'
  BY <1>1, <1>3, <1>4, <1>5, OwnerStep, SMT
<1>7. TaskApart'
  BY <1>1, <1>2, <1>3, ApartStep
<1>. QED BY <1>6, <1>7 DEF OwnInv

LEMMA SwitchBackOwn ==
  ASSUME TypeInv, OwnInv, NEW p \in Prog, SwitchBack(p)
  PROVE  OwnInv'
<1>1. Typed /\ OneOwner /\ TaskApart
  BY DEF TypeInv, OwnInv
<1>. released' = released
  BY DEF SwitchBack
<1>2. prog[p].task = NoFrame /\ prog[p].stack = {}
  BY <1>1 DEF TaskApart, SwitchBack, Loading
<1>3. PICK r : /\ Becomes(p, r) /\ r.pd = prog[p].pd
               /\ r.table = prog[p].table /\ r.task = prog[p].task
               /\ r.pages = prog[p].pages /\ r.stack = prog[p].stack
  BY <1>1, SwitchBackDoes
<1>. DEFINE new == {} freed == {}
<1>4. Held(r) \subseteq Owned(p) \cup new /\ Held(r) \cap freed = {}
  BY <1>3 DEF Held, Owned
<1>5. /\ new \subseteq Frame \ bitmap /\ freed \subseteq Owned(p) \cup {NoFrame}
      /\ bitmap' = (bitmap \cup new) \ freed
  BY DEF SwitchBack
<1>. HIDE DEF new, freed
<1>6. OneOwner'
  BY <1>1, <1>3, <1>4, <1>5, OwnerStep
<1>7. TaskApart'
  BY <1>1, <1>2, <1>3, ApartStep
<1>. QED BY <1>6, <1>7 DEF OwnInv

LEMMA MakeTaskOwn ==
  ASSUME TypeInv, OwnInv, NEW p \in Prog, MakeTask(p)
  PROVE  OwnInv'
<1>1. Typed /\ OneOwner /\ TaskApart
  BY DEF TypeInv, OwnInv
<1>. released' = released
  BY DEF MakeTask
<1>2. PICK r, f, F :
        /\ Becomes(p, r) /\ f \in Frame \ bitmap
        /\ F \subseteq Frame \ (bitmap \cup {f})
        /\ bitmap' = bitmap \cup {f} \cup F
        /\ r.status = "ready" /\ r.pd = prog[p].pd
        /\ r.table = prog[p].table /\ r.task = f
        /\ r.pages = prog[p].pages /\ r.stack = F
  BY <1>1, MakeTaskDoes
<1>. DEFINE new == {f} \cup F freed == {}
<1>3. Held(r) \subseteq Owned(p) \cup new /\ Held(r) \cap freed = {}
  BY <1>2 DEF Held, Owned
<1>4. /\ new \subseteq Frame \ bitmap /\ freed \subseteq Owned(p) \cup {NoFrame}
      /\ bitmap' = (bitmap \cup new) \ freed
  BY <1>2
<1>5. f \notin released => /\ f \notin {prog[p].pd, prog[p].table}
                          /\ f \notin prog[p].pages \cup F
  <2>1. Owned(p) \ released \subseteq bitmap
    BY <1>1 DEF OneOwner
  <2>2. f # NoFrame
    BY <1>2, LoaderAssumption
  <2>. QED BY <1>2, <2>1, <2>2 DEF Owned
<1>. HIDE DEF new, freed
<1>6. OneOwner'
  BY <1>1, <1>2, <1>3, <1>4, OwnerStep, SMT
<1>7. TaskApart'
  <2>1. /\ r.task \notin released =>
             /\ r.task \notin {r.pd, r.table}
             /\ r.task \notin r.pages \cup r.stack
        /\ r.status # "loading"
    BY <1>2, <1>5
  <2>. QED BY <1>1, <1>2, <2>1, ApartStep
<1>. QED BY <1>6, <1>7 DEF OwnInv

\* task_kill frees the table and the pages of the program's own entry, the
\* directory and the stack; what it frees beyond them it releases.
LEMMA KillProgramOwn ==
  ASSUME TypeInv, OwnInv, NEW p \in Prog, KillProgram(p)
  PROVE  OwnInv'
<1>1. Typed /\ OneOwner /\ TaskApart
  BY DEF TypeInv, OwnInv
<1>2. PICK r : /\ Becomes(p, r)
               /\ r.status = "ended" /\ r.pd = NoFrame /\ r.table = NoFrame
               /\ r.task = prog[p].task /\ r.pages = {} /\ r.stack = {}
  BY <1>1, KillProgramDoes
<1>. DEFINE new == {}
            own == {prog[p].table, prog[p].pd} \cup prog[p].pages \cup prog[p].stack
            shared == UNION {Reached(p, q) : q \in Differs(p)}
            freed == own \cup shared
<1>3. bitmap' = (bitmap \cup new) \ freed /\ released' = released \cup shared
  <2>1. Reached(p, UserPde) = {prog[p].table} \cup prog[p].pages
    BY DEF Reached
  <2>2. /\ bitmap' = bitmap \ (Reached(p, UserPde) \cup {prog[p].pd} \cup prog[p].stack
                                \cup shared)
        /\ released' = released \cup shared
    BY DEF KillProgram, StackFreed
  <2>. HIDE DEF shared
  <2>. QED BY <2>1, <2>2
<1>. HIDE DEF shared
<1>4. /\ new \subseteq Frame \ bitmap
      /\ freed \subseteq Owned(p) \cup {NoFrame} \cup released'
  BY <1>3 DEF Owned
<1>5. prog[p].task \notin released \cup {NoFrame} => prog[p].task \notin own
  BY <1>1 DEF TaskApart
<1>6. Held(r) = {prog[p].task} \ {NoFrame}
  BY <1>2 DEF Held
<1>. HIDE DEF own
<1>7. Held(r) \subseteq Owned(p) \cup new /\ Held(r) \cap freed \subseteq released'
  BY <1>3, <1>5, <1>6 DEF Owned
<1>8. released \subseteq released'
  BY <1>3
<1>. HIDE DEF new, freed
<1>9. OneOwner'
  <2>1. Becomes(p, r) /\ bitmap' = (bitmap \cup new) \ freed
    BY <1>2, <1>3
  <2>. QED BY <1>1, <1>4, <1>7, <1>8, <2>1, OwnerStep, SMT
<1>10. TaskApart'
  <2>1. /\ r.task # NoFrame => r.task \notin {r.pd, r.table}
        /\ r.task \notin r.pages \cup r.stack /\ r.status # "loading"
    BY <1>2
  <2>. QED BY <1>1, <1>2, <1>8, <2>1, ApartStep
<1>. QED BY <1>9, <1>10 DEF OwnInv

LEMMA FailuresOwn ==
  ASSUME TypeInv, OwnInv, NEW p \in Prog,
         DirFails(p) \/ MapFails(p) \/ TaskFails(p)
  PROVE  OwnInv'
<1>1. prog[p].pd \in Owned(p) \cup {NoFrame}
  BY DEF Owned
<1>. released' = released
  BY DEF DirFails, MapFails, TaskFails
<1>2. CASE bitmap' = bitmap /\ Fails(p)
  <2>1. bitmap' = (bitmap \cup {}) \ {}
    BY <1>2
  <2>. QED BY <1>2, <2>1, FailsOwn
<1>3. CASE bitmap' = bitmap \ {prog[p].pd} /\ Fails(p)
  <2>1. bitmap' = (bitmap \cup {}) \ {prog[p].pd}
    BY <1>3
  <2>. QED BY <1>1, <1>3, <2>1, FailsOwn
<1>4. CASE /\ FreeRuns(bitmap, 1) # {} /\ Fails(p)
           /\ bitmap' = (bitmap \cup {PageFrame}) \ {prog[p].pd}
  <2>1. PageFrame \in Frame \ bitmap
    BY <1>4, OneFrame DEF PageFrame
  <2>2. {PageFrame} \subseteq Frame \ bitmap
        /\ {prog[p].pd} \subseteq Owned(p) \cup {NoFrame}
    BY <1>1, <2>1
  <2>. QED BY <1>4, <2>2, FailsOwn
<1>. QED BY <1>2, <1>3, <1>4 DEF DirFails, MapFails, TaskFails

LEMMA OwnInit == Init => OwnInv
<1>. SUFFICES ASSUME Init PROVE OwnInv
  OBVIOUS
<1>1. \A p \in Prog : prog[p] = Empty
  BY DEF Init
<1>2. /\ Empty.pd = NoFrame /\ Empty.table = NoFrame /\ Empty.task = NoFrame
      /\ Empty.pages = {} /\ Empty.stack = {}
  BY DEF Empty
<1>3. \A p \in Prog : Owned(p) = {}
  BY <1>1, <1>2 DEF Owned
<1>4. OneOwner
  BY <1>3 DEF OneOwner, Init
<1>5. TaskApart
  BY <1>1, <1>2 DEF TaskApart
<1>. QED BY <1>4, <1>5 DEF OwnInv

LEMMA OwnNext == TypeInv /\ OwnInv /\ [Next]_vars => OwnInv'
<1>. SUFFICES ASSUME TypeInv, OwnInv, [Next]_vars PROVE OwnInv'
  OBVIOUS
<1>1. CASE UNCHANGED <<bitmap, prog, released>>
  BY <1>1 DEF OwnInv, OneOwner, TaskApart, Owned
<1>2. ASSUME NEW p \in Prog, CreateDir(p) PROVE OwnInv'
  BY <1>2, CreateDirOwn
<1>3. ASSUME NEW p \in Prog, MapPage(p) PROVE OwnInv'
  BY <1>3, MapPageOwn
<1>4. ASSUME NEW p \in Prog, SwitchBack(p) PROVE OwnInv'
  BY <1>4, SwitchBackOwn
<1>5. ASSUME NEW p \in Prog, MakeTask(p) PROVE OwnInv'
  BY <1>5, MakeTaskOwn
<1>6. ASSUME NEW p \in Prog, KillProgram(p) PROVE OwnInv'
  BY <1>6, KillProgramOwn
<1>7. ASSUME NEW p \in Prog, DirFails(p) \/ MapFails(p) \/ TaskFails(p)
      PROVE  OwnInv'
  BY <1>7, FailuresOwn
<1>8. CASE UNCHANGED vars \/ CopySegment \/ PreemptLoad
           \/ \E p \in Prog : DispatchProgram(p)
  BY <1>1, <1>8 DEF vars, CopySegment, PreemptLoad, DispatchProgram
<1>. QED BY <1>2, <1>3, <1>4, <1>5, <1>6, <1>7, <1>8 DEF Next

\* However many programs are loaded, fail and are killed, each frame in use is
\* marked and has one owner, except those a clean-up released through an entry
\* of the kernel's directory: the comparison of whole entries in
\* free_task_resources is the only way to free a frame somebody holds.
THEOREM OneOwnerHolds == Spec => []OneOwner
<1>1. Init => OwnInv
  BY OwnInit
<1>2. TypeInv /\ OwnInv /\ [Next]_vars => OwnInv'
  BY OwnNext
<1>3. OwnInv => OneOwner
  BY DEF OwnInv
<1>. QED BY <1>1, <1>2, <1>3, LoaderTyped, PTL DEF Spec
=============================================================================
