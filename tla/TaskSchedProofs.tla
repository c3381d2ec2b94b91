--------------------------- MODULE TaskSchedProofs ---------------------------
(***************************************************************************)
(* The task manager's safety properties, for any number of CPUs and tasks, *)
(* and what remains of them while the CPUs come up.                        *)
(***************************************************************************)
EXTENDS SmpBoot, ProofLemmas, TLAPS, SequenceTheorems

-----------------------------------------------------------------------------
(* Helpers *)

(* The leaves are for Zenon, unless they cite SMT.                         *)
USE Zenon

\* What a scan of the task list returns: a task of the wanted set, NoTask only
\* when the list holds none of them.
LEMMA FirstInResult ==
  ASSUME NEW seq \in Seq(Task), NEW S \in SUBSET Task
  PROVE  /\ FirstIn(seq, S) \in S \cup {NoTask}
         /\ FirstIn(seq, S) = NoTask => \A i \in 1..Len(seq) : seq[i] \notin S
<1>. DEFINE hits == {i \in 1..Len(seq) : seq[i] \in S}
<1>1. CASE hits = {}
  BY <1>1 DEF FirstIn
<1>2. CASE hits # {}
  <2>1. hits \subseteq Nat
    BY SMT
  <2>2. \E i \in hits : \A j \in hits : i <= j
    BY <1>2, <2>1, LeastElement
  <2>3. (CHOOSE i \in hits : \A j \in hits : i <= j) \in hits
    BY <2>2
  <2>4. FirstIn(seq, S) \in S
    BY <1>2, <2>3 DEF FirstIn
  <2>. QED BY <2>4, TaskAssumption, SMT
<1>. QED BY <1>1, <1>2

\* The circular scan visits the tasks of the ring.
LEMMA ScanAfterResult ==
  ASSUME ring \in Seq(Task), NEW t \in Task, InRing(t)
  PROVE  /\ ScanAfter(t) \in Seq(Task)
         /\ \A x \in Task : InRing(x) =>
              \E i \in 1..Len(ScanAfter(t)) : ScanAfter(t)[i] = x
<1>. DEFINE k == CHOOSE i \in 1..Len(ring) : ring[i] = t
<1>1. k \in 1..Len(ring)
  BY DEF InRing
<1>. HIDE DEF k
<1>. DEFINE left == SubSeq(ring, k + 1, Len(ring))
            right == SubSeq(ring, 1, k)
<1>2. /\ left \in Seq(Task) /\ Len(left) = Len(ring) - k
      /\ right \in Seq(Task) /\ Len(right) = k
      /\ \A i \in 1..Len(ring) - k : left[i] = ring[k + i]
      /\ \A i \in 1..k : right[i] = ring[i]
  BY <1>1, SMT
<1>. HIDE DEF left, right
<1>3. ScanAfter(t) = left \o right
  BY DEF ScanAfter, k, left, right
<1>5. /\ left \o right \in Seq(Task)
      /\ Len(left \o right) = Len(left) + Len(right)
      /\ \A i \in 1..Len(left) : (left \o right)[i] = left[i]
      /\ \A i \in 1..Len(right) : (left \o right)[Len(left) + i] = right[i]
  <2>1. left \in Seq(Task) /\ right \in Seq(Task)
    BY <1>2
  <2>. QED BY ONLY <2>1, ConcatAt, SMT
<1>. DEFINE both == left \o right
<1>. HIDE DEF both
<1>4. ASSUME NEW i \in 1..Len(ring)
      PROVE  \E j \in 1..Len(both) : both[j] = ring[i]
  <2>1. CASE i <= k
    <3>1. i \in 1..k /\ Len(left) + i \in 1..Len(both)
      BY <1>1, <1>2, <1>5, <2>1, SMT DEF both
    <3>2. both[Len(left) + i] = ring[i]
      BY <1>2, <1>5, <3>1 DEF both
    <3>. QED BY <3>1, <3>2
  <2>2. CASE i > k
    <3>1. i - k \in 1..Len(left) /\ i - k \in 1..Len(both) /\ k + (i - k) = i
      BY <1>1, <1>2, <1>5, <2>2, SMT DEF both
    <3>2. both[i - k] = ring[i]
      BY <1>2, <1>5, <3>1, SMT DEF both
    <3>. QED BY <3>1, <3>2
  <2>. QED BY <1>1, <2>1, <2>2, SMT
<1>. QED BY <1>3, <1>4, <1>5 DEF InRing, both

\* Insertion keeps the ring's tasks, adds one, and no task twice.
LEMMA RingInsertResult ==
  ASSUME ring \in Seq(Task), ring # <<>>, NEW t \in Task
  PROVE  /\ RingInsert(t) \in Seq(Task)
         /\ \A x \in Task : (\E i \in 1..Len(RingInsert(t)) : RingInsert(t)[i] = x)
                              <=> (InRing(x) \/ x = t)
         /\ (~InRing(t) /\ \A i, j \in 1..Len(ring) : ring[i] = ring[j] => i = j)
              => \A i, j \in 1..Len(RingInsert(t)) :
                   RingInsert(t)[i] = RingInsert(t)[j] => i = j
<1>. DEFINE head == SubSeq(ring, 1, 1) \o <<t>>
            tail == SubSeq(ring, 2, Len(ring))
            r    == RingInsert(t)
<1>1. Len(ring) \in Nat /\ Len(ring) > 0
  BY SMT
<1>2. /\ head \in Seq(Task)
      /\ Len(head) = 2
      /\ head[1] = ring[1]
      /\ head[2] = t
  <2>1. /\ SubSeq(ring, 1, 1) \in Seq(Task)
        /\ Len(SubSeq(ring, 1, 1)) = 1
        /\ SubSeq(ring, 1, 1)[1] = ring[1]
    BY <1>1, SMT
  <2>2. <<t>> \in Seq(Task) /\ Len(<<t>>) = 1 /\ <<t>>[1] = t
    BY SMT
  <2>. QED BY <2>1, <2>2, ConcatProperties, SMT
<1>3. /\ tail \in Seq(Task)
      /\ Len(tail) = Len(ring) - 1
      /\ \A i \in 1..Len(ring) - 1 : tail[i] = ring[i + 1]
  <2>1. /\ tail \in Seq(Task)
        /\ Len(tail) = Len(ring) - 2 + 1
        /\ \A i \in 1..Len(ring) - 2 + 1 : tail[i] = ring[2 + i - 1]
    <3>1. 2 \in 1..Len(ring) + 1 /\ Len(ring) \in 2 - 1..Len(ring)
      BY <1>1, SMT
    <3>. QED BY <3>1, SubSeqAt
  <2>2. Len(ring) - 2 + 1 = Len(ring) - 1 /\ \A i \in Nat : 2 + i - 1 = i + 1
    BY <1>1, SMT
  <2>. QED BY <2>1, <2>2, SMT
<1>4. r = head \o tail
  BY DEF RingInsert
<1>. HIDE DEF head, tail, r
<1>5. /\ r \in Seq(Task)
      /\ Len(r) = Len(ring) + 1
      /\ \A i \in 1..2 : r[i] = head[i]
      /\ \A i \in 1..Len(ring) - 1 : r[2 + i] = tail[i]
  <2>1. /\ Len(r) = 2 + (Len(ring) - 1)
        /\ r \in Seq(Task)
        /\ \A i \in 1..2 : r[i] = head[i]
        /\ \A i \in 1..Len(ring) - 1 : r[2 + i] = tail[i]
    <3>1. head \in Seq(Task) /\ tail \in Seq(Task)
      BY <1>2, <1>3
    <3>2. /\ Len(r) = Len(head) + Len(tail)
          /\ r \in Seq(Task)
          /\ \A i \in 1..Len(head) : r[i] = head[i]
          /\ \A i \in 1..Len(tail) : r[Len(head) + i] = tail[i]
      BY <1>4, <3>1, ConcatAt, SMT
    <3>. QED BY <1>2, <1>3, <3>2
  <2>. QED BY <1>1, <2>1, SMT
<1>6. /\ r[1] = ring[1]
      /\ r[2] = t
      /\ \A i \in 2..Len(ring) : r[i + 1] = ring[i]
  <2>1. ASSUME NEW i \in 2..Len(ring) PROVE r[i + 1] = ring[i]
    <3>1. i - 1 \in 1..Len(ring) - 1 /\ 2 + (i - 1) = i + 1 /\ (i - 1) + 1 = i
      BY <1>1, SMT
    <3>2. r[2 + (i - 1)] = tail[i - 1] /\ tail[i - 1] = ring[(i - 1) + 1]
      BY <1>3, <1>5, <3>1
    <3>. QED BY <3>1, <3>2
  <2>. QED BY <1>2, <1>5, <2>1, SMT
<1>7. ASSUME NEW i \in 1..Len(ring)
      PROVE  \E j \in 1..Len(r) : r[j] = ring[i]
  <2>. DEFINE j == IF i = 1 THEN 1 ELSE i + 1
  <2>1. j \in 1..Len(r) /\ r[j] = ring[i]
    BY <1>1, <1>5, <1>6, SMT
  <2>. QED BY <2>1
<1>8. ASSUME NEW n \in 1..Len(r), n # 2
      PROVE  \E i \in 1..Len(ring) : r[n] = ring[i] /\ i = IF n = 1 THEN 1 ELSE n - 1
  <2>1. CASE n = 1
    BY <1>1, <1>6, <2>1, SMT
  <2>2. CASE n > 2
    <3>1. n - 1 \in 2..Len(ring) /\ (n - 1) + 1 = n
      BY <1>1, <1>5, <2>2, SMT
    <3>2. r[n] = ring[n - 1]
      BY <1>6, <3>1
    <3>. QED BY <1>1, <2>2, <3>1, <3>2, SMT
  <2>. QED BY <1>1, <1>5, <1>8, <2>1, <2>2, SMT
<1>9. \E i \in 1..Len(r) : r[i] = t
  BY <1>1, <1>5, <1>6, SMT
<1>10. \A x \in Task : (\E i \in 1..Len(r) : r[i] = x) <=> (InRing(x) \/ x = t)
  <2>1. \A i \in 1..Len(r) : r[i] = t \/ \E j \in 1..Len(ring) : ring[j] = r[i]
    BY <1>6, <1>8
  <2>2. ASSUME NEW x \in Task, NEW i \in 1..Len(r), r[i] = x
        PROVE  InRing(x) \/ x = t
    BY <2>1, <2>2 DEF InRing
  <2>. QED BY <1>7, <1>9, <2>2 DEF InRing
<1>11. ASSUME ~InRing(t), \A i, j \in 1..Len(ring) : ring[i] = ring[j] => i = j,
              NEW i \in 1..Len(r), NEW j \in 1..Len(r), r[i] = r[j]
       PROVE  i = j
  <2>1. \A n \in 1..Len(r) : n # 2 => r[n] # t
    BY <1>8, <1>11, SMT DEF InRing
  <2>2. CASE i # 2 /\ j # 2
    <3>1. PICK a \in 1..Len(ring) : r[i] = ring[a] /\ a = IF i = 1 THEN 1 ELSE i - 1
      BY <1>8, <2>2
    <3>2. PICK b \in 1..Len(ring) : r[j] = ring[b] /\ b = IF j = 1 THEN 1 ELSE j - 1
      BY <1>8, <2>2
    <3>3. a = b
      BY <1>11, <3>1, <3>2
    <3>. QED BY <1>1, <1>5, <2>2, <3>1, <3>2, <3>3, SMT
  <2>. QED BY <1>6, <1>11, <2>1, <2>2
<1>. QED BY <1>5, <1>10, <1>11 DEF r

\* Unlinking keeps every other task, adds none, and no task twice.
LEMMA RingRemoveResult ==
  ASSUME ring \in Seq(Task), NEW t \in Task, InRing(t)
  PROVE  /\ RingRemove(t) \in Seq(Task)
         /\ \A x \in Task :
              (\E i \in 1..Len(RingRemove(t)) : RingRemove(t)[i] = x) => InRing(x)
         /\ \A x \in Task \ {t} :
              InRing(x) => \E i \in 1..Len(RingRemove(t)) : RingRemove(t)[i] = x
         /\ (\A i, j \in 1..Len(ring) : ring[i] = ring[j] => i = j)
              => \A i, j \in 1..Len(RingRemove(t)) :
                   RingRemove(t)[i] = RingRemove(t)[j] => i = j
<1>. DEFINE k == CHOOSE i \in 1..Len(ring) : ring[i] = t
            r == RingRemove(t)
<1>1. k \in 1..Len(ring) /\ ring[k] = t
  BY DEF InRing
<1>2. r = SubSeq(ring, 1, k - 1) \o SubSeq(ring, k + 1, Len(ring))
  BY DEF RingRemove
<1>. HIDE DEF k, r
<1>3. /\ SubSeq(ring, 1, k - 1) \in Seq(Task)
      /\ Len(SubSeq(ring, 1, k - 1)) = k - 1
      /\ \A i \in 1..k - 1 : SubSeq(ring, 1, k - 1)[i] = ring[i]
  BY <1>1, SMT
<1>4. /\ SubSeq(ring, k + 1, Len(ring)) \in Seq(Task)
      /\ Len(SubSeq(ring, k + 1, Len(ring))) = Len(ring) - k
      /\ \A i \in 1..Len(ring) - k : SubSeq(ring, k + 1, Len(ring))[i] = ring[k + i]
  BY <1>1, SMT
<1>5. /\ r \in Seq(Task)
      /\ Len(r) = Len(ring) - 1
      /\ \A i \in 1..k - 1 : r[i] = ring[i]
      /\ \A i \in k..Len(ring) - 1 : r[i] = ring[i + 1]
  <2>. DEFINE a == SubSeq(ring, 1, k - 1)
              b == SubSeq(ring, k + 1, Len(ring))
  <2>1. a \in Seq(Task) /\ b \in Seq(Task) /\ r = a \o b
    BY <1>2, <1>3, <1>4
  <2>2. Len(a) = k - 1 /\ Len(b) = Len(ring) - k
    BY <1>3, <1>4
  <2>3. \A i \in 1..Len(ring) - k : b[i] = ring[k + i]
    BY <1>4
  <2>4. \A i \in 1..k - 1 : a[i] = ring[i]
    BY <1>3
  <2>. HIDE DEF a, b
  <2>5. /\ r \in Seq(Task)
        /\ Len(r) = Len(a) + Len(b)
        /\ \A i \in 1..Len(a) : r[i] = a[i]
        /\ \A i \in 1..Len(b) : r[Len(a) + i] = b[i]
    BY <2>1, ConcatAt, SMT
  <2>6. ASSUME NEW i \in k..Len(ring) - 1 PROVE r[i] = ring[i + 1]
    <3>1. /\ i - k + 1 \in 1..Len(ring) - k
          /\ (k - 1) + (i - k + 1) = i
          /\ k + (i - k + 1) = i + 1
      BY <1>1, SMT
    <3>2. r[(k - 1) + (i - k + 1)] = b[i - k + 1]
      BY <2>2, <2>5, <3>1
    <3>. QED BY <2>3, <3>1, <3>2
  <2>7. \A i \in 1..k - 1 : r[i] = ring[i]
    BY <2>2, <2>4, <2>5
  <2>. QED BY <1>1, <2>2, <2>5, <2>6, <2>7, SMT
<1>6. \A i \in 1..Len(r) : InRing(r[i])
  BY <1>1, <1>5, SMTT(20) DEF InRing
<1>7. ASSUME NEW i \in 1..Len(ring), ring[i] # t
      PROVE  \E j \in 1..Len(r) : r[j] = ring[i]
  <2>1. CASE i < k
    BY <1>1, <1>5, <2>1, SMT
  <2>2. CASE i > k
    <3>1. i - 1 \in k..Len(ring) - 1 /\ r[i - 1] = ring[i]
      BY <1>1, <1>5, <2>2, SMT
    <3>. QED BY <1>1, <1>5, <3>1, SMT
  <2>. QED BY <1>1, <1>7, <2>1, <2>2, SMT
<1>8. ASSUME \A i, j \in 1..Len(ring) : ring[i] = ring[j] => i = j,
             NEW i \in 1..Len(r), NEW j \in 1..Len(r), r[i] = r[j]
      PROVE  i = j
  BY <1>1, <1>5, <1>8, SMT
<1>9. r \in Seq(Task)
  BY <1>5
<1>10. \A x \in Task \ {t} : InRing(x) => \E i \in 1..Len(r) : r[i] = x
  BY <1>7 DEF InRing
<1>. QED BY <1>6, <1>8, <1>9, <1>10, SMT DEF r
-----------------------------------------------------------------------------
(* The inductive invariant *)

\* The stack a CPU executes on belongs to a task it has dispatched and that no
\* other CPU may pick, or to one that ended.
StackOwner ==
  \A c \in CPU : cpu_assigned[onStack[c]] = c \/ state[onStack[c]] = "FREE"

\* Between the release of sched_lock and the load of the stack pointer a CPU
\* is on the old stack; everywhere else on that of its current task.
StackOfCurrent ==
  \A c \in CPU : /\ pc[c] \in {"run", "spin", "locked"} => onStack[c] = current_task[c]
                 /\ pc[c] = "return" => current_task[c] \in Task

\* exec and kill come from the shell, and only the shell's own CPU can start
\* the task it is about to insert.
ShellCalls ==
  \A c \in CPU : call[c].op \in {"exec", "kill"} =>
    /\ pc[c] \in {"spin", "locked"}
    /\ current_task[c] = Shell
    /\ call[c].arg \in Task
    /\ call[c].op = "exec" => state[call[c].arg] = "NONE"

\* A frame that was not allocated yet is not in the ring.
RingAllocated == \A t \in Task : InRing(t) => state[t] # "NONE"

Inv ==
  /\ TypeOK
  /\ RunningIsCurrent
  /\ StackOwner
  /\ StackExclusive
  /\ StackOfCurrent
  /\ ShellCalls
  /\ RingAllocated
  /\ RingComplete
  /\ RunnableOwnsStack

\* What the properties of a step say of each task.
StepOK ==
  \A t \in Task :
    /\ cpu_assigned[t] \in CPU =>
         cpu_assigned'[t] = cpu_assigned[t] \/ state'[t] = "FREE"
    /\ state[t] = "FREE" => state'[t] = "FREE"

-----------------------------------------------------------------------------

LEMMA TickAfterType ==
  ASSUME TypeOK, NEW n \in Nat
  PROVE  TickAfter(n) \in 0..TickMod - 1
<1>1. tick_count + n \in Nat /\ TickMod \in Nat \ {0}
  BY TaskAssumption, SMT DEF TypeOK
<1>. QED BY <1>1, ModRange DEF TickAfter

LEMMA InitInv == Init => Inv
<1>. SUFFICES ASSUME Init PROVE Inv
  OBVIOUS
<1>. USE TaskAssumption
<1>1. TypeOK
  <2>1. 0 \in 0..TickMod - 1
    BY SMT
  <2>2. Quiet \in [op : Op, arg : Task \cup {NoTask}]
    BY DEF Quiet, Op
  <2>. QED BY <2>1, <2>2, SMT DEF Init, TypeOK, TaskState, PcValue
<1>2. RunningIsCurrent
  <2>1. ASSUME NEW t \in Task, state[t] = "RUNNING"
        PROVE  \E d \in CPU : t = Idle[d]
    BY <2>1, SMT DEF Init, User
  <2>2. \A d \in CPU : state[Idle[d]] = "RUNNING" /\ cpu_assigned[Idle[d]] = d
    BY SMT DEF Init, User
  <2>3. current_task = Idle
    BY DEF Init
  <2>4. ASSUME NEW t \in Task, NEW c \in CPU
        PROVE  (state[t] = "RUNNING" /\ cpu_assigned[t] = c) <=> current_task[c] = t
    BY <2>1, <2>2, <2>3, SMT
  <2>. QED BY <2>4 DEF RunningIsCurrent
<1>3. StackOwner
  BY DEF Init, StackOwner
<1>4. StackExclusive
  BY DEF Init, StackExclusive
<1>5. StackOfCurrent
  BY DEF Init, StackOfCurrent
<1>6. ShellCalls
  BY DEF Init, ShellCalls, Quiet
<1>7. RingAllocated
  BY DEF Init, RingAllocated, InRing, User
<1>8. RingComplete
  BY DEF Init, RingComplete, InRing, User
<1>9. RunnableOwnsStack
  BY DEF Init, RunnableOwnsStack, User
<1>. QED BY <1>1, <1>2, <1>3, <1>4, <1>5, <1>6, <1>7, <1>8, <1>9 DEF Inv

\* A step outside sched_lock moves no task and no CPU: at most it wakes
\* sleepers and changes what a CPU is about to do.
EntryMove ==
  /\ UNCHANGED <<ring, cpu_assigned, stack, current_task, onStack>>
  /\ \A t \in Task : state'[t] = state[t]
                      \/ (state[t] = "BLOCKED" /\ state'[t] = "READY")
  /\ \A c \in CPU : \/ pc'[c] = pc[c]
                    \/ pc[c] = "run" /\ pc'[c] = "spin"
                    \/ pc[c] = "spin" /\ pc'[c] = "locked"

LEMMA EntryStep == Inv /\ EntryMove /\ TypeOK' /\ ShellCalls' => Inv' /\ StepOK
<1>. SUFFICES ASSUME Inv, EntryMove, TypeOK', ShellCalls' PROVE Inv' /\ StepOK
  OBVIOUS
<1>. USE DEF EntryMove
<1>. USE DEF Inv
<1>1. RunningIsCurrent'
  BY SMT DEF RunningIsCurrent
<1>2. StackOwner'
  BY SMT DEF StackOwner, TypeOK
<1>3. StackExclusive'
  BY DEF StackExclusive
<1>4. StackOfCurrent'
  BY DEF StackOfCurrent
<1>5. RingAllocated'
  BY DEF RingAllocated, InRing
<1>6. RingComplete'
  BY SMT DEF RingComplete, InRing
<1>7. RunnableOwnsStack'
  BY DEF RunnableOwnsStack
<1>8. StepOK
  BY DEF StepOK
<1>. QED BY <1>1, <1>2, <1>3, <1>4, <1>5, <1>6, <1>7, <1>8

LEMMA TimerTickInv == Inv /\ TimerTick => Inv' /\ StepOK
<1>. SUFFICES ASSUME Inv, TimerTick PROVE Inv' /\ StepOK
  OBVIOUS
<1>1. TypeOK'
  <2>1. TickAfter(1) \in 0..TickMod - 1 /\ 0 \in 0..TickMod - 1
    BY TickAfterType, TaskAssumption, SMT DEF Inv
  <2>2. call' \in [CPU -> [op : Op, arg : Task \cup {NoTask}]]
    BY DEF Inv, TypeOK, TimerTick, WantLock, Op
  <2>3. pc' \in [CPU -> PcValue]
    BY DEF Inv, TypeOK, TimerTick, WantLock, Goto, PcValue
  <2>4. state' \in [Task -> TaskState]
    BY DEF Inv, TypeOK, TimerTick, TaskState
  <2>5. wakeup_tick' \in [Task -> 0..TickMod - 1]
    BY <2>1 DEF Inv, TypeOK, TimerTick
  <2>6. ipi' \in [CPU -> BOOLEAN]
    BY DEF Inv, TypeOK, TimerTick
  <2>7. tick_count' \in 0..TickMod - 1
    BY <2>1 DEF TimerTick
  <2>. QED BY <2>2, <2>3, <2>4, <2>5, <2>6, <2>7 DEF Inv, TypeOK, TimerTick
<1>2. \A t \in Task : state'[t] = state[t]
                       \/ (state[t] = "BLOCKED" /\ state'[t] = "READY")
  BY DEF TimerTick, Woken
<1>3. ShellCalls'
  <2>1. call'[BSP].op = "READY"
    BY TaskAssumption DEF Inv, TypeOK, TimerTick, WantLock
  <2>2. \A c \in CPU \ {BSP} : call'[c] = call[c] /\ pc'[c] = pc[c]
    BY DEF Inv, TypeOK, TimerTick, WantLock, Goto
  <2>3. current_task' = current_task
    BY DEF TimerTick
  <2>. QED BY <1>2, <2>1, <2>2, <2>3, SMT DEF Inv, ShellCalls
<1>4. \A c \in CPU : \/ pc'[c] = pc[c]
                     \/ pc[c] = "run" /\ pc'[c] = "spin"
                     \/ pc[c] = "spin" /\ pc'[c] = "locked"
  BY DEF Inv, TypeOK, TimerTick, WantLock, Goto
<1>5. UNCHANGED <<ring, cpu_assigned, stack, current_task, onStack>>
  BY DEF TimerTick
<1>. QED BY <1>1, <1>2, <1>3, <1>4, <1>5, EntryStep DEF EntryMove

\* The other entries of the scheduler.
Entry(c) ==
  \/ ReschedIpi(c)
  \/ SysYield(c)
  \/ SysSleep(c)
  \/ SysExit(c)
  \/ ShellCommand(c)

LEMMA EntryInv ==
  ASSUME Inv, NEW c \in CPU, Entry(c)
  PROVE  Inv' /\ StepOK
<1>. USE DEF Entry
<1>1. \E op \in Op, arg \in Task \cup {NoTask} :
        /\ WantLock(c, op, arg)
        /\ op \in {"exec", "kill"} => /\ current_task[c] = Shell
                                      /\ arg \in Task
                                      /\ op = "exec" => state[arg] = "NONE"
  BY TaskAssumption
     DEF ReschedIpi, SysYield, SysSleep, SysExit, ShellCommand, Op, User
<1>2. PICK op \in Op, arg \in Task \cup {NoTask} :
        /\ WantLock(c, op, arg)
        /\ op \in {"exec", "kill"} => /\ current_task[c] = Shell
                                      /\ arg \in Task
                                      /\ op = "exec" => state[arg] = "NONE"
  BY <1>1
<1>3. pc[c] = "run" /\ UNCHANGED <<ring, state, cpu_assigned, stack, current_task,
                                   onStack, sched_lock, tick_count>>
  BY DEF ReschedIpi, SysYield, SysSleep, SysExit, ShellCommand, RunsUser
<1>4. TypeOK'
  <2>1. wakeup_tick' \in [Task -> 0..TickMod - 1]
    <3>1. \A n \in 0..MaxSleep : TickAfter(n) \in 0..TickMod - 1
      BY TickAfterType, TaskAssumption, SMT DEF Inv
    <3>2. 0 \in 0..TickMod - 1
      BY TaskAssumption, SMT
    <3>. QED BY <3>1, <3>2, SMT
         DEF Inv, TypeOK, ReschedIpi, SysYield, SysSleep, SysExit, ShellCommand
  <2>2. ipi' \in [CPU -> BOOLEAN]
    BY DEF Inv, TypeOK, ReschedIpi, SysYield, SysSleep, SysExit, ShellCommand
  <2>3. /\ call' \in [CPU -> [op : Op, arg : Task \cup {NoTask}]]
        /\ pc' \in [CPU -> PcValue]
    BY <1>2 DEF Inv, TypeOK, WantLock, Goto, PcValue
  <2>. QED BY <1>3, <2>1, <2>2, <2>3 DEF Inv, TypeOK
<1>5. ShellCalls'
  BY <1>2, <1>3 DEF Inv, TypeOK, WantLock, Goto, ShellCalls
<1>6. \A d \in CPU : \/ pc'[d] = pc[d]
                     \/ pc[d] = "run" /\ pc'[d] = "spin"
                     \/ pc[d] = "spin" /\ pc'[d] = "locked"
  BY <1>2, <1>3 DEF Inv, TypeOK, WantLock, Goto
<1>7. \A t \in Task : state'[t] = state[t]
                       \/ (state[t] = "BLOCKED" /\ state'[t] = "READY")
  BY <1>3
<1>8. UNCHANGED <<ring, cpu_assigned, stack, current_task, onStack>>
  BY <1>3
<1>. QED BY <1>4, <1>5, <1>6, <1>7, <1>8, EntryStep DEF EntryMove

LEMMA AcquireInv ==
  ASSUME Inv, NEW c \in CPU, Acquire(c)
  PROVE  Inv' /\ StepOK
<1>1. TypeOK'
  BY DEF Inv, TypeOK, Acquire, Goto, PcValue
<1>2. ShellCalls'
  BY DEF Inv, TypeOK, Acquire, Goto, ShellCalls
<1>3. \A d \in CPU : \/ pc'[d] = pc[d]
                     \/ pc[d] = "run" /\ pc'[d] = "spin"
                     \/ pc[d] = "spin" /\ pc'[d] = "locked"
  BY DEF Inv, TypeOK, Acquire, Goto
<1>4. UNCHANGED <<ring, cpu_assigned, stack, current_task, onStack>>
  BY DEF Acquire
<1>5. \A t \in Task : state'[t] = state[t]
                       \/ (state[t] = "BLOCKED" /\ state'[t] = "READY")
  BY DEF Acquire
<1>. QED BY <1>1, <1>2, <1>3, <1>4, <1>5, EntryStep DEF EntryMove

LEMMA LoadEspInv ==
  ASSUME Inv, NEW c \in CPU, LoadEsp(c)
  PROVE  Inv' /\ StepOK
<1>. USE DEF Inv
<1>1. current_task[c] \in Task /\ pc[c] = "return"
  BY DEF LoadEsp, StackOfCurrent
<1>2. PICK l \in {"run", "lost"} :
        /\ pc' = [pc EXCEPT ![c] = l]
        /\ l = "run" => onStack' = [onStack EXCEPT ![c] = current_task[c]]
        /\ onStack' \in {onStack, [onStack EXCEPT ![c] = current_task[c]]}
  BY DEF LoadEsp, Goto
<1>3. state[current_task[c]] = "RUNNING" /\ cpu_assigned[current_task[c]] = c
  BY <1>1 DEF RunningIsCurrent
<1>4. RunningIsCurrent'
  BY SMT DEF LoadEsp, RunningIsCurrent
<1>5. TypeOK'
  BY <1>1, <1>2 DEF TypeOK, LoadEsp, PcValue
<1>6. StackOwner'
  BY <1>2, <1>3 DEF LoadEsp, StackOwner, TypeOK
<1>7. StackExclusive'
  <2>1. CASE onStack' = onStack
    BY <2>1 DEF StackExclusive
  <2>2. CASE onStack' = [onStack EXCEPT ![c] = current_task[c]]
    <3>1. \A d \in CPU \ {c} : onStack[d] # current_task[c]
      BY <1>3 DEF StackOwner
    <3>2. /\ onStack'[c] = current_task[c]
          /\ \A d \in CPU \ {c} : onStack'[d] = onStack[d]
      BY <2>2 DEF TypeOK
    <3>. QED BY <3>1, <3>2 DEF StackExclusive
  <2>. QED BY <1>2, <2>1, <2>2
<1>8. StackOfCurrent'
  <2>1. /\ pc'[c] = l
        /\ l = "run" => onStack'[c] = current_task[c]
        /\ \A d \in CPU \ {c} : pc'[d] = pc[d] /\ onStack'[d] = onStack[d]
    BY <1>2 DEF TypeOK
  <2>2. current_task' = current_task /\ l \in {"run", "lost"}
    BY <1>2 DEF LoadEsp
  <2>. SUFFICES ASSUME NEW d \in CPU
                PROVE  /\ pc'[d] \in {"run", "spin", "locked"} =>
                            onStack'[d] = current_task'[d]
                       /\ pc'[d] = "return" => current_task'[d] \in Task
    BY DEF StackOfCurrent
  <2>3. CASE d = c
    BY <2>1, <2>2, <2>3
  <2>4. CASE d # c
    BY <2>1, <2>2, <2>4 DEF StackOfCurrent
  <2>. QED BY <2>3, <2>4
<1>9. ShellCalls'
  BY <1>1, <1>2 DEF LoadEsp, ShellCalls, TypeOK
<1>10. RingAllocated' /\ RingComplete' /\ RunnableOwnsStack'
  BY DEF LoadEsp, RingAllocated, RingComplete, RunnableOwnsStack, InRing
<1>11. StepOK
  BY DEF LoadEsp, StepOK
<1>. QED BY <1>4, <1>5, <1>6, <1>7, <1>8, <1>9, <1>10, <1>11

-----------------------------------------------------------------------------
(* Steps under sched_lock *)

\* The task a CPU executes when it holds sched_lock.
LEMMA LockedCurrent ==
  ASSUME Inv, NEW c \in CPU, pc[c] = "locked"
  PROVE  /\ current_task[c] \in Task
         /\ current_task[c] = onStack[c]
         /\ state[current_task[c]] = "RUNNING"
         /\ cpu_assigned[current_task[c]] = c
         /\ InRing(current_task[c])
<1>1. current_task[c] \in Task /\ current_task[c] = onStack[c]
  BY DEF Inv, TypeOK, StackOfCurrent
<1>. QED BY <1>1 DEF Inv, RunningIsCurrent, RingComplete

\* pick_next_locked returns an eligible task, or none.
LEMMA PickNextResult ==
  ASSUME Inv, NEW c \in CPU, pc[c] = "locked", NEW st, NEW ca
  PROVE  PickNext(c, st, ca) \in {t \in Task : Eligible(t, c, st, ca)} \cup {NoTask}
<1>1. current_task[c] \in Task /\ InRing(current_task[c]) /\ ring \in Seq(Task)
  BY LockedCurrent DEF Inv, TypeOK
<1>2. ScanAfter(current_task[c]) \in Seq(Task)
  BY <1>1, ScanAfterResult
<1>. QED BY <1>2, FirstInResult DEF PickNext

\* The CPU goes from its current task to next.
HandOver(c, next) ==
  LET curr == current_task[c]
  IN  /\ next \in Task
      /\ next # curr
      /\ state[next] = "READY"
      /\ cpu_assigned[next] \in {NoCpu, c}
      /\ state'[next] = "RUNNING"
      /\ cpu_assigned'[next] = c
      /\ current_task' = [current_task EXCEPT ![c] = next]
      /\ \/ state'[curr] \in {"READY", "BLOCKED"} /\ cpu_assigned'[curr] = c
         \/ state'[curr] = "FREE"
      /\ \A t \in Task \ {curr, next} :
           state'[t] = state[t] /\ cpu_assigned'[t] = cpu_assigned[t]
      /\ \A t \in Task : stack'[t] = stack[t] \/ state'[t] = "FREE"
      /\ pc' = [pc EXCEPT ![c] = "return"]
      /\ call' = [call EXCEPT ![c] = Quiet]
      /\ UNCHANGED <<ring, onStack>>

LEMMA HandOverInv ==
  ASSUME Inv, NEW c \in CPU, pc[c] = "locked", NEW next, HandOver(c, next), TypeOK'
  PROVE  Inv' /\ StepOK
<1>. DEFINE curr == current_task[c]
<1>. USE DEF Inv
<1>1. /\ curr \in Task
      /\ curr = onStack[c]
      /\ state[curr] = "RUNNING"
      /\ cpu_assigned[curr] = c
  BY LockedCurrent
<1>2. \A d \in CPU \ {c} : /\ current_task'[d] = current_task[d]
                           /\ current_task[d] # curr
                           /\ current_task[d] # next
                           /\ pc'[d] = pc[d]
                           /\ call'[d] = call[d]
  BY <1>1, SMT DEF HandOver, TypeOK, RunningIsCurrent
<1>3. current_task'[c] = next /\ pc'[c] = "return" /\ call'[c] = Quiet
  BY DEF HandOver, TypeOK
<1>4. RunningIsCurrent'
  <2>. SUFFICES ASSUME NEW t \in Task, NEW d \in CPU
                PROVE  (state'[t] = "RUNNING" /\ cpu_assigned'[t] = d)
                         <=> current_task'[d] = t
    BY DEF RunningIsCurrent
  <2>1. CASE t = curr
    BY <1>1, <1>2, <1>3, <2>1, SMT DEF HandOver
  <2>2. CASE t = next
    BY <1>2, <1>3, <2>2, SMT DEF HandOver
  <2>3. CASE t \notin {curr, next}
    <3>1. state'[t] = state[t] /\ cpu_assigned'[t] = cpu_assigned[t]
      BY <2>3 DEF HandOver
    <3>2. (state[t] = "RUNNING" /\ cpu_assigned[t] = d) <=> current_task[d] = t
      BY DEF RunningIsCurrent
    <3>. QED BY <1>2, <1>3, <2>3, <3>1, <3>2
  <2>. QED BY <2>1, <2>2, <2>3
<1>5. StackOwner'
  <2>. SUFFICES ASSUME NEW d \in CPU
                PROVE  cpu_assigned'[onStack[d]] = d \/ state'[onStack[d]] = "FREE"
    BY DEF StackOwner, HandOver
  <2>1. onStack[d] \in Task
    BY DEF TypeOK
  <2>2. cpu_assigned[onStack[d]] = d \/ state[onStack[d]] = "FREE"
    BY DEF StackOwner
  <2>3. CASE onStack[d] = curr
    BY <1>1, <2>2, <2>3 DEF HandOver
  <2>4. CASE onStack[d] = next
    BY <2>2, <2>4, TaskAssumption, SMT DEF HandOver
  <2>5. CASE onStack[d] \notin {curr, next}
    BY <2>1, <2>2, <2>5 DEF HandOver
  <2>. QED BY <2>3, <2>4, <2>5
<1>6. StackExclusive'
  BY DEF HandOver, StackExclusive
<1>7. StackOfCurrent'
  BY <1>2, <1>3, SMT DEF HandOver, StackOfCurrent
<1>8. ShellCalls'
  <2>. SUFFICES ASSUME NEW d \in CPU, call'[d].op \in {"exec", "kill"}
                PROVE  /\ pc'[d] \in {"spin", "locked"}
                       /\ current_task'[d] = Shell
                       /\ call'[d].arg \in Task
                       /\ call'[d].op = "exec" => state'[call'[d].arg] = "NONE"
    BY DEF ShellCalls
  <2>1. d # c
    BY <1>3, SMT DEF Quiet
  <2>2. /\ pc[d] \in {"spin", "locked"}
        /\ current_task[d] = Shell
        /\ call[d].arg \in Task
        /\ call[d].op = "exec" => state[call[d].arg] = "NONE"
    BY <1>2, <2>1 DEF ShellCalls
  <2>. QED BY <1>1, <1>2, <2>1, <2>2, SMT DEF HandOver
<1>9. RingAllocated'
  BY <1>1 DEF HandOver, RingAllocated, InRing
<1>10. RingComplete'
  <2>1. \A t \in Task : state'[t] \in {"READY", "RUNNING", "BLOCKED"} =>
                          state[t] \in {"READY", "RUNNING", "BLOCKED"}
    BY <1>1 DEF HandOver
  <2>. QED BY <2>1 DEF HandOver, RingComplete, InRing
<1>11. RunnableOwnsStack'
  BY <1>1, SMT DEF HandOver, RunnableOwnsStack
<1>12. StepOK
  <2>. SUFFICES ASSUME NEW t \in Task
                PROVE  /\ cpu_assigned[t] \in CPU =>
                            cpu_assigned'[t] = cpu_assigned[t] \/ state'[t] = "FREE"
                       /\ state[t] = "FREE" => state'[t] = "FREE"
    BY DEF StepOK
  <2>1. CASE t = curr
    BY <1>1, <2>1 DEF HandOver
  <2>2. CASE t = next
    BY <2>2, TaskAssumption, SMT DEF HandOver
  <2>3. CASE t \notin {curr, next}
    BY <2>3 DEF HandOver
  <2>. QED BY <2>1, <2>2, <2>3
<1>. QED BY <1>4, <1>5, <1>6, <1>7, <1>8, <1>9, <1>10, <1>11, <1>12

LEMMA SwitchInv ==
  ASSUME Inv, NEW c \in CPU, Switch(c)
  PROVE  Inv' /\ StepOK
<1>. DEFINE curr == current_task[c]
            op   == call[c].op
            st   == [state EXCEPT ![curr] = op]
            ca   == [cpu_assigned EXCEPT ![curr] = HomeCpu(c)]
            next == PickNext(c, st, ca)
<1>1. pc[c] = "locked" /\ op \in {"READY", "BLOCKED"}
  BY DEF Switch, Holds
<1>2. /\ curr \in Task
      /\ curr = onStack[c]
      /\ state[curr] = "RUNNING"
      /\ cpu_assigned[curr] = c
  BY <1>1, LockedCurrent
<1>3. next \in {t \in Task : Eligible(t, c, st, ca)} \cup {NoTask}
  BY <1>1, PickNextResult
<1>4. /\ call' = [call EXCEPT ![c] = Quiet]
      /\ sched_lock' = NoCpu
      /\ UNCHANGED <<ring, wakeup_tick, stack, tick_count, ipi, onStack>>
      /\ call' \in [CPU -> [op : Op, arg : Task \cup {NoTask}]]
  BY DEF Switch, Release, Inv, TypeOK, Quiet, Op
<1>5. CASE next \in {NoTask, curr}
  <2>1. /\ state' = [state EXCEPT ![curr] = "RUNNING"]
        /\ cpu_assigned' = [cpu_assigned EXCEPT ![curr] = c]
        /\ pc' = [pc EXCEPT ![c] = NoSwitchPc(op)]
        /\ current_task' = current_task
    BY <1>5 DEF Switch, Goto
  <2>2. state' = state /\ cpu_assigned' = cpu_assigned
    BY <1>2, <2>1 DEF Inv, TypeOK
  <2>3. NoSwitchPc(op) \in {"run", "fault"}
    BY DEF NoSwitchPc
  <2>4. TypeOK'
    BY <1>4, <2>1, <2>2, <2>3 DEF Inv, TypeOK, PcValue
  <2>5. StackOfCurrent'
    BY <1>2, <1>4, <2>1, <2>3 DEF Inv, TypeOK, StackOfCurrent
  <2>6. ShellCalls'
    BY <1>4, <2>1, <2>2, SMT DEF Inv, TypeOK, ShellCalls, Quiet
  <2>7. RunningIsCurrent' /\ StackOwner' /\ StackExclusive' /\ RunnableOwnsStack'
    BY <1>4, <2>1, <2>2, SMT
       DEF Inv, RunningIsCurrent, StackOwner, StackExclusive, RunnableOwnsStack
  <2>8. RingAllocated' /\ RingComplete'
    BY <1>4, <2>2 DEF Inv, RingAllocated, RingComplete, InRing
  <2>9. StepOK
    BY <2>2 DEF StepOK
  <2>. QED BY <2>4, <2>5, <2>6, <2>7, <2>8, <2>9 DEF Inv
<1>6. CASE next \notin {NoTask, curr}
  <2>1. Dispatch(c, next, st, ca)
    BY <1>6 DEF Switch
  <2>2. next \in Task /\ Eligible(next, c, st, ca)
    BY <1>3, <1>6
  <2>. HIDE DEF next
  <2>3. next # curr
    BY <1>6
  <2>4. state[next] = "READY" /\ cpu_assigned[next] \in {NoCpu, c}
    BY <1>2, <2>2, <2>3 DEF Eligible, Inv, TypeOK
  <2>5. /\ state' = [st EXCEPT ![next] = "RUNNING"]
        /\ cpu_assigned' = [ca EXCEPT ![next] = c]
        /\ current_task' = [current_task EXCEPT ![c] = next]
        /\ pc' = [pc EXCEPT ![c] = "return"]
    BY <2>1 DEF Dispatch, Goto
  <2>6. TypeOK'
    BY <1>1, <1>2, <1>4, <2>2, <2>5 DEF Inv, TypeOK, PcValue, TaskState, HomeCpu
  <2>7. HandOver(c, next)
    BY <1>1, <1>2, <1>4, <2>2, <2>3, <2>4, <2>5 DEF HandOver, HomeCpu, Inv, TypeOK
  <2>. QED BY <1>1, <2>6, <2>7, HandOverInv
<1>. QED BY <1>5, <1>6

LEMMA ExitInv ==
  ASSUME Inv, NEW c \in CPU, Exit(c)
  PROVE  Inv' /\ StepOK
<1>. DEFINE curr == current_task[c]
            st   == [state EXCEPT ![curr] = "FREE"]
            ca   == [cpu_assigned EXCEPT ![curr] = NoCpu]
            fresh == {t \in Task \ {curr} : st[t] = "READY" /\ ca[t] = NoCpu}
            next == FirstIn(ring, fresh)
<1>1. pc[c] = "locked"
  BY DEF Exit, Holds
<1>2. /\ curr \in Task
      /\ curr = onStack[c]
      /\ state[curr] = "RUNNING"
      /\ cpu_assigned[curr] = c
  BY <1>1, LockedCurrent
<1>3. next \in fresh \cup {NoTask}
  <2>1. ring \in Seq(Task) /\ fresh \in SUBSET Task
    BY DEF Inv, TypeOK
  <2>. QED BY <2>1, FirstInResult
<1>4. /\ call' = [call EXCEPT ![c] = Quiet]
      /\ sched_lock' = NoCpu
      /\ stack' = [stack EXCEPT ![curr] = FALSE]
      /\ UNCHANGED <<ring, wakeup_tick, tick_count, ipi, onStack>>
      /\ call' \in [CPU -> [op : Op, arg : Task \cup {NoTask}]]
  BY DEF Exit, Release, Inv, TypeOK, Quiet, Op
<1>5. CASE next = NoTask
  <2>1. /\ state' = st
        /\ cpu_assigned' = ca
        /\ current_task' = [current_task EXCEPT ![c] = NoTask]
        /\ pc' = [pc EXCEPT ![c] = "fault"]
    BY <1>5 DEF Exit, Goto
  <2>. HIDE DEF next
  <2>2. TypeOK'
    BY <1>2, <1>4, <2>1 DEF Inv, TypeOK, PcValue, TaskState
  <2>3. /\ state'[curr] = "FREE"
        /\ \A t \in Task \ {curr} : state'[t] = state[t]
        /\ \A t \in Task \ {curr} : cpu_assigned'[t] = cpu_assigned[t]
        /\ \A t \in Task \ {curr} : stack'[t] = stack[t]
    BY <1>2, <1>4, <2>1 DEF Inv, TypeOK
  <2>4. /\ current_task'[c] = NoTask
        /\ pc'[c] = "fault"
        /\ call'[c] = Quiet
        /\ \A d \in CPU \ {c} : /\ current_task'[d] = current_task[d]
                                /\ current_task[d] # curr
                                /\ pc'[d] = pc[d]
                                /\ call'[d] = call[d]
    BY <1>2, <1>4, <2>1, SMT DEF Inv, TypeOK, RunningIsCurrent
  <2>5. RunningIsCurrent'
    <3>. SUFFICES ASSUME NEW t \in Task, NEW d \in CPU
                  PROVE  (state'[t] = "RUNNING" /\ cpu_assigned'[t] = d)
                           <=> current_task'[d] = t
      BY DEF RunningIsCurrent
    <3>1. CASE t = curr
      <4>1. state'[t] # "RUNNING"
        BY <2>3, <3>1
      <4>2. CASE d = c
        <5>1. current_task'[d] = NoTask
          BY <2>4, <4>2
        <5>. QED BY <4>1, <5>1, TaskAssumption
      <4>3. CASE d # c
        <5>1. current_task'[d] # t
          BY <2>4, <3>1, <4>3
        <5>. QED BY <4>1, <5>1
      <4>. QED BY <4>2, <4>3
    <3>2. CASE t # curr
      <4>1. (state[t] = "RUNNING" /\ cpu_assigned[t] = d) <=> current_task[d] = t
        BY DEF Inv, RunningIsCurrent
      <4>. QED BY <2>3, <2>4, <3>2, <4>1, TaskAssumption, SMT
    <3>. QED BY <3>1, <3>2
  <2>6. StackOwner' /\ StackExclusive'
    <3>1. onStack' = onStack /\ onStack \in [CPU -> Task]
      BY <1>4 DEF Inv, TypeOK
    <3>2. ASSUME NEW d \in CPU
          PROVE  cpu_assigned'[onStack[d]] = d \/ state'[onStack[d]] = "FREE"
      <4>1. onStack[d] \in Task
        BY <3>1
      <4>2. cpu_assigned[onStack[d]] = d \/ state[onStack[d]] = "FREE"
        BY DEF Inv, StackOwner
      <4>. QED BY <2>3, <4>1, <4>2
    <3>. QED BY <3>1, <3>2 DEF Inv, StackOwner, StackExclusive
  <2>7. StackOfCurrent'
    BY <1>4, <2>4 DEF Inv, StackOfCurrent
  <2>8. ShellCalls'
    <3>1. call'[c].op \notin {"exec", "kill"}
      BY <2>4, SMT DEF Quiet
    <3>2. ASSUME NEW d \in CPU \ {c}, call'[d].op \in {"exec", "kill"}
          PROVE  /\ pc'[d] \in {"spin", "locked"}
                 /\ current_task'[d] = Shell
                 /\ call'[d].arg \in Task
                 /\ call'[d].op = "exec" => state'[call'[d].arg] = "NONE"
      <4>1. /\ call'[d] = call[d]
            /\ pc'[d] = pc[d]
            /\ current_task'[d] = current_task[d]
        BY <2>4
      <4>2. /\ pc[d] \in {"spin", "locked"}
            /\ current_task[d] = Shell
            /\ call[d].arg \in Task
            /\ call[d].op = "exec" => state[call[d].arg] = "NONE"
        BY <3>2, <4>1 DEF Inv, ShellCalls
      <4>3. call[d].op = "exec" => state'[call[d].arg] = "NONE"
        BY <1>2, <2>3, <4>2
      <4>. QED BY <4>1, <4>2, <4>3
    <3>. QED BY <3>1, <3>2 DEF ShellCalls
  <2>9. RingAllocated' /\ RingComplete'
    BY <1>4, <2>3, SMT DEF Inv, RingAllocated, RingComplete, InRing
  <2>10. RunnableOwnsStack' /\ StepOK
    BY <2>3 DEF Inv, RunnableOwnsStack, StepOK
  <2>. QED BY <2>2, <2>5, <2>6, <2>7, <2>8, <2>9, <2>10 DEF Inv
<1>6. CASE next # NoTask
  <2>1. Dispatch(c, next, st, ca)
    BY <1>6 DEF Exit
  <2>2. next \in fresh
    BY <1>3, <1>6
  <2>. HIDE DEF next
  <2>3. /\ next \in Task
        /\ next # curr
        /\ state[next] = "READY"
        /\ cpu_assigned[next] = NoCpu
    BY <1>2, <2>2 DEF Inv, TypeOK
  <2>4. /\ state' = [st EXCEPT ![next] = "RUNNING"]
        /\ cpu_assigned' = [ca EXCEPT ![next] = c]
        /\ current_task' = [current_task EXCEPT ![c] = next]
        /\ pc' = [pc EXCEPT ![c] = "return"]
    BY <2>1 DEF Dispatch, Goto
  <2>5. TypeOK'
    BY <1>2, <1>4, <2>3, <2>4 DEF Inv, TypeOK, PcValue, TaskState
  <2>6. HandOver(c, next)
    BY <1>2, <1>4, <2>3, <2>4 DEF HandOver, Inv, TypeOK
  <2>. QED BY <1>1, <2>5, <2>6, HandOverInv
<1>. QED BY <1>5, <1>6

\* The shell runs on one CPU only.
LEMMA OneShell ==
  ASSUME Inv, NEW c \in CPU, NEW d \in CPU,
         call[c].op \in {"exec", "kill"}, call[d].op \in {"exec", "kill"}
  PROVE  c = d
<1>1. current_task[c] = Shell /\ current_task[d] = Shell
  BY DEF Inv, ShellCalls
<1>. QED BY <1>1, TaskAssumption, SMT DEF Inv, RunningIsCurrent

LEMMA ExecInv ==
  ASSUME Inv, NEW c \in CPU, Exec(c)
  PROVE  Inv' /\ StepOK
<1>. DEFINE t == call[c].arg
<1>1. pc[c] = "locked" /\ call[c].op = "exec"
  BY DEF Exec, Holds
<1>2. t \in Task /\ state[t] = "NONE"
  BY <1>1 DEF Inv, ShellCalls
<1>3. ring \in Seq(Task) /\ ring # <<>>
  BY <1>1, LockedCurrent, SMT DEF Inv, TypeOK, InRing
<1>4. ~InRing(t)
  BY <1>2 DEF Inv, RingAllocated
<1>5. /\ ring' = RingInsert(t)
      /\ state' = [state EXCEPT ![t] = "READY"]
      /\ stack' = [stack EXCEPT ![t] = TRUE]
      /\ pc' = [pc EXCEPT ![c] = "run"]
      /\ sched_lock' = NoCpu
      /\ call' = [call EXCEPT ![c] = Quiet]
      /\ UNCHANGED <<cpu_assigned, wakeup_tick, current_task, tick_count, ipi, onStack>>
  BY DEF Exec, Goto, Release
<1>. HIDE DEF t
<1>6. /\ ring' \in Seq(Task)
      /\ \A x \in Task : InRing(x)' <=> (InRing(x) \/ x = t)
      /\ (~InRing(t) /\ \A i, j \in 1..Len(ring) : ring[i] = ring[j] => i = j)
           => \A i, j \in 1..Len(ring') : ring'[i] = ring'[j] => i = j
  <2>1. \A x : InRing(x)' <=> \E i \in 1..Len(ring') : ring'[i] = x
    BY DEF InRing
  <2>2. /\ RingInsert(t) \in Seq(Task)
        /\ \A x \in Task :
             (\E i \in 1..Len(RingInsert(t)) : RingInsert(t)[i] = x)
               <=> (InRing(x) \/ x = t)
        /\ (~InRing(t) /\ \A i, j \in 1..Len(ring) : ring[i] = ring[j] => i = j)
             => \A i, j \in 1..Len(RingInsert(t)) :
                  RingInsert(t)[i] = RingInsert(t)[j] => i = j
    BY <1>2, <1>3, RingInsertResult
  <2>3. ring' = RingInsert(t)
    BY <1>5
  <2>. QED BY <2>1, <2>2, <2>3
<1>7. call' \in [CPU -> [op : Op, arg : Task \cup {NoTask}]] /\ call'[c] = Quiet
  BY <1>5 DEF Inv, TypeOK, Quiet, Op
<1>8. /\ state'[t] = "READY" /\ stack'[t]
      /\ \A x \in Task \ {t} : state'[x] = state[x] /\ stack'[x] = stack[x]
  BY <1>2, <1>5 DEF Inv, TypeOK
<1>9. TypeOK'
  BY <1>2, <1>5, <1>6, <1>7 DEF Inv, TypeOK, PcValue, TaskState
<1>10. RunningIsCurrent' /\ StackOwner' /\ StackExclusive'
  <2>1. RunningIsCurrent'
    <3>. SUFFICES ASSUME NEW x \in Task, NEW d \in CPU
                  PROVE  (state'[x] = "RUNNING" /\ cpu_assigned'[x] = d)
                           <=> current_task'[d] = x
      BY DEF RunningIsCurrent
    <3>1. (state[x] = "RUNNING" /\ cpu_assigned[x] = d) <=> current_task[d] = x
      BY DEF Inv, RunningIsCurrent
    <3>. QED BY <1>2, <1>5, <1>8, <3>1
  <2>2. StackOwner'
    BY <1>2, <1>5, <1>8 DEF Inv, TypeOK, StackOwner
  <2>. QED BY <1>5, <2>1, <2>2 DEF Inv, StackExclusive
<1>11. StackOfCurrent'
  BY <1>1, <1>5 DEF Inv, TypeOK, StackOfCurrent
<1>12. ShellCalls'
  <2>1. \A d \in CPU : call'[d].op \notin {"exec", "kill"}
    <3>1. call'[c].op \notin {"exec", "kill"}
      BY <1>7, SMT DEF Quiet
    <3>2. \A d \in CPU \ {c} : call'[d] = call[d]
      BY <1>5 DEF Inv, TypeOK
    <3>. QED BY <1>1, <3>1, <3>2, OneShell
  <2>. QED BY <2>1 DEF ShellCalls
<1>13. RingAllocated'
  BY <1>6, <1>8 DEF Inv, RingAllocated
<1>14. RingComplete'
  BY <1>4, <1>6, <1>8 DEF Inv, RingComplete
<1>15. RunnableOwnsStack' /\ StepOK
  BY <1>2, <1>5, <1>8 DEF Inv, RunnableOwnsStack, StepOK
<1>. QED BY <1>9, <1>10, <1>11, <1>12, <1>13, <1>14, <1>15 DEF Inv

LEMMA KillInv ==
  ASSUME Inv, NEW c \in CPU, Kill(c)
  PROVE  Inv' /\ StepOK
<1>. DEFINE t == call[c].arg
<1>1. pc[c] = "locked" /\ call[c].op = "kill"
  BY DEF Kill, Holds
<1>2. t \in Task
  BY <1>1 DEF Inv, ShellCalls
<1>3. /\ pc' = [pc EXCEPT ![c] = "run"]
      /\ sched_lock' = NoCpu
      /\ call' = [call EXCEPT ![c] = Quiet]
      /\ UNCHANGED <<wakeup_tick, current_task, tick_count, ipi, onStack>>
  BY DEF Kill, Goto, Release
<1>4. call' \in [CPU -> [op : Op, arg : Task \cup {NoTask}]] /\ call'[c] = Quiet
  BY <1>3 DEF Inv, TypeOK, Quiet, Op
<1>5. StackOfCurrent'
  BY <1>1, <1>3 DEF Inv, TypeOK, StackOfCurrent
<1>6. ShellCalls'
  <2>1. \A d \in CPU : call'[d].op \notin {"exec", "kill"}
    <3>1. call'[c].op \notin {"exec", "kill"}
      BY <1>4, SMT DEF Quiet
    <3>2. \A d \in CPU \ {c} : call'[d] = call[d]
      BY <1>3 DEF Inv, TypeOK
    <3>. QED BY <1>1, <3>1, <3>2, OneShell
  <2>. QED BY <2>1 DEF ShellCalls
<1>7. CASE ~MayKill(t)
  <2>1. UNCHANGED <<ring, state, cpu_assigned, stack>>
    BY <1>7 DEF Kill
  <2>2. TypeOK'
    BY <1>3, <1>4, <2>1 DEF Inv, TypeOK, PcValue
  <2>3. RunningIsCurrent' /\ StackOwner' /\ StackExclusive' /\ RunnableOwnsStack'
    <3>1. UNCHANGED <<state, cpu_assigned, current_task, onStack, stack>>
      BY <1>3, <2>1
    <3>2. RunningIsCurrent'
      BY <3>1, SMT DEF Inv, RunningIsCurrent
    <3>3. StackOwner' /\ StackExclusive'
      BY <3>1 DEF Inv, StackOwner, StackExclusive
    <3>4. RunnableOwnsStack'
      BY <3>1 DEF Inv, RunnableOwnsStack
    <3>. QED BY <3>2, <3>3, <3>4
  <2>4. RingAllocated' /\ RingComplete' /\ StepOK
    BY <2>1 DEF Inv, RingAllocated, RingComplete, InRing, StepOK
  <2>. QED BY <1>5, <1>6, <2>2, <2>3, <2>4 DEF Inv
<1>8. CASE MayKill(t)
  <2>1. /\ ring' = RingRemove(t)
        /\ state' = [state EXCEPT ![t] = "FREE"]
        /\ cpu_assigned' = [cpu_assigned EXCEPT ![t] = NoCpu]
        /\ stack' = [stack EXCEPT ![t] = FALSE]
    BY <1>8 DEF Kill
  <2>2. InRing(t) /\ state[t] # "RUNNING"
    BY <1>8 DEF MayKill
  <2>. HIDE DEF t
  <2>3. /\ ring' \in Seq(Task)
        /\ \A x \in Task : InRing(x)' => InRing(x)
        /\ \A x \in Task \ {t} : InRing(x) => InRing(x)'
        /\ (\A i, j \in 1..Len(ring) : ring[i] = ring[j] => i = j)
             => \A i, j \in 1..Len(ring') : ring'[i] = ring'[j] => i = j
    <3>1. \A x : InRing(x)' <=> \E i \in 1..Len(ring') : ring'[i] = x
      BY DEF InRing
    <3>2. ring \in Seq(Task)
      BY DEF Inv, TypeOK
    <3>. QED BY <1>2, <2>1, <2>2, <3>1, <3>2, RingRemoveResult, ZenonT(30)
  <2>4. /\ state'[t] = "FREE"
        /\ \A x \in Task \ {t} : /\ state'[x] = state[x]
                                 /\ cpu_assigned'[x] = cpu_assigned[x]
                                 /\ stack'[x] = stack[x]
    BY <1>2, <2>1 DEF Inv, TypeOK
  <2>5. TypeOK'
    BY <1>2, <1>3, <1>4, <2>1, <2>3 DEF Inv, TypeOK, PcValue, TaskState
  <2>6. RunningIsCurrent'
    <3>. SUFFICES ASSUME NEW x \in Task, NEW d \in CPU
                  PROVE  (state'[x] = "RUNNING" /\ cpu_assigned'[x] = d)
                           <=> current_task'[d] = x
      BY DEF RunningIsCurrent
    <3>1. current_task' = current_task
      BY <1>3
    <3>2. (state[x] = "RUNNING" /\ cpu_assigned[x] = d) <=> current_task[d] = x
      BY DEF Inv, RunningIsCurrent
    <3>3. CASE x = t
      <4>1. state'[x] # "RUNNING" /\ state[x] # "RUNNING"
        BY <2>2, <2>4, <3>3
      <4>. QED BY <3>1, <3>2, <4>1
    <3>4. CASE x # t
      <4>1. state'[x] = state[x] /\ cpu_assigned'[x] = cpu_assigned[x]
        BY <2>4, <3>4
      <4>. QED BY <3>1, <3>2, <4>1
    <3>. QED BY <3>3, <3>4
  <2>7. StackOwner' /\ StackExclusive'
    BY <1>3, <2>4 DEF Inv, TypeOK, StackOwner, StackExclusive
  <2>8. RingAllocated' /\ RunnableOwnsStack' /\ StepOK
    BY <2>3, <2>4 DEF Inv, RingAllocated, RunnableOwnsStack, StepOK
  <2>9. RingComplete'
    BY <2>3, <2>4 DEF Inv, RingComplete
  <2>. QED BY <1>5, <1>6, <2>5, <2>6, <2>7, <2>8, <2>9 DEF Inv
<1>. QED BY <1>7, <1>8

-----------------------------------------------------------------------------
(* Theorems *)

LEMMA NextInv == Inv /\ [Next]_vars => Inv' /\ [StepOK]_vars
<1>. SUFFICES ASSUME Inv, [Next]_vars PROVE Inv' /\ [StepOK]_vars
  OBVIOUS
<1>1. CASE UNCHANGED vars
  <2>1. Inv'
    BY <1>1, SMT DEF vars, Inv, TypeOK, RunningIsCurrent, StackOwner, StackExclusive,
                StackOfCurrent, ShellCalls, RingAllocated, RingComplete,
                RunnableOwnsStack, InRing
  <2>. QED BY <1>1, <2>1
<1>2. CASE TimerTick
  BY <1>2, TimerTickInv
<1>3. ASSUME NEW c \in CPU,
             Entry(c) \/ Acquire(c) \/ Switch(c) \/ Exit(c) \/ Exec(c) \/ Kill(c)
               \/ LoadEsp(c)
      PROVE  Inv' /\ StepOK
  BY <1>3, EntryInv, AcquireInv, SwitchInv, ExitInv, ExecInv, KillInv, LoadEspInv
<1>. QED BY <1>1, <1>2, <1>3 DEF Next, Entry

\* Everything the model checker checks of the task manager's state holds for
\* any number of CPUs and tasks.
THEOREM Safety == Spec => []Inv
<1>1. Init => Inv
  BY InitInv
<1>2. Inv /\ [Next]_vars => Inv'
  BY NextInv
<1>. QED BY <1>1, <1>2, PTL DEF Spec

\* The variables keep their types (task.h, smp.h): in particular every index
\* into cpu_info[] and every task the scheduler dispatches exists.
THEOREM TypeCorrect == Spec => []TypeOK
<1>1. Inv => TypeOK
  BY DEF Inv
<1>. QED BY <1>1, Safety, PTL

\* No two CPUs execute on one kernel stack (task.c:125, 148-155).
THEOREM NoSharedStack == Spec => []StackExclusive
<1>1. Inv => StackExclusive
  BY DEF Inv
<1>. QED BY <1>1, Safety, PTL

\* A RUNNING task is current on its CPU and only there (task.c:108-156,
\* elf.c:67-88).
THEOREM RunningExact == Spec => []RunningIsCurrent
<1>1. Inv => RunningIsCurrent
  BY DEF Inv
<1>. QED BY <1>1, Safety, PTL

\* The ring holds every task that can run, each once (task.c:57-67, 215-225).
THEOREM RingExact == Spec => []RingComplete
<1>1. Inv => RingComplete
  BY DEF Inv
<1>. QED BY <1>1, Safety, PTL

\* A task that can run owns its kernel stack (task.c:247-250, elf.c:45-48).
THEOREM StackKept == Spec => []RunnableOwnsStack
<1>1. Inv => RunnableOwnsStack
  BY DEF Inv
<1>. QED BY <1>1, Safety, PTL

\* No task that has run moves to another CPU (task.c:125).
THEOREM TasksStayHome == Spec => NoMigration
<1>1. Inv /\ [Next]_vars =>
        [\A t \in Task : cpu_assigned[t] \in CPU =>
           cpu_assigned'[t] = cpu_assigned[t] \/ state'[t] = "FREE"]_vars
  BY NextInv DEF StepOK
<1>. QED BY <1>1, Safety, PTL DEF Spec, NoMigration

\* A task that ended never runs again (elf.c:67-68, task.c:227-228).
THEOREM EndedForGood == Spec => FreeIsFinal
<1>1. Inv /\ [Next]_vars =>
        [\A t \in Task : state[t] = "FREE" => state'[t] = "FREE"]_vars
  BY NextInv DEF StepOK
<1>. QED BY <1>1, Safety, PTL DEF Spec, FreeIsFinal

-----------------------------------------------------------------------------
(* Only a kill of its idle task leaves a CPU without a stack to load *)

\* A CPU's idle task waits for its CPU, or was killed: it never sleeps.
IdleKept ==
  \A c \in CPU : /\ state[Idle[c]] \in {"READY", "RUNNING", "FREE"}
                 /\ cpu_assigned[Idle[c]] = c \/ state[Idle[c]] = "FREE"

\* Only programs sleep and exit.
UserCalls ==
  \A c \in CPU : call[c].op \in {"BLOCKED", "exit"} => current_task[c] \in User

SleepInv == IdleKept /\ UserCalls /\ NullStackNeedsKill

LEMMA IdleIsNoUser == \A c \in CPU : Idle[c] \in Task /\ Idle[c] \notin User
BY TaskAssumption DEF User

LEMMA NextStep == ASSUME Inv, Next PROVE Inv' /\ StepOK
<1>1. Inv' /\ [StepOK]_vars
  BY NextInv
<1>2. UNCHANGED vars => StepOK
  BY DEF vars, StepOK
<1>. QED BY <1>1, <1>2

\* pick_next_locked comes to the idle task at the latest.
LEMMA SwitchFindsTask ==
  ASSUME Inv, SleepInv, NEW c \in CPU, pc[c] = "locked", call[c].op = "BLOCKED",
         state[Idle[c]] # "FREE"
  PROVE  PickNext(c, [state EXCEPT ![current_task[c]] = "BLOCKED"],
                  [cpu_assigned EXCEPT ![current_task[c]] = HomeCpu(c)])
           \notin {NoTask, current_task[c]}
<1>. DEFINE curr == current_task[c]
            st   == [state EXCEPT ![curr] = "BLOCKED"]
            ca   == [cpu_assigned EXCEPT ![curr] = HomeCpu(c)]
            S    == {t \in Task : Eligible(t, c, st, ca)}
<1>1. curr \in Task /\ InRing(curr) /\ ring \in Seq(Task)
  BY LockedCurrent DEF Inv, TypeOK
<1>2. curr # Idle[c] /\ Idle[c] \in Task
  BY IdleIsNoUser DEF SleepInv, UserCalls
<1>3. /\ state[Idle[c]] \in {"READY", "RUNNING"}
      /\ cpu_assigned[Idle[c]] = c
  BY DEF SleepInv, IdleKept
<1>4. state[Idle[c]] = "READY" /\ InRing(Idle[c])
  <2>1. state[Idle[c]] = "RUNNING" => current_task[c] = Idle[c]
    BY <1>2, <1>3, SMT DEF Inv, RunningIsCurrent
  <2>2. InRing(Idle[c])
    BY <1>2, <1>3 DEF Inv, RingComplete
  <2>. QED BY <1>2, <1>3, <2>1, <2>2
<1>5. Idle[c] \in S
  <2>1. st[Idle[c]] = "READY" /\ ca[Idle[c]] = c
    BY <1>1, <1>2, <1>3, <1>4 DEF Inv, TypeOK
  <2>. QED BY <1>2, <2>1 DEF Eligible
<1>6. curr \notin S
  <2>1. st[curr] = "BLOCKED"
    BY <1>1 DEF Inv, TypeOK
  <2>. QED BY <2>1 DEF Eligible
<1>. HIDE DEF S, curr
<1>7. /\ ScanAfter(curr) \in Seq(Task)
      /\ \E i \in 1..Len(ScanAfter(curr)) : ScanAfter(curr)[i] = Idle[c]
  BY <1>1, <1>2, <1>4, ScanAfterResult, SMT
<1>8. S \in SUBSET Task
  BY DEF S
<1>9. FirstIn(ScanAfter(curr), S) \in S
  BY <1>5, <1>7, <1>8, FirstInResult
<1>10. PickNext(c, st, ca) = FirstIn(ScanAfter(curr), S)
  BY DEF PickNext, S, curr
<1>11. PickNext(c, st, ca) \notin {NoTask, curr}
  BY <1>6, <1>8, <1>9, <1>10, TaskAssumption
<1>. QED BY <1>11 DEF curr

LEMMA IdleKeptNext ==
  ASSUME Inv, IdleKept, UserCalls, Next
  PROVE  IdleKept'
<1>1. Inv' /\ StepOK
  BY NextStep
<1>. DEFINE Idles == \A d \in CPU : state[Idle[d]] \in {"READY", "RUNNING", "FREE"}
<1>2. SUFFICES Idles'
  <2>1. ASSUME NEW d \in CPU PROVE cpu_assigned'[Idle[d]] = d \/ state'[Idle[d]] = "FREE"
    BY <1>1, IdleIsNoUser, SMT DEF IdleKept, StepOK
  <2>. QED BY <2>1 DEF IdleKept
<1>3. Idles /\ \A d \in CPU : Idle[d] \in Task
  BY IdleIsNoUser DEF IdleKept
<1>4. CASE TimerTick
  BY <1>3, <1>4 DEF TimerTick
<1>5. CASE UNCHANGED state
  BY <1>3, <1>5
<1>6. ASSUME NEW c \in CPU, Exec(c) \/ Kill(c) PROVE Idles'
  <2>1. /\ call[c].arg \in Task
        /\ \/ state' = state
           \/ state' = [state EXCEPT ![call[c].arg] = "READY"]
           \/ state' = [state EXCEPT ![call[c].arg] = "FREE"]
    BY <1>6 DEF Exec, Kill, Holds, Inv, ShellCalls
  <2>. QED BY <1>3, <2>1 DEF Inv, TypeOK
<1>7. ASSUME NEW c \in CPU, Switch(c) PROVE Idles'
  <2>. DEFINE curr == current_task[c]
              op   == call[c].op
              st   == [state EXCEPT ![curr] = op]
              ca   == [cpu_assigned EXCEPT ![curr] = HomeCpu(c)]
              next == PickNext(c, st, ca)
  <2>1. op \in {"READY", "BLOCKED"} /\ curr \in Task
    BY <1>7, LockedCurrent DEF Switch, Holds
  <2>2. \/ state' = [state EXCEPT ![curr] = "RUNNING"]
        \/ state' = [st EXCEPT ![next] = "RUNNING"]
    BY <1>7 DEF Switch, Dispatch
  <2>. HIDE DEF next
  <2>3. op = "READY" \/ \A d \in CPU : Idle[d] # curr
    BY <2>1, IdleIsNoUser DEF UserCalls
  <2>. QED BY <1>3, <2>1, <2>2, <2>3 DEF Inv, TypeOK
<1>8. ASSUME NEW c \in CPU, Exit(c) PROVE Idles'
  <2>. DEFINE curr == current_task[c]
              st   == [state EXCEPT ![curr] = "FREE"]
  <2>1. curr \in Task
    BY <1>8, LockedCurrent DEF Exit, Holds
  <2>2. \/ state' = st
        \/ \E next : state' = [st EXCEPT ![next] = "RUNNING"]
    BY <1>8 DEF Exit, Dispatch
  <2>. QED BY <1>3, <2>1, <2>2 DEF Inv, TypeOK
<1>9. ASSUME NEW c \in CPU, Entry(c) \/ Acquire(c) \/ LoadEsp(c) PROVE state' = state
  BY <1>9 DEF Entry, ReschedIpi, SysYield, SysSleep, SysExit, ShellCommand,
              Acquire, LoadEsp
<1>. QED BY <1>4, <1>5, <1>6, <1>7, <1>8, <1>9 DEF Next, Entry

LEMMA UserCallsNext ==
  ASSUME Inv, UserCalls, Next
  PROVE  UserCalls'
<1>. DEFINE Sleeps == {"BLOCKED", "exit"}
<1>1. ASSUME NEW c \in CPU, NEW op, NEW arg, WantLock(c, op, arg),
             current_task' = current_task, op \in Sleeps => current_task[c] \in User
      PROVE  UserCalls'
  <2>1. /\ call'[c].op = op
        /\ \A d \in CPU \ {c} : call'[d] = call[d]
    BY <1>1 DEF WantLock, Inv, TypeOK
  <2>. QED BY <1>1, <2>1 DEF UserCalls
<1>2. CASE TimerTick
  <2>1. WantLock(BSP, "READY", NoTask) /\ current_task' = current_task
    BY <1>2 DEF TimerTick
  <2>. QED BY <1>1, <2>1, TaskAssumption
<1>3. ASSUME NEW c \in CPU, Entry(c) PROVE UserCalls'
  <2>1. current_task' = current_task
    BY <1>3 DEF Entry, ReschedIpi, SysYield, SysSleep, SysExit, ShellCommand
  <2>2. CASE ShellCommand(c)
    <3>1. PICK op \in {"exec", "kill"}, t \in Task : WantLock(c, op, t)
      BY <2>2, TaskAssumption DEF ShellCommand, User
    <3>. QED BY <1>1, <2>1, <3>1
  <2>3. CASE ReschedIpi(c) \/ SysYield(c)
    <3>1. WantLock(c, "READY", NoTask)
      BY <2>3 DEF ReschedIpi, SysYield
    <3>. QED BY <1>1, <2>1, <3>1
  <2>4. CASE SysSleep(c) \/ SysExit(c)
    <3>1. current_task[c] \in User /\ \E op : WantLock(c, op, NoTask)
      BY <2>4 DEF SysSleep, SysExit, RunsUser
    <3>. QED BY <1>1, <2>1, <3>1
  <2>. QED BY <1>3, <2>2, <2>3, <2>4 DEF Entry
<1>4. ASSUME NEW c \in CPU, Acquire(c) \/ LoadEsp(c) PROVE UserCalls'
  BY <1>4 DEF Acquire, LoadEsp, UserCalls
<1>5. ASSUME NEW c \in CPU, Switch(c) \/ Exit(c) \/ Exec(c) \/ Kill(c)
      PROVE  UserCalls'
  <2>1. Release(c)
    BY <1>5 DEF Switch, Exit, Exec, Kill
  <2>2. \/ current_task' = current_task
        \/ \E t : current_task' = [current_task EXCEPT ![c] = t]
    BY <1>5 DEF Switch, Exit, Exec, Kill, Dispatch
  <2>3. \A d \in CPU \ {c} : current_task'[d] = current_task[d]
    BY <2>2 DEF Inv, TypeOK
  <2>4. /\ call'[c] = Quiet
        /\ \A d \in CPU \ {c} : call'[d] = call[d]
    BY <2>1 DEF Release, Inv, TypeOK
  <2>5. call'[c].op = "READY"
    BY <2>4, SMT DEF Quiet
  <2>. QED BY <2>3, <2>4, <2>5 DEF UserCalls
<1>. QED BY <1>2, <1>3, <1>4, <1>5 DEF Next, Entry

\* After a fault nothing is modelled, so a step finds no CPU at "fault" and
\* takes one CPU at most there.
LEMMA NullStackNext ==
  ASSUME Inv, SleepInv, Next
  PROVE  NullStackNeedsKill'
<1>1. ASSUME NEW c \in CPU, NEW l, Goto(c, l),
             l = "fault" => current_task'[c] = NoTask \/ state'[Idle[c]] = "FREE"
      PROVE  NullStackNeedsKill'
  <2>1. pc'[c] = l /\ \A d \in CPU \ {c} : pc'[d] = pc[d] /\ pc[d] # "fault"
    BY <1>1 DEF Goto, Faulted, Inv, TypeOK
  <2>. QED BY <1>1, <2>1 DEF NullStackNeedsKill
<1>2. CASE TimerTick
  <2>1. Goto(BSP, "spin")
    BY <1>2 DEF TimerTick, WantLock
  <2>. QED BY <1>1, <2>1, TaskAssumption
<1>3. ASSUME NEW c \in CPU,
             Entry(c) \/ Acquire(c) \/ LoadEsp(c) \/ Exec(c) \/ Kill(c)
      PROVE  NullStackNeedsKill'
  <2>1. \E l \in {"spin", "locked", "run", "lost"} : Goto(c, l)
    BY <1>3 DEF Entry, ReschedIpi, SysYield, SysSleep, SysExit, ShellCommand,
                WantLock, Acquire, LoadEsp, Exec, Kill
  <2>. QED BY <1>1, <2>1
<1>4. ASSUME NEW c \in CPU, Exit(c) PROVE NullStackNeedsKill'
  <2>1. \/ /\ Goto(c, "fault")
           /\ current_task' = [current_task EXCEPT ![c] = NoTask]
        \/ Goto(c, "return")
    BY <1>4 DEF Exit, Dispatch
  <2>2. \/ Goto(c, "fault") /\ current_task'[c] = NoTask
        \/ Goto(c, "return")
    BY <2>1 DEF Inv, TypeOK
  <2>. QED BY <1>1, <2>2
<1>5. ASSUME NEW c \in CPU, Switch(c) PROVE NullStackNeedsKill'
  <2>. DEFINE curr == current_task[c]
              op   == call[c].op
              st   == [state EXCEPT ![curr] = op]
              ca   == [cpu_assigned EXCEPT ![curr] = HomeCpu(c)]
              next == PickNext(c, st, ca)
  <2>1. pc[c] = "locked" /\ op \in {"READY", "BLOCKED"}
    BY <1>5 DEF Switch, Holds
  <2>2. CASE next \notin {NoTask, curr}
    <3>1. Goto(c, "return")
      BY <1>5, <2>2 DEF Switch, Dispatch
    <3>. QED BY <1>1, <3>1
  <2>3. CASE next \in {NoTask, curr} /\ op = "READY"
    <3>1. Goto(c, "run")
      BY <1>5, <2>3 DEF Switch, NoSwitchPc
    <3>. QED BY <1>1, <3>1
  <2>4. CASE next \in {NoTask, curr} /\ op = "BLOCKED"
    <3>1. Goto(c, "fault")
      BY <1>5, <2>4 DEF Switch, NoSwitchPc
    <3>2. state[Idle[c]] = "FREE"
      BY <2>1, <2>4, SwitchFindsTask
    <3>3. state'[Idle[c]] = "FREE"
      BY <3>2, NextStep, IdleIsNoUser DEF StepOK
    <3>. QED BY <1>1, <3>1, <3>3
  <2>. QED BY <2>1, <2>2, <2>3, <2>4
<1>. QED BY <1>2, <1>3, <1>4, <1>5 DEF Next, Entry

\* A program that goes to sleep leaves its CPU without a stack to load only if
\* the idle task of that CPU was killed (interrupt.S:99-100, task.c:132-138),
\* for any number of CPUs and tasks, whatever exits and whatever is killed.
THEOREM SleepFindsTask == Spec => []NullStackNeedsKill
<1>1. Init => SleepInv
  <2>. SUFFICES ASSUME Init PROVE SleepInv
    OBVIOUS
  <2>1. \A c \in CPU : Idle[c] \in Task /\ Idle[c] \notin User /\ Idle[c] # Shell
    BY TaskAssumption DEF User
  <2>2. \A c \in CPU : state[Idle[c]] = "RUNNING" /\ cpu_assigned[Idle[c]] = c
    BY <2>1 DEF Init
  <2>3. \A c \in CPU : pc[c] = "run" /\ call[c].op = "READY"
    BY DEF Init, Quiet
  <2>. QED BY <2>2, <2>3 DEF SleepInv, IdleKept, UserCalls, NullStackNeedsKill
<1>2. Inv /\ SleepInv /\ [Next]_vars => SleepInv'
  <2>1. ASSUME SleepInv, UNCHANGED vars PROVE SleepInv'
    BY <2>1 DEF SleepInv, IdleKept, UserCalls, NullStackNeedsKill, vars
  <2>2. ASSUME Inv, SleepInv, Next PROVE SleepInv'
    BY <2>2, IdleKeptNext, UserCallsNext, NullStackNext DEF SleepInv
  <2>. QED BY <2>1, <2>2
<1>3. SleepInv => NullStackNeedsKill
  BY DEF SleepInv
<1>. QED BY <1>1, <1>2, <1>3, Safety, PTL DEF Spec
-----------------------------------------------------------------------------
(* The boot of the CPUs *)

BootStep == {"off", "start", "create", "state", "assign", "shell", "iret",
             "done"}

BootTyped ==
  /\ ring \in Seq(Task)
  /\ state \in [Task -> TaskState]
  /\ stack \in [Task -> BOOLEAN]
  /\ current_task \in [CPU -> Task \cup {NoTask}]
  /\ ipi \in [CPU -> BOOLEAN]
  /\ pc \in [CPU -> PcValue \cup {"boot"}]
  /\ boot \in [CPU -> BootStep]

\* Nothing is freed while the CPUs come up.
InRingOwnsStack == \A t \in Task : InRing(t) => stack[t]

\* An idle task enters the ring when its CPU creates it and the shell when
\* the BSP does; a CPU that gets to the scheduler has a current task, and that
\* task is in the ring; an AP takes no interrupt before its iret.
BootOrder ==
  /\ \A c \in CPU :
       /\ InRing(Idle[c]) <=> boot[c] \notin {"off", "start", "create"}
       /\ boot[c] \in {"shell", "iret", "done"} => current_task[c] # NoTask
       /\ pc[c] \in {"spin", "locked"} => current_task[c] # NoTask
       /\ current_task[c] # NoTask => InRing(current_task[c])
       /\ c # BSP /\ pc[c] # "boot" => boot[c] = "done"
  /\ \A c \in toStart : c \in CPU \ {BSP} /\ boot[c] = "off"
  /\ InRing(Shell) => boot[BSP] \in {"iret", "done"}
  /\ ~ipi[BSP]

BootInv == BootTyped /\ RingComplete /\ InRingOwnsStack /\ BootOrder
-----------------------------------------------------------------------------

LEMMA BootInitInv == BootInit => BootInv
<1>. SUFFICES ASSUME BootInit PROVE BootInv
  OBVIOUS
<1>1. BootTyped
  BY TaskAssumption, SMT DEF BootInit, BootTyped, TaskState, PcValue, BootStep
<1>2. \A t : ~InRing(t)
  BY SMT DEF BootInit, InRing
<1>3. RingComplete /\ InRingOwnsStack
  BY <1>2, SMT DEF BootInit, RingComplete, InRingOwnsStack
<1>4. BootOrder
  BY <1>2, TaskAssumption DEF BootInit, BootOrder, ApsToStart
<1>. QED BY <1>1, <1>3, <1>4 DEF BootInv

\* A step that leaves the ring alone and touches only tasks in it.
LEMMA RingStays ==
  ASSUME BootInv, ring' = ring, stack' = stack,
         \A t \in Task : state'[t] = state[t] \/ InRing(t)
  PROVE  /\ RingComplete' /\ InRingOwnsStack'
         /\ \A t : InRing(t)' <=> InRing(t)
<1>1. \A t : InRing(t)' <=> InRing(t)
  BY DEF InRing
<1>2. RingComplete'
  <2>1. \A i, j \in 1..Len(ring') : ring'[i] = ring'[j] => i = j
    BY DEF BootInv, RingComplete
  <2>2. \A t \in Task : state'[t] \in {"READY", "RUNNING", "BLOCKED"}
                          => InRing(t)
    BY DEF BootInv, RingComplete
  <2>. QED BY <1>1, <2>1, <2>2 DEF RingComplete
<1>3. InRingOwnsStack'
  BY <1>1 DEF BootInv, InRingOwnsStack
<1>. QED BY <1>1, <1>2, <1>3

\* What task_create does to the ring, for the first task and for the others.
LEMMA Created ==
  ASSUME BootInv, NEW t \in Task, ~InRing(t), TaskCreate(t)
  PROVE  /\ ring' \in Seq(Task) /\ state' \in [Task -> TaskState]
         /\ stack' \in [Task -> BOOLEAN]
         /\ RingComplete' /\ InRingOwnsStack'
         /\ \A x \in Task : InRing(x)' <=> InRing(x) \/ x = t
<1>1. /\ ring \in Seq(Task)
      /\ \A i, j \in 1..Len(ring) : ring[i] = ring[j] => i = j
  BY DEF BootInv, BootTyped, RingComplete
<1>2. /\ state' = [state EXCEPT ![t] = "READY"]
      /\ stack' = [stack EXCEPT ![t] = TRUE]
      /\ ring' = IF ring = <<>> THEN <<t>> ELSE RingInsert(t)
  BY DEF TaskCreate
<1>3. /\ ring' \in Seq(Task)
      /\ \A x \in Task : (\E i \in 1..Len(ring') : ring'[i] = x)
                           <=> InRing(x) \/ x = t
      /\ \A i, j \in 1..Len(ring') : ring'[i] = ring'[j] => i = j
  <2>1. CASE ring = <<>>
    BY <1>2, <2>1, SMT DEF InRing
  <2>2. CASE ring # <<>>
    <3>1. ring' = RingInsert(t)
      BY <1>2, <2>2
    <3>2. /\ RingInsert(t) \in Seq(Task)
          /\ \A x \in Task :
               (\E i \in 1..Len(RingInsert(t)) : RingInsert(t)[i] = x)
                 <=> InRing(x) \/ x = t
          /\ \A i, j \in 1..Len(RingInsert(t)) :
               RingInsert(t)[i] = RingInsert(t)[j] => i = j
      BY <1>1, <2>2, RingInsertResult
    <3>. QED BY <3>1, <3>2
  <2>. QED BY <2>1, <2>2
<1>4. \A x \in Task : InRing(x)' <=> InRing(x) \/ x = t
  BY <1>3 DEF InRing
<1>5. state' \in [Task -> TaskState] /\ stack' \in [Task -> BOOLEAN]
  BY <1>2 DEF BootInv, BootTyped, TaskState
<1>6. RingComplete'
  <2>1. \A x \in Task : state'[x] \in {"READY", "RUNNING", "BLOCKED"}
                          => InRing(x)'
    BY <1>2, <1>4 DEF BootInv, BootTyped, RingComplete
  <2>. QED BY <1>3, <2>1 DEF RingComplete
<1>7. InRingOwnsStack'
  BY <1>2, <1>4 DEF BootInv, BootTyped, InRingOwnsStack
<1>. QED BY <1>3, <1>4, <1>5, <1>6, <1>7

LEMMA StartApKeeps ==
  ASSUME BootInv, StartAp
  PROVE  BootInv'
<1>1. PICK c \in toStart : toStart' = toStart \ {c} /\ Then(c, "create")
  BY DEF StartAp
<1>2. /\ UNCHANGED <<ring, state, stack, current_task, ipi, pc>>
      /\ boot[BSP] = "start"
  BY DEF StartAp, vars, Boots
<1>3. c \in CPU \ {BSP} /\ boot[c] = "off"
  BY <1>1 DEF BootInv, BootOrder
<1>4. boot' = [boot EXCEPT ![c] = "create"] /\ boot \in [CPU -> BootStep]
  BY <1>1 DEF Then, BootInv, BootTyped
<1>5. BootTyped'
  BY <1>2, <1>4 DEF BootInv, BootTyped, BootStep
<1>6. /\ RingComplete' /\ InRingOwnsStack'
      /\ \A t : InRing(t)' <=> InRing(t)
  BY <1>2, RingStays
<1>7. BootOrder'
  BY <1>1, <1>2, <1>3, <1>4, <1>6, TaskAssumption DEF BootInv, BootOrder
<1>. QED BY <1>5, <1>6, <1>7 DEF BootInv

LEMMA ApsStartedKeeps ==
  ASSUME BootInv, ApsStarted
  PROVE  BootInv'
<1>1. /\ UNCHANGED <<ring, state, stack, current_task, ipi, pc, toStart>>
      /\ boot[BSP] = "start"
  BY DEF ApsStarted, vars, Boots
<1>2. boot' = [boot EXCEPT ![BSP] = "create"] /\ boot \in [CPU -> BootStep]
  BY DEF ApsStarted, Then, BootInv, BootTyped
<1>3. BootTyped'
  BY <1>1, <1>2 DEF BootInv, BootTyped, BootStep
<1>4. /\ RingComplete' /\ InRingOwnsStack'
      /\ \A t : InRing(t)' <=> InRing(t)
  BY <1>1, RingStays
<1>5. BootOrder'
  BY <1>1, <1>2, <1>4, TaskAssumption DEF BootInv, BootOrder
<1>. QED BY <1>3, <1>4, <1>5 DEF BootInv

LEMMA CreateIdleKeeps ==
  ASSUME BootInv, NEW c \in CPU, CreateIdle(c)
  PROVE  BootInv'
<1>1. boot[c] = "create" /\ TaskCreate(Idle[c]) /\ Idle[c] \in Task
  BY TaskAssumption DEF CreateIdle, Boots
<1>2. ~InRing(Idle[c])
  BY <1>1 DEF BootInv, BootOrder
<1>3. /\ ring' \in Seq(Task) /\ state' \in [Task -> TaskState]
      /\ stack' \in [Task -> BOOLEAN]
      /\ RingComplete' /\ InRingOwnsStack'
      /\ \A x \in Task : InRing(x)' <=> InRing(x) \/ x = Idle[c]
  BY <1>1, <1>2, Created
<1>4. UNCHANGED <<current_task, ipi, pc, toStart>>
  BY <1>1 DEF TaskCreate
<1>5. boot' = [boot EXCEPT ![c] = "state"] /\ boot \in [CPU -> BootStep]
  BY DEF CreateIdle, Then, BootInv, BootTyped
<1>6. BootTyped'
  BY <1>3, <1>4, <1>5 DEF BootInv, BootTyped, BootStep
<1>7. BootOrder'
  <2>1. \A d \in CPU : InRing(Idle[d])' <=> InRing(Idle[d]) \/ d = c
    BY <1>3, TaskAssumption
  <2>2. \A d \in CPU : (current_task[d] # NoTask => InRing(current_task[d]))'
    <3>1. \A d \in CPU : current_task[d] # NoTask =>
            current_task[d] \in Task /\ InRing(current_task[d])
      BY DEF BootInv, BootOrder, BootTyped
    <3>. QED BY <1>3, <1>4, <3>1
  <2>3. InRing(Shell)' <=> InRing(Shell)
    BY <1>3, TaskAssumption
  <2>4. c # BSP => pc[c] = "boot"
    BY <1>1 DEF BootInv, BootOrder
  <2>. QED BY <1>1, <1>4, <1>5, <2>1, <2>2, <2>3, <2>4, SMT DEF BootInv, BootOrder
<1>. QED BY <1>3, <1>6, <1>7 DEF BootInv

LEMMA CreateShellKeeps ==
  ASSUME BootInv, CreateShell
  PROVE  BootInv'
<1>1. boot[BSP] = "shell" /\ TaskCreate(Shell) /\ Shell \in Task
  BY TaskAssumption DEF CreateShell, Boots
<1>2. ~InRing(Shell)
  BY <1>1 DEF BootInv, BootOrder
<1>3. /\ ring' \in Seq(Task) /\ state' \in [Task -> TaskState]
      /\ stack' \in [Task -> BOOLEAN]
      /\ RingComplete' /\ InRingOwnsStack'
      /\ \A x \in Task : InRing(x)' <=> InRing(x) \/ x = Shell
  BY <1>1, <1>2, Created
<1>4. UNCHANGED <<current_task, ipi, pc, toStart>>
  BY <1>1 DEF TaskCreate
<1>5. boot' = [boot EXCEPT ![BSP] = "iret"] /\ boot \in [CPU -> BootStep]
  BY DEF CreateShell, Then, BootInv, BootTyped
<1>6. BootTyped'
  BY <1>3, <1>4, <1>5 DEF BootInv, BootTyped, BootStep
<1>7. BootOrder'
  <2>1. \A d \in CPU : InRing(Idle[d])' <=> InRing(Idle[d])
    BY <1>3, TaskAssumption, SMT
  <2>2. \A d \in CPU : (current_task[d] # NoTask => InRing(current_task[d]))'
    <3>1. \A d \in CPU : current_task[d] # NoTask =>
            current_task[d] \in Task /\ InRing(current_task[d])
      BY DEF BootInv, BootOrder, BootTyped
    <3>. QED BY <1>3, <1>4, <3>1
  <2>. QED BY <1>1, <1>4, <1>5, <2>1, <2>2, TaskAssumption, SMT
           DEF BootInv, BootOrder
<1>. QED BY <1>3, <1>6, <1>7 DEF BootInv

LEMMA MarkRunningKeeps ==
  ASSUME BootInv, NEW c \in CPU, MarkRunning(c)
  PROVE  BootInv'
<1>1. /\ UNCHANGED <<ring, stack, current_task, ipi, pc, toStart>>
      /\ boot[c] = "state" /\ state' = [state EXCEPT ![Idle[c]] = "RUNNING"]
  BY DEF MarkRunning, Boots
<1>2. boot' = [boot EXCEPT ![c] = "assign"] /\ boot \in [CPU -> BootStep]
  BY DEF MarkRunning, Then, BootInv, BootTyped
<1>3. BootTyped'
  BY <1>1, <1>2 DEF BootInv, BootTyped, BootStep, TaskState
<1>4. InRing(Idle[c])
  BY <1>1 DEF BootInv, BootOrder
<1>5. /\ RingComplete' /\ InRingOwnsStack'
      /\ \A t : InRing(t)' <=> InRing(t)
  <2>1. \A t \in Task : state'[t] = state[t] \/ InRing(t)
    BY <1>1, <1>4 DEF BootInv, BootTyped
  <2>. QED BY <1>1, <2>1, RingStays
<1>6. BootOrder'
  BY <1>1, <1>2, <1>5, TaskAssumption DEF BootInv, BootOrder
<1>. QED BY <1>3, <1>5, <1>6 DEF BootInv

LEMMA AssignKeeps ==
  ASSUME BootInv, NEW c \in CPU, Assign(c)
  PROVE  BootInv'
<1>1. /\ UNCHANGED <<ring, state, stack, ipi, pc, toStart>>
      /\ boot[c] = "assign"
      /\ current_task' = [current_task EXCEPT ![c] = Idle[c]]
  BY DEF Assign, Boots
<1>2. PICK l \in {"shell", "iret"} :
        boot' = [boot EXCEPT ![c] = l] /\ (l = "shell" => c = BSP)
  BY DEF Assign, Then
<1>3. /\ boot \in [CPU -> BootStep] /\ Idle[c] \in Task
      /\ current_task \in [CPU -> Task \cup {NoTask}] /\ Idle[c] # NoTask
  BY TaskAssumption, SMT DEF BootInv, BootTyped
<1>4. BootTyped'
  BY <1>1, <1>2, <1>3 DEF BootInv, BootTyped, BootStep
<1>5. /\ RingComplete' /\ InRingOwnsStack'
      /\ \A t : InRing(t)' <=> InRing(t)
  BY <1>1, RingStays
<1>6. InRing(Idle[c]) /\ (c = BSP => ~InRing(Shell))
  BY <1>1 DEF BootInv, BootOrder
<1>7. BootOrder'
  <2>1. \A d \in CPU : current_task'[d] # NoTask => InRing(current_task'[d])
    BY <1>1, <1>3, <1>6 DEF BootInv, BootOrder
  <2>2. \A d \in CPU : current_task'[d] = current_task[d]
                         \/ (d = c /\ current_task'[d] # NoTask)
    BY <1>1, <1>3
  <2>3. \A d \in CPU : boot'[d] = boot[d]
                         \/ (d = c /\ boot'[d] \in {"shell", "iret"})
    BY <1>2, <1>3
  <2>4. c # BSP => pc[c] = "boot"
    BY <1>1 DEF BootInv, BootOrder
  <2>5. \A d \in CPU :
          /\ InRing(Idle[d])' <=> boot'[d] \notin {"off", "start", "create"}
          /\ boot'[d] \in {"shell", "iret", "done"} => current_task'[d] # NoTask
          /\ pc'[d] \in {"spin", "locked"} => current_task'[d] # NoTask
          /\ d # BSP /\ pc'[d] # "boot" => boot'[d] = "done"
    <3>. SUFFICES ASSUME NEW d \in CPU
         PROVE  /\ InRing(Idle[d])' <=> boot'[d] \notin {"off", "start", "create"}
                /\ boot'[d] \in {"shell", "iret", "done"} =>
                     current_task'[d] # NoTask
                /\ pc'[d] \in {"spin", "locked"} => current_task'[d] # NoTask
                /\ d # BSP /\ pc'[d] # "boot" => boot'[d] = "done"
      OBVIOUS
    <3>1. CASE d = c
      <4>1. boot'[c] \in {"shell", "iret"} /\ current_task'[c] # NoTask
        BY <1>1, <1>2, <1>3
      <4>2. InRing(Idle[c])'
        BY <1>5, <1>6
      <4>. QED BY <1>1, <2>4, <3>1, <4>1, <4>2
    <3>2. CASE d # c
      <4>1. boot'[d] = boot[d] /\ current_task'[d] = current_task[d]
            /\ pc'[d] = pc[d]
        BY <1>1, <2>2, <2>3, <3>2
      <4>2. InRing(Idle[d])' <=> InRing(Idle[d])
        BY <1>5
      <4>. QED BY <4>1, <4>2 DEF BootInv, BootOrder
    <3>. QED BY <3>1, <3>2
  <2>6. \A d \in CPU : InRing(current_task[d])' <=> InRing(current_task'[d])
    BY <1>1 DEF InRing
  <2>7. /\ \A d \in toStart' : d \in CPU \ {BSP} /\ boot'[d] = "off"
        /\ InRing(Shell)' => boot'[BSP] \in {"iret", "done"}
        /\ ~ipi'[BSP]
    BY <1>1, <1>5, <1>6, <2>3, TaskAssumption, SMT DEF BootInv, BootOrder
  <2>. QED BY <2>1, <2>5, <2>6, <2>7 DEF BootOrder
<1>. QED BY <1>4, <1>5, <1>7 DEF BootInv

LEMMA EnterIdleKeeps ==
  ASSUME BootInv, NEW c \in CPU, EnterIdle(c)
  PROVE  BootInv'
<1>1. /\ UNCHANGED <<ring, state, stack, current_task, ipi, toStart>>
      /\ boot[c] = "iret"
  BY DEF EnterIdle, Boots
<1>2. boot' = [boot EXCEPT ![c] = "done"] /\ boot \in [CPU -> BootStep]
  BY DEF EnterIdle, Then, BootInv, BootTyped
<1>3. PICK l \in {"run", "fault"} : pc' = [pc EXCEPT ![c] = l]
  BY DEF EnterIdle, Goto
<1>4. pc \in [CPU -> PcValue \cup {"boot"}]
  BY DEF BootInv, BootTyped
<1>5. BootTyped'
  BY <1>1, <1>2, <1>3, <1>4 DEF BootInv, BootTyped, BootStep, PcValue
<1>6. /\ RingComplete' /\ InRingOwnsStack'
      /\ \A t : InRing(t)' <=> InRing(t)
  BY <1>1, RingStays
<1>7. BootOrder'
  BY <1>1, <1>2, <1>3, <1>4, <1>6, TaskAssumption, SMT DEF BootInv, BootOrder
<1>. QED BY <1>5, <1>6, <1>7 DEF BootInv

LEMMA EarlyTickKeeps ==
  ASSUME BootInv, EarlyTick
  PROVE  BootInv'
<1>1. /\ UNCHANGED <<ring, state, stack, current_task, pc, boot, toStart>>
      /\ ipi' = [c \in CPU |->
                   (c # BSP /\ boot[c] \in {"iret", "done"}) \/ ipi[c]]
  BY DEF EarlyTick, bootVars
<1>2. ipi' \in [CPU -> BOOLEAN] /\ ~ipi'[BSP]
  BY <1>1, TaskAssumption DEF BootInv, BootTyped, BootOrder
<1>3. BootTyped'
  BY <1>1, <1>2 DEF BootInv, BootTyped
<1>4. /\ RingComplete' /\ InRingOwnsStack'
      /\ \A t : InRing(t)' <=> InRing(t)
  BY <1>1, RingStays
<1>5. BootOrder'
  BY <1>1, <1>2, <1>4 DEF BootInv, BootOrder
<1>. QED BY <1>3, <1>4, <1>5 DEF BootInv

\* A CPU with a current task on its way to the lock, or getting it.
LEMMA EntersKeeps ==
  ASSUME BootInv, NEW c \in CPU, current_task[c] # NoTask, pc[c] # "boot",
         NEW l \in {"spin", "locked", "run"}, pc' = [pc EXCEPT ![c] = l],
         UNCHANGED <<ring, stack, current_task, boot, toStart>>,
         state' \in [Task -> TaskState], ipi' \in [CPU -> BOOLEAN], ~ipi'[BSP],
         \A t \in Task : state'[t] = state[t] \/ InRing(t)
  PROVE  BootInv'
<1>1. pc \in [CPU -> PcValue \cup {"boot"}]
  BY DEF BootInv, BootTyped
<1>2. BootTyped'
  BY <1>1 DEF BootInv, BootTyped, PcValue
<1>3. /\ RingComplete' /\ InRingOwnsStack'
      /\ \A t : InRing(t)' <=> InRing(t)
  BY RingStays
<1>4. BootOrder'
  BY <1>1, <1>3 DEF BootInv, BootOrder
<1>. QED BY <1>2, <1>3, <1>4 DEF BootInv

LEMMA TickKeeps ==
  ASSUME BootInv, Tick
  PROVE  BootInv'
<1>1. /\ current_task[BSP] # NoTask /\ pc[BSP] = "run"
      /\ pc' = [pc EXCEPT ![BSP] = "spin"]
      /\ UNCHANGED <<ring, stack, current_task, boot, toStart>>
  BY DEF Tick, TimerTick, WantLock, Goto
<1>2. state' \in [Task -> TaskState]
  BY DEF Tick, TimerTick, BootInv, BootTyped, TaskState
<1>3. \A t \in Task : state'[t] = state[t] \/ InRing(t)
  BY DEF Tick, TimerTick, Woken
<1>4. ipi' \in [CPU -> BOOLEAN] /\ ~ipi'[BSP]
  BY TaskAssumption DEF Tick, TimerTick, BootInv, BootTyped, BootOrder
<1>. QED BY <1>1, <1>2, <1>3, <1>4, TaskAssumption, EntersKeeps

LEMMA ReschedKeeps ==
  ASSUME BootInv, NEW c \in CPU, Resched(c)
  PROVE  BootInv'
<1>1. /\ pc[c] = "run" /\ ipi[c] /\ ipi' = [ipi EXCEPT ![c] = FALSE]
      /\ pc' = [pc EXCEPT ![c] = "spin"]
      /\ UNCHANGED <<ring, state, stack, current_task, boot, toStart>>
  BY DEF Resched, ReschedIpi, WantLock, Goto
<1>2. current_task[c] # NoTask
  BY <1>1 DEF BootInv, BootOrder
<1>3. ipi' \in [CPU -> BOOLEAN] /\ ~ipi'[BSP] /\ state' \in [Task -> TaskState]
  BY <1>1, SMT DEF BootInv, BootTyped, BootOrder
<1>. QED BY <1>1, <1>2, <1>3, EntersKeeps

LEMMA BootAcquireKeeps ==
  ASSUME BootInv, NEW c \in CPU, Acquire(c), UNCHANGED bootVars
  PROVE  BootInv'
<1>1. /\ pc[c] = "spin" /\ pc' = [pc EXCEPT ![c] = "locked"]
      /\ UNCHANGED <<ring, state, stack, current_task, ipi, boot, toStart>>
  BY DEF Acquire, Goto, bootVars
<1>2. current_task[c] # NoTask
  BY <1>1 DEF BootInv, BootOrder
<1>3. ipi' \in [CPU -> BOOLEAN] /\ ~ipi'[BSP] /\ state' \in [Task -> TaskState]
  BY <1>1 DEF BootInv, BootTyped, BootOrder
<1>. QED BY <1>1, <1>2, <1>3, EntersKeeps

LEMMA BootSwitchKeeps ==
  ASSUME BootInv, NEW c \in CPU, Switch(c), UNCHANGED bootVars
  PROVE  BootInv'
<1>. DEFINE curr == current_task[c]
            op   == call[c].op
            st   == [state EXCEPT ![curr] = op]
            ca   == [cpu_assigned EXCEPT ![curr] = HomeCpu(c)]
            next == PickNext(c, st, ca)
<1>1. pc[c] = "locked" /\ op \in {"READY", "BLOCKED"}
  BY DEF Switch, Holds
<1>2. /\ curr \in Task /\ InRing(curr)
      /\ ring \in Seq(Task) /\ state \in [Task -> TaskState]
  BY <1>1 DEF BootInv, BootTyped, BootOrder
<1>3. next \in {t \in Task : Eligible(t, c, st, ca)} \cup {NoTask}
  <2>1. ScanAfter(curr) \in Seq(Task)
    BY <1>2, ScanAfterResult
  <2>. QED BY <2>1, FirstInResult DEF PickNext
<1>4. UNCHANGED <<ring, stack, ipi, boot, toStart>>
  BY DEF Switch, bootVars
<1>5. CASE next \in {NoTask, curr}
  <2>1. /\ state' = [state EXCEPT ![curr] = "RUNNING"]
        /\ pc' = [pc EXCEPT ![c] = NoSwitchPc(op)]
        /\ current_task' = current_task
    BY <1>5 DEF Switch, Goto
  <2>2. NoSwitchPc(op) \in {"run", "fault"}
    BY DEF NoSwitchPc
  <2>3. state' \in [Task -> TaskState]
        /\ \A t \in Task : state'[t] = state[t] \/ InRing(t)
    BY <1>2, <2>1 DEF TaskState
  <2>. HIDE DEF curr, op, st, ca, next
  <2>4. BootTyped'
    BY <1>4, <2>1, <2>2, <2>3 DEF BootInv, BootTyped, PcValue
  <2>5. /\ RingComplete' /\ InRingOwnsStack'
        /\ \A t : InRing(t)' <=> InRing(t)
    BY <1>4, <2>3, RingStays
  <2>6. BootOrder'
    BY <1>1, <1>4, <2>1, <2>2, <2>5 DEF BootInv, BootTyped, BootOrder
  <2>. QED BY <2>4, <2>5, <2>6 DEF BootInv
<1>6. CASE next \notin {NoTask, curr}
  <2>1. /\ state' = [st EXCEPT ![next] = "RUNNING"]
        /\ current_task' = [current_task EXCEPT ![c] = next]
        /\ pc' = [pc EXCEPT ![c] = "return"]
    BY <1>6 DEF Switch, Dispatch, Goto
  <2>2. next \in Task /\ next # NoTask /\ next # curr /\ st[next] = "READY"
    BY <1>3, <1>6 DEF Eligible
  <2>3. state[next] = "READY"
    BY <1>2, <2>2
  <2>4. InRing(next)
    BY <2>2, <2>3 DEF BootInv, RingComplete
  <2>5. state' \in [Task -> TaskState]
        /\ \A t \in Task : state'[t] = state[t] \/ InRing(t)
    BY <1>1, <1>2, <2>1, <2>2, <2>4 DEF TaskState
  <2>. HIDE DEF curr, op, st, ca, next
  <2>6. BootTyped'
    BY <1>4, <2>1, <2>2, <2>5 DEF BootInv, BootTyped, PcValue
  <2>7. /\ RingComplete' /\ InRingOwnsStack'
        /\ \A t : InRing(t)' <=> InRing(t)
    BY <1>4, <2>5, RingStays
  <2>8. BootOrder'
    BY <1>1, <1>4, <2>1, <2>2, <2>4, <2>7 DEF BootInv, BootTyped, BootOrder
  <2>. QED BY <2>6, <2>7, <2>8 DEF BootInv
<1>. QED BY <1>5, <1>6

LEMMA BootLoadEspKeeps ==
  ASSUME BootInv, NEW c \in CPU, BootLoadEsp(c)
  PROVE  BootInv'
<1>1. /\ pc[c] = "return" /\ pc' = [pc EXCEPT ![c] = "run"]
      /\ UNCHANGED <<ring, state, stack, current_task, ipi, boot, toStart>>
  BY DEF BootLoadEsp, Goto, bootVars
<1>2. BootTyped'
  BY <1>1 DEF BootInv, BootTyped, PcValue
<1>3. /\ RingComplete' /\ InRingOwnsStack'
      /\ \A t : InRing(t)' <=> InRing(t)
  BY <1>1, RingStays
<1>4. BootOrder'
  BY <1>1, <1>3 DEF BootInv, BootTyped, BootOrder
<1>. QED BY <1>2, <1>3, <1>4 DEF BootInv

\* However many CPUs come up, and whatever the ones that are up schedule
\* meanwhile, the tasks task_create made stay in the ring, once each, and keep
\* their stacks (task.c:60-69, ap_startup.c, kernel_main).
THEOREM TasksKeptDuringBoot == BootSpec => [](RingComplete /\ RunnableOwnsStack)
<1>1. BootInv /\ [BootNext]_allVars => BootInv'
  <2>. SUFFICES ASSUME BootInv, [BootNext]_allVars PROVE BootInv'
    OBVIOUS
  <2>1. CASE UNCHANGED allVars
    <3>1. UNCHANGED <<ring, state, stack, current_task, ipi, pc, boot, toStart>>
      BY <2>1 DEF allVars, vars, bootVars
    <3>. QED BY <3>1, SMT DEF BootInv, BootTyped, RingComplete, InRingOwnsStack,
                         BootOrder, InRing
  <2>. QED BY <2>1, StartApKeeps, ApsStartedKeeps, CreateShellKeeps,
              EarlyTickKeeps, TickKeeps, CreateIdleKeeps, MarkRunningKeeps,
              AssignKeeps, EnterIdleKeeps, ReschedKeeps, BootAcquireKeeps,
              BootSwitchKeeps, BootLoadEspKeeps
           DEF BootNext
<1>2. BootInv => RingComplete /\ RunnableOwnsStack
  BY DEF BootInv, InRingOwnsStack, RingComplete, RunnableOwnsStack
<1>. QED BY <1>1, <1>2, BootInitInv, PTL DEF BootSpec
=============================================================================
