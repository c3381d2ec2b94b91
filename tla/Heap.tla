------------------------------- MODULE Heap -------------------------------
(***************************************************************************)
(* The kernel heap (kernel/memory/heap.c): a first-fit allocator with      *)
(* boundary tags.  The arena is raw memory, counted in words of 4 bytes;   *)
(* a block is a header (twice its size in words, plus 1 when it is used),  *)
(* the payload, and a footer (twice its size).  Headers, footers and the   *)
(* clients' data live in the same words, so a misplaced tag destroys data. *)
(* heap_lock is held, with interrupts off, for the whole of every call: a  *)
(* call is one action.  A call that returns 0 changes nothing, which is a  *)
(* stuttering step.                                                        *)
(***************************************************************************)
EXTENDS Integers, FiniteSets, Sequences

CONSTANTS HEAP_WORDS,    \* HEAP_SIZE / 4
          UIntMax,       \* largest unsigned int, in bytes
          Client,        \* callers; each holds at most one block
          Tag,           \* the word a client fills its memory with
          MallocSizes,   \* arguments of malloc, in bytes
          CallocShapes,  \* arguments <<num, size>> of calloc
          ReallocSizes   \* second arguments of realloc

MIN_BLOCK == 3           \* header, footer and one word

ASSUME HeapAssumption ==
  /\ HEAP_WORDS \in Nat /\ HEAP_WORDS >= MIN_BLOCK
  /\ UIntMax \in Nat /\ UIntMax >= 4 * HEAP_WORDS + 11
  /\ (UIntMax + 1) % 4 = 0
  /\ Tag \in [Client -> Int]
  /\ MallocSizes \subseteq 0..UIntMax
  /\ CallocShapes \subseteq (0..UIntMax) \X (0..UIntMax)
  /\ ReallocSizes \subseteq 0..UIntMax

VARIABLES mem,     \* the words of the arena
          starts,  \* where the walk over the headers finds a block
          held,    \* what each client holds: see Held
          freed,   \* pointers freed and not handed out again since
          seams    \* starts of blocks behind a remainder cut off by realloc

vars == <<mem, starts, held, freed, seams>>

Addr == 0..(HEAP_WORDS - 1)

(* ptr is 0 for null; the first kept words of the block hold val.          *)
Held == [ptr : 0..HEAP_WORDS, bytes : Nat, kept : Nat, val : Int]
Nothing == [ptr |-> 0, bytes |-> 0, kept |-> 0, val |-> 0]

SizeOf(w) == w \div 2
IsUsed(w) == w % 2 = 1

(* Header and set_footer of one block.                                     *)
SetBlock(m, a, s, used) ==
  [m EXCEPT ![a] = 2 * s + used, ![a + s - 1] = 2 * s]

(* The values of an unsigned int that are multiples of 4.                  *)
UIntWords == (UIntMax + 1) \div 4

(* A size in bytes, rounded up to words.                                   *)
Words(bytes) == ((bytes + 3) % (UIntMax + 1)) \div 4

AtLeastMinimal(need) == IF need < MIN_BLOCK THEN MIN_BLOCK ELSE need

Need_NoFooter(bytes) == AtLeastMinimal((1 + Words(bytes)) % UIntWords)

(* Block size, in words, for a request: the rounding and the sum with the  *)
(* two tags both wrap.                                                     *)
Need(bytes) == AtLeastMinimal((2 + Words(bytes)) % UIntWords)

(* The words between the tags that a block for the request is sure to have.*)
Room(bytes) == Need(bytes) - 2

-----------------------------------------------------------------------------
(* malloc_impl: the first free block that is large enough, split when the  *)
(* rest can be a block.                                                    *)
Fits(a, need) == ~IsUsed(mem[a]) /\ SizeOf(mem[a]) >= need

FirstFit(a, need) ==
  /\ a \in starts
  /\ Fits(a, need)
  /\ \A b \in starts : Fits(b, need) => a <= b

Splits(size, need) == size - need >= MIN_BLOCK

Place_StaleTag(m, a, need) ==
  LET size == SizeOf(m[a])
  IN  IF Splits(size, need)
      THEN [m EXCEPT ![a] = 2 * need + 1, ![a + need - 1] = 2 * need,
                     ![a + need] = 2 * (size - need)]
      ELSE SetBlock(m, a, size, 1)

Place(m, a, need) ==
  LET size == SizeOf(m[a])
  IN  IF Splits(size, need)
      THEN SetBlock(SetBlock(m, a, need, 1), a + need, size - need, 0)
      ELSE SetBlock(m, a, size, 1)

PlaceStarts(m, S, a, need) ==
  IF Splits(SizeOf(m[a]), need) THEN S \cup {a + need} ELSE S

(* Size of the block that Place makes.                                     *)
Given(m, a, need) ==
  IF Splits(SizeOf(m[a]), need) THEN need ELSE SizeOf(m[a])

(* A client stores val in the first n words of its memory.                 *)
Fill(m, p, n, val) ==
  [x \in DOMAIN m |-> IF x \in p..(p + n - 1) THEN val ELSE m[x]]

Grant(c, bytes, val) ==
  /\ held[c] = Nothing
  /\ bytes > 0
  /\ bytes <= 4 * HEAP_WORDS
  /\ \E a \in starts :
       /\ FirstFit(a, Need(bytes))
       /\ mem' = Fill(Place(mem, a, Need(bytes)), a + 1, Words(bytes), val)
       /\ starts' = PlaceStarts(mem, starts, a, Need(bytes))
       /\ held' = [held EXCEPT ![c] = [ptr |-> a + 1, bytes |-> bytes,
                                       kept |-> Words(bytes), val |-> val]]
       /\ freed' = freed \ ((a + 1)..(a + Given(mem, a, Need(bytes))))
       /\ UNCHANGED seams

Malloc(c) == \E n \in MallocSizes : Grant(c, n, Tag[c])

(* The product is checked against the width of unsigned int.               *)
Calloc(c) ==
  \E q \in CallocShapes :
    /\ q[1] # 0 /\ q[2] # 0
    /\ q[1] <= UIntMax \div q[2]
    /\ Grant(c, q[1] * q[2], 0)
-----------------------------------------------------------------------------
(* free_impl: clear the flag, then merge with the block behind and with    *)
(* the block in front, which the word before the header leads to.          *)
NextIsFree_Larger(m, a) ==
  LET n == a + SizeOf(m[a])
  IN  /\ n < HEAP_WORDS
      /\ SizeOf(m[n]) > MIN_BLOCK
      /\ SizeOf(m[n]) < HEAP_WORDS
      /\ ~IsUsed(m[n])

NextIsFree(m, a) ==
  LET n == a + SizeOf(m[a])
  IN  /\ n < HEAP_WORDS
      /\ SizeOf(m[n]) >= MIN_BLOCK
      /\ SizeOf(m[n]) < HEAP_WORDS
      /\ ~IsUsed(m[n])

PrevOf(m, a) == a - SizeOf(m[a - 1])

PrevIsFree(m, a) ==
  /\ a > MIN_BLOCK
  /\ SizeOf(m[a - 1]) >= MIN_BLOCK
  /\ SizeOf(m[a - 1]) < HEAP_WORDS
  /\ PrevOf(m, a) >= 0
  /\ ~IsUsed(m[PrevOf(m, a)])

Clear(m, a) == SetBlock(m, a, SizeOf(m[a]), 0)

MergeNext(m, a) ==
  IF NextIsFree(m, a)
  THEN SetBlock(m, a, SizeOf(m[a]) + SizeOf(m[a + SizeOf(m[a])]), 0)
  ELSE m

MergePrev(m, a) ==
  IF PrevIsFree(m, a)
  THEN SetBlock(m, PrevOf(m, a), SizeOf(m[a]) + SizeOf(m[a - 1]), 0)
  ELSE m

FreeBlock_ClearsOnce(m, a) ==
  IF PrevIsFree(m, a) THEN MergePrev(MergeNext(m, a), a)
                      ELSE MergeNext(Clear(m, a), a)

FreeBlock(m, a) == MergePrev(MergeNext(Clear(m, a), a), a)

FreeStarts(m, S, a) ==
  S \ (  (IF NextIsFree(m, a) THEN {a + SizeOf(m[a])} ELSE {})
    \cup (IF PrevIsFree(m, a) THEN {a} ELSE {}))

Free(c) ==
  /\ held[c] # Nothing
  /\ LET a == held[c].ptr - 1
     IN  /\ IsUsed(mem[a])
         /\ mem' = FreeBlock(mem, a)
         /\ starts' = FreeStarts(mem, starts, a)
         /\ freed' = freed \cup {a + 1}
  /\ seams' = seams \cap starts'
  /\ held' = [held EXCEPT ![c] = Nothing]

(* A second free of a pointer: refused when the word in front of it does   *)
(* not look like the header of a used block.                               *)
FreeAgain ==
  \E p \in freed :
    /\ IF IsUsed(mem[p - 1])
       THEN /\ mem' = FreeBlock(mem, p - 1)
            /\ starts' = FreeStarts(mem, starts, p - 1)
       ELSE UNCHANGED <<mem, starts>>
    /\ UNCHANGED <<held, freed, seams>>
-----------------------------------------------------------------------------
(* realloc_impl.  A null pointer is malloc, size 0 is free.                *)
Smaller(x, y) == IF x < y THEN x ELSE y

(* The block is large enough: it stays, and a rest that can be a block is  *)
(* cut off.  The rest is not merged with a free block behind it.           *)
ReallocInPlace(c, bytes) ==
  LET a == held[c].ptr - 1
      size == SizeOf(mem[a])
      need == Need(bytes)
  IN  /\ need <= size
      /\ IF Splits(size, need)
         THEN /\ mem' = SetBlock(SetBlock(mem, a, need, 1),
                                 a + need, size - need, 0)
              /\ starts' = starts \cup {a + need}
              /\ seams' = seams \cup ({a + size} \cap starts)
         ELSE UNCHANGED <<mem, starts, seams>>
      /\ held' = [held EXCEPT ![c].bytes = bytes,
                              ![c].kept = Smaller(@, Room(bytes))]
      /\ UNCHANGED freed

Copy_FromHeader(m, from, to, n) ==
  [x \in DOMAIN m |-> IF x \in to..(to + n - 1) THEN m[x - to + from - 1]
                                                ELSE m[x]]

Copy(m, from, to, n) ==
  [x \in DOMAIN m |-> IF x \in to..(to + n - 1) THEN m[x - to + from]
                                                ELSE m[x]]

(* A new block is allocated, the data copied, the old block freed.         *)
ReallocMoves(c, bytes) ==
  LET old == held[c].ptr - 1
      need == Need(bytes)
      n == Smaller(SizeOf(mem[old]) - 2, Words(bytes))
  IN  /\ need > SizeOf(mem[old])
      /\ bytes <= 4 * HEAP_WORDS
      /\ \E a \in starts :
           LET placed == Copy(Place(mem, a, need), old + 1, a + 1, n)
           IN  /\ FirstFit(a, need)
               /\ mem' = FreeBlock(placed, old)
               /\ starts' = FreeStarts(placed,
                              PlaceStarts(mem, starts, a, need), old)
               /\ held' = [held EXCEPT ![c].ptr = a + 1,
                                       ![c].bytes = bytes,
                                       ![c].kept = Smaller(@, Room(bytes))]
               /\ freed' = (freed \ ((a + 1)..(a + Given(mem, a, need))))
                             \cup {old + 1}
               /\ seams' = seams \cap starts'

Realloc(c) ==
  /\ held[c] # Nothing
  /\ IsUsed(mem[held[c].ptr - 1])
  /\ \E n \in ReallocSizes \ {0} : ReallocInPlace(c, n) \/ ReallocMoves(c, n)
-----------------------------------------------------------------------------
(* heap_init: one free block.                                              *)
Init ==
  /\ mem = SetBlock([x \in Addr |-> 0], 0, HEAP_WORDS, 0)
  /\ starts = {0}
  /\ held = [c \in Client |-> Nothing]
  /\ freed = {}
  /\ seams = {}

Next ==
  \/ \E c \in Client : Malloc(c) \/ Calloc(c) \/ Free(c) \/ Realloc(c)
  \/ FreeAgain

Spec == Init /\ [][Next]_vars
-----------------------------------------------------------------------------
(* Every variable has its type.                                            *)
TypeOK ==
  /\ mem \in [Addr -> Int]
  /\ starts \subseteq Addr
  /\ held \in [Client -> Held]
  /\ freed \subseteq 1..HEAP_WORDS
  /\ seams \subseteq Addr

(* One block ends where the next one starts, up to the end of the arena,   *)
(* no block starts inside another, the footer repeats the header, and the  *)
(* word before a header leads back to the block in front.                  *)
TilesOf(m, S) ==
  /\ 0 \in S
  /\ \A a \in S :
       /\ SizeOf(m[a]) >= MIN_BLOCK
       /\ a + SizeOf(m[a]) \in S \cup {HEAP_WORDS}
       /\ m[a + SizeOf(m[a]) - 1] = 2 * SizeOf(m[a])
       /\ a # 0 => /\ PrevOf(m, a) \in S
                   /\ SizeOf(m[PrevOf(m, a)]) = SizeOf(m[a - 1])
       /\ \A b \in S : b <= a \/ b >= a + SizeOf(m[a])

(* After any sequence of malloc, calloc, realloc and free, split and       *)
(* merged blocks tile the heap and the two tags of each block agree, so    *)
(* the walk of malloc_impl visits exactly starts, and never meets a size   *)
(* it would halt on.                                                       *)
Tiles == TilesOf(mem, starts)

(* The used blocks are those the callers hold, one each: nothing is leaked *)
(* by the moves of realloc.  Each is as large as what was asked for, and a *)
(* caller gets less in one case only: the rounding and the sum with the    *)
(* tags in realloc_impl, which unlike malloc_impl does not compare the     *)
(* size with HEAP_SIZE first, wrap for the last 11 sizes of an unsigned    *)
(* int, and the block is then cut to the minimum.                          *)
UsedAreHeld ==
  /\ {a \in starts : IsUsed(mem[a])} =
       {held[c].ptr - 1 : c \in {d \in Client : held[d] # Nothing}}
  /\ \A c, d \in Client :
       (c # d /\ held[c] # Nothing) => held[c].ptr # held[d].ptr
  /\ \A c \in Client :
       held[c] # Nothing =>
         \/ 4 * (SizeOf(mem[held[c].ptr - 1]) - 2) >= held[c].bytes
         \/ held[c].bytes > UIntMax - 11

(* free leaves two free blocks side by side only where the code is known   *)
(* to: behind a first block of minimal size (the backward merge asks for   *)
(* addr > HEAP_START + MIN_BLOCK), and behind a remainder that realloc cut *)
(* off in front of a free block.                                           *)
Coalesced ==
  \A a \in starts :
    LET n == a + SizeOf(mem[a])
    IN  (n \in starts /\ ~IsUsed(mem[a]) /\ ~IsUsed(mem[n]))
          => n = MIN_BLOCK \/ n \in seams

(* A second free of a pointer whose memory was not handed out again is     *)
(* recognised, whatever was merged or split around it in the meantime.     *)
DoubleFreeRefused == \A p \in freed : ~IsUsed(mem[p - 1])

(* What a caller holds, as the abstract store sees it.                     *)
Region(r) ==
  IF r = Nothing THEN {} ELSE r.ptr..(r.ptr + Room(r.bytes) - 1)

Data(m, r) == [i \in 1..r.kept |-> m[r.ptr + i - 1]]

Store == INSTANCE HeapStore
  WITH Arena <- Addr,
       region <- [c \in Client |-> Region(held[c])],
       data <- [c \in Client |-> Data(mem, held[c])]

(* The heap implements the abstract store: regions handed out never        *)
(* overlap, and what a caller stored is changed by no call of another      *)
(* caller, by no tag, and survives realloc up to the smaller of the two    *)
(* sizes.  The region is what a block for the size asked is sure to have:  *)
(* one word where the sums of realloc_impl wrap.                           *)
ImplementsStore == Store!Spec
=============================================================================
