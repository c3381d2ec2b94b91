----------------------------- MODULE HeapProofs -----------------------------
(***************************************************************************)
(* For every heap size, every set of callers and every set of requests:    *)
(* the blocks tile the heap, the used ones are those the callers hold, a   *)
(* second free is refused, no two free neighbours are left unmerged except *)
(* where free was not asked, and the callers see the regions of HeapStore. *)
(* The operators of Heap that rewrite the tags get one lemma each, about   *)
(* any memory m and set of block starts S.                                 *)
(***************************************************************************)
EXTENDS Heap, TLAPS

(* Memory and block starts of a well-formed heap.                          *)
Sound(m, S) == m \in [Addr -> Int] /\ S \subseteq Addr /\ TilesOf(m, S)

(* The freed pointers lie outside the used blocks, on words that do not    *)
(* look used.                                                              *)
Refused(m, S, F) ==
  \A p \in F :
    /\ p - 1 \in Addr
    /\ ~IsUsed(m[p - 1])
    /\ \A a \in S : IsUsed(m[a]) => p - 1 < a \/ p - 1 >= a + SizeOf(m[a])

(* UsedAreHeld with the size that the code computes for a request in the   *)
(* place of the size asked: this is preserved where the sums wrap, too.    *)
BlocksAreHeld ==
  /\ {a \in starts : IsUsed(mem[a])} =
       {held[c].ptr - 1 : c \in {d \in Client : held[d] # Nothing}}
  /\ \A c, d \in Client :
       (c # d /\ held[c] # Nothing) => held[c].ptr # held[d].ptr
  /\ \A c \in Client :
       held[c] # Nothing =>
         SizeOf(mem[held[c].ptr - 1]) >= Need(held[c].bytes)

(* The inductive invariant.                                                *)
HeapInv ==
  TypeOK /\ Tiles /\ BlocksAreHeld /\ Coalesced /\ Refused(mem, starts, freed)
-----------------------------------------------------------------------------
(* The leaves are for Zenon, unless they cite SMT.                         *)
USE Zenon

LEMMA Units == 0 \in Int /\ 1 \in Int
BY SMT

(* What is written into a tag is read back.                                *)
LEMMA TagBack ==
  ASSUME NEW s \in Int
  PROVE  /\ SizeOf(2 * s) = s /\ ~IsUsed(2 * s)
         /\ SizeOf(2 * s + 0) = s /\ ~IsUsed(2 * s + 0)
         /\ SizeOf(2 * s + 1) = s /\ IsUsed(2 * s + 1)
BY SMT DEF SizeOf, IsUsed

LEMMA SizeType == \A w \in Int : SizeOf(w) \in Int
BY SMT DEF SizeOf

(* SetBlock writes two words.                                              *)
LEMMA SetBlockWrites ==
  ASSUME NEW m \in [Addr -> Int], NEW a \in Addr, NEW s \in Int,
         NEW u \in Int, s >= 3, a + s <= HEAP_WORDS,
         NEW n, n = SetBlock(m, a, s, u)
  PROVE  /\ n \in [Addr -> Int]
         /\ n[a] = 2 * s + u
         /\ n[a + s - 1] = 2 * s
         /\ \A x \in Addr : x # a /\ x # a + s - 1 => n[x] = m[x]
<1>1. a + s - 1 \in Addr /\ a + s - 1 # a
  BY HeapAssumption, SMT DEF Addr
<1>2. 2 * s + u \in Int /\ 2 * s \in Int
  BY SMT
<1> QED
  BY <1>1, <1>2 DEF SetBlock

(* The bounds of a block of a well-formed heap.                            *)
LEMMA BlockBounds ==
  ASSUME NEW m, NEW S, Sound(m, S), NEW a \in S
  PROVE  /\ a \in Addr /\ a \in Nat /\ SizeOf(m[a]) \in Int
         /\ SizeOf(m[a]) >= 3 /\ a + SizeOf(m[a]) <= HEAP_WORDS
         /\ a + SizeOf(m[a]) - 1 \in Addr
<1>1. a \in Addr /\ m[a] \in Int /\ HEAP_WORDS \in Nat
  BY HeapAssumption DEF Sound
<1>2. SizeOf(m[a]) \in Int
  BY <1>1, SizeType
<1>3. SizeOf(m[a]) >= 3 /\ a + SizeOf(m[a]) \in S \cup {HEAP_WORDS}
  BY DEF Sound, TilesOf, MIN_BLOCK
<1>4. \A x \in S : x \in 0..(HEAP_WORDS - 1)
  BY DEF Sound, Addr
<1> QED
  BY <1>1, <1>2, <1>3, <1>4, SMT DEF Addr

(* Two blocks of a well-formed heap do not overlap.                        *)
LEMMA BlocksApart ==
  ASSUME NEW m, NEW S, Sound(m, S), NEW a \in S, NEW b \in S, a # b
  PROVE  b + SizeOf(m[b]) <= a \/ a + SizeOf(m[a]) <= b
<1>1. a \in Int /\ b \in Int /\ SizeOf(m[a]) \in Int /\ SizeOf(m[b]) \in Int
  BY BlockBounds, HeapAssumption, SMT DEF Addr
<1>2. b <= a \/ b >= a + SizeOf(m[a])
  BY DEF Sound, TilesOf
<1>3. a <= b \/ a >= b + SizeOf(m[b])
  BY DEF Sound, TilesOf
<1> QED
  BY <1>1, <1>2, <1>3, SMT

(* The block in front, found through the word before the header.           *)
LEMMA BlockInFront ==
  ASSUME NEW m, NEW S, Sound(m, S), NEW a \in S, a # 0
  PROVE  /\ PrevOf(m, a) \in S
         /\ SizeOf(m[PrevOf(m, a)]) = SizeOf(m[a - 1])
         /\ PrevOf(m, a) = a - SizeOf(m[a - 1])
         /\ PrevOf(m, a) + SizeOf(m[PrevOf(m, a)]) = a
<1>1. /\ PrevOf(m, a) \in S
      /\ SizeOf(m[PrevOf(m, a)]) = SizeOf(m[a - 1])
  BY DEF Sound, TilesOf
<1>2. a \in Int /\ SizeOf(m[PrevOf(m, a)]) \in Int
  BY <1>1, BlockBounds, HeapAssumption, SMT DEF Addr
<1> QED
  BY <1>1, <1>2, SMT DEF PrevOf

(* A memory with the same sizes in all tags is as well-formed.             *)
LEMMA SameTags ==
  ASSUME NEW m, NEW S, Sound(m, S), NEW n \in [Addr -> Int],
         \A a \in S : /\ SizeOf(n[a]) = SizeOf(m[a])
                      /\ n[a + SizeOf(m[a]) - 1] = m[a + SizeOf(m[a]) - 1]
                      /\ a # 0 => n[a - 1] = m[a - 1]
  PROVE  Sound(n, S)
<1> SUFFICES ASSUME NEW a \in S
             PROVE  /\ SizeOf(n[a]) >= MIN_BLOCK
                    /\ a + SizeOf(n[a]) \in S \cup {HEAP_WORDS}
                    /\ n[a + SizeOf(n[a]) - 1] = 2 * SizeOf(n[a])
                    /\ a # 0 => /\ PrevOf(n, a) \in S
                                /\ SizeOf(n[PrevOf(n, a)]) = SizeOf(n[a - 1])
                    /\ \A b \in S : b <= a \/ b >= a + SizeOf(n[a])
  BY DEF Sound, TilesOf
<1>1. a # 0 => PrevOf(n, a) = PrevOf(m, a)
  BY DEF PrevOf
<1>2. a # 0 => PrevOf(m, a) \in S
               /\ SizeOf(m[PrevOf(m, a)]) = SizeOf(m[a - 1])
  BY BlockInFront, SMT
<1>3. a # 0 => SizeOf(n[PrevOf(m, a)]) = SizeOf(m[PrevOf(m, a)])
  BY <1>2
<1> QED
  BY <1>1, <1>2, <1>3, ZenonT(30) DEF Sound, TilesOf

(* Clients write only between the header and the footer of their block.    *)
LEMMA PayloadKept ==
  ASSUME NEW m, NEW S, Sound(m, S), NEW a \in S, NEW n \in [Addr -> Int],
         \A x \in Addr : x <= a \/ x >= a + SizeOf(m[a]) - 1 => n[x] = m[x]
  PROVE  Sound(n, S) /\ \A b \in S : n[b] = m[b]
<1> SUFFICES ASSUME NEW b \in S
             PROVE  /\ n[b] = m[b]
                    /\ n[b + SizeOf(m[b]) - 1] = m[b + SizeOf(m[b]) - 1]
                    /\ b # 0 => n[b - 1] = m[b - 1]
  BY SameTags, SMT
<1>1. /\ a \in Addr /\ a \in Nat /\ SizeOf(m[a]) \in Int
      /\ SizeOf(m[a]) >= 3 /\ a + SizeOf(m[a]) <= HEAP_WORDS
  BY BlockBounds
<1>2. /\ b \in Addr /\ SizeOf(m[b]) \in Int
      /\ SizeOf(m[b]) >= 3 /\ b + SizeOf(m[b]) <= HEAP_WORDS
      /\ b + SizeOf(m[b]) - 1 \in Addr
  BY BlockBounds
<1>3. b = a \/ b + SizeOf(m[b]) <= a \/ a + SizeOf(m[a]) <= b
  BY BlocksApart
<1>4. b # 0 => b - 1 \in Addr
  BY <1>2, HeapAssumption, SMT DEF Addr
<1>5. a \in Int /\ b \in Int
  BY <1>1, <1>2, HeapAssumption, SMT DEF Addr
<1>6. n[b] = m[b]
  BY <1>1, <1>2, <1>3, <1>5, SMT
<1>7. n[b + SizeOf(m[b]) - 1] = m[b + SizeOf(m[b]) - 1]
  BY <1>1, <1>2, <1>3, <1>5, SMT
<1>8. b # 0 => n[b - 1] = m[b - 1]
  BY <1>1, <1>2, <1>3, <1>4, <1>5, SMT
<1> QED
  BY <1>6, <1>7, <1>8

(* Marking a block used or free.                                           *)
LEMMA FlagKept ==
  ASSUME NEW m, NEW S, Sound(m, S), NEW a \in S, NEW u \in {0, 1},
         NEW n, n = SetBlock(m, a, SizeOf(m[a]), u)
  PROVE  /\ Sound(n, S)
         /\ SizeOf(n[a]) = SizeOf(m[a])
         /\ IsUsed(n[a]) <=> u = 1
         /\ \A x \in Addr : x # a => n[x] = m[x]
<1>1. /\ a \in Addr /\ a \in Nat /\ SizeOf(m[a]) \in Int
      /\ SizeOf(m[a]) >= 3 /\ a + SizeOf(m[a]) <= HEAP_WORDS
  BY BlockBounds
<1>2. /\ n \in [Addr -> Int] /\ n[a] = 2 * SizeOf(m[a]) + u
      /\ n[a + SizeOf(m[a]) - 1] = 2 * SizeOf(m[a])
      /\ \A x \in Addr : x # a /\ x # a + SizeOf(m[a]) - 1 => n[x] = m[x]
  <2>1. m \in [Addr -> Int]
    BY DEF Sound
  <2>2. PICK s \in Int : s = SizeOf(m[a])
    BY <1>1
  <2>3. s >= 3 /\ a + s <= HEAP_WORDS /\ n = SetBlock(m, a, s, u)
    BY <1>1, <2>2
  <2>4. u \in Int
    BY Units
  <2>5. /\ n \in [Addr -> Int] /\ n[a] = 2 * s + u
        /\ n[a + s - 1] = 2 * s
        /\ \A x \in Addr : x # a /\ x # a + s - 1 => n[x] = m[x]
    BY <1>1, <2>1, <2>3, <2>4, SetBlockWrites, SMT
  <2> QED
    BY <2>2, <2>5
<1>3. m[a + SizeOf(m[a]) - 1] = 2 * SizeOf(m[a])
  BY DEF Sound, TilesOf
<1>4. \A x \in Addr : x # a => n[x] = m[x]
  BY <1>2, <1>3
<1>5. SizeOf(n[a]) = SizeOf(m[a]) /\ (IsUsed(n[a]) <=> u = 1)
  BY <1>1, <1>2, TagBack
<1>6. ASSUME NEW b \in S
      PROVE  /\ SizeOf(n[b]) = SizeOf(m[b])
             /\ n[b + SizeOf(m[b]) - 1] = m[b + SizeOf(m[b]) - 1]
             /\ b # 0 => n[b - 1] = m[b - 1]
  <2>1. /\ b \in Addr /\ SizeOf(m[b]) \in Int
        /\ SizeOf(m[b]) >= 3 /\ b + SizeOf(m[b]) - 1 \in Addr
    BY BlockBounds
  <2>2. b = a \/ b + SizeOf(m[b]) <= a \/ a + SizeOf(m[a]) <= b
    BY BlocksApart
  <2>3. b # 0 => b - 1 \in Addr
    BY <2>1, HeapAssumption, SMT DEF Addr
  <2>4. a \in Int /\ b \in Int
    BY <1>1, <2>1, HeapAssumption, SMT DEF Addr
  <2>5. b + SizeOf(m[b]) - 1 # a /\ b - 1 # a
    BY <1>1, <2>1, <2>2, <2>4, SMT
  <2> QED
    BY <1>4, <1>5, <2>1, <2>3, <2>5
<1> QED
  BY <1>2, <1>4, <1>5, <1>6, SameTags, SMT

(* What it takes to be a block of n among the starts T.                    *)
Block(n, T, c) ==
  /\ SizeOf(n[c]) >= 3
  /\ c + SizeOf(n[c]) \in T \cup {HEAP_WORDS}
  /\ n[c + SizeOf(n[c]) - 1] = 2 * SizeOf(n[c])
  /\ c # 0 => /\ PrevOf(n, c) \in T
              /\ SizeOf(n[PrevOf(n, c)]) = SizeOf(n[c - 1])
  /\ \A d \in T : d <= c \/ d >= c + SizeOf(n[c])

LEMMA SoundBlocks ==
  ASSUME NEW n, NEW T
  PROVE  Sound(n, T) <=> /\ n \in [Addr -> Int] /\ T \subseteq Addr
                         /\ 0 \in T /\ \A c \in T : Block(n, T, c)
BY DEF Sound, TilesOf, Block, MIN_BLOCK

(* A block is split in two, the second one free.                           *)
IsSplit(m, S, a, need, n, T) ==
  /\ Sound(m, S) /\ a \in S /\ need \in Int /\ need >= 3
  /\ SizeOf(m[a]) - need >= 3
  /\ n = SetBlock(SetBlock(m, a, need, 1), a + need, SizeOf(m[a]) - need, 0)
  /\ T = S \cup {a + need}

LEMMA SplitKept ==
  ASSUME NEW m, NEW S, NEW a, NEW need, NEW n, NEW T,
         IsSplit(m, S, a, need, n, T)
  PROVE  /\ Sound(n, T)
         /\ SizeOf(n[a]) = need /\ IsUsed(n[a]) /\ ~IsUsed(n[a + need])
         /\ \A x \in Addr : x < a \/ x >= a + SizeOf(m[a]) => n[x] = m[x]
         /\ \A x \in Addr : x # a => n[x] = m[x] \/ ~IsUsed(n[x])
<1> SUFFICES ASSUME Sound(m, S), a \in S, need \in Int, need >= 3,
                    NEW b, b = a + need,
                    NEW rest, rest = SizeOf(m[a]) - need, rest >= 3,
                    NEW k, k = SetBlock(m, a, need, 1),
                    n = SetBlock(k, b, rest, 0), T = S \cup {b}
             PROVE  /\ Sound(n, T)
                    /\ SizeOf(n[a]) = need /\ IsUsed(n[a]) /\ ~IsUsed(n[b])
                    /\ \A x \in Addr : x < a \/ x >= a + SizeOf(m[a])
                                        => n[x] = m[x]
                    /\ \A x \in Addr : x # a => n[x] = m[x] \/ ~IsUsed(n[x])
  BY DEF IsSplit
<1> DEFINE e == a + SizeOf(m[a])
<1>1. /\ a \in Addr /\ a \in Nat /\ SizeOf(m[a]) \in Int
      /\ SizeOf(m[a]) >= 3 /\ e <= HEAP_WORDS /\ HEAP_WORDS \in Nat
      /\ m \in [Addr -> Int] /\ S \subseteq Addr /\ 0 \in S
  <2>1. m \in [Addr -> Int] /\ S \subseteq Addr /\ 0 \in S
    BY DEF Sound, TilesOf
  <2> QED
    BY <2>1, BlockBounds, HeapAssumption
<1>2. /\ b \in Addr /\ b \in Nat /\ rest \in Int /\ rest >= 3
      /\ b + rest = e /\ b + rest - 1 = e - 1 /\ e \in Nat
      /\ a < b - 1 /\ b - 1 < b /\ b < e - 1
      /\ b - 1 \in Addr /\ e - 1 \in Addr /\ a + need <= HEAP_WORDS
  <2>2. PICK s \in Int : s = SizeOf(m[a])
    BY <1>1
  <2>3. s - need >= 3 /\ a + s <= HEAP_WORDS
    BY <1>1, <2>2
  <2>4. b = a + need /\ rest = s - need /\ e = a + s
    BY <2>2
  <2> HIDE DEF e
  <2>5. /\ b + rest = e /\ b + rest - 1 = e - 1 /\ e \in Nat /\ b \in Nat
        /\ a < b - 1 /\ b - 1 < b /\ b < e - 1 /\ e <= HEAP_WORDS
        /\ rest \in Int /\ rest >= 3 /\ a + need <= HEAP_WORDS
    BY <1>1, <2>3, <2>4, SMT
  <2>6. b \in Addr /\ b - 1 \in Addr /\ e - 1 \in Addr
    BY <1>1, <2>5, SMT DEF Addr
  <2> QED
    BY <2>5, <2>6
<1>3. /\ k \in [Addr -> Int] /\ k[a] = 2 * need + 1 /\ k[b - 1] = 2 * need
      /\ \A x \in Addr : x # a /\ x # b - 1 => k[x] = m[x]
  BY <1>1, <1>2, Units, SetBlockWrites, SMT
<1>4. /\ n \in [Addr -> Int] /\ n[b] = 2 * rest + 0 /\ n[e - 1] = 2 * rest
      /\ \A x \in Addr : x # b /\ x # e - 1 => n[x] = k[x]
  <2>2. /\ n \in [Addr -> Int] /\ n[b] = 2 * rest + 0
        /\ n[b + rest - 1] = 2 * rest
        /\ \A x \in Addr : x # b /\ x # b + rest - 1 => n[x] = k[x]
    BY <1>1, <1>2, <1>3, Units, SetBlockWrites, SMT
  <2> QED
    BY <1>2, <2>2
<1> HIDE DEF e
<1>5. /\ n[a] = 2 * need + 1 /\ n[b - 1] = 2 * need
      /\ \A x \in Addr : x # a /\ x # b - 1 /\ x # b /\ x # e - 1
                           => n[x] = m[x]
  BY <1>1, <1>2, <1>3, <1>4, SMT
<1>6. /\ SizeOf(n[a]) = need /\ IsUsed(n[a])
      /\ SizeOf(n[b - 1]) = need /\ ~IsUsed(n[b - 1])
      /\ SizeOf(n[b]) = rest /\ ~IsUsed(n[b])
      /\ SizeOf(n[e - 1]) = rest /\ ~IsUsed(n[e - 1])
  BY <1>2, <1>4, <1>5, TagBack
<1>7. \A x \in Addr : x < a \/ x >= e => n[x] = m[x]
  <2> SUFFICES ASSUME NEW x \in Addr, x < a \/ x >= e
               PROVE  x # a /\ x # b - 1 /\ x # b /\ x # e - 1
    BY <1>5
  <2>1. x \in Int
    BY <1>1, SMT DEF Addr
  <2> QED
    BY <1>1, <1>2, <2>1, SMT
<1>8. \A c \in S : c # a =>
        /\ c \in Addr /\ c \in Nat /\ SizeOf(m[c]) \in Int
        /\ SizeOf(m[c]) >= 3 /\ c + SizeOf(m[c]) - 1 \in Addr
        /\ c + SizeOf(m[c]) <= a \/ e <= c
        /\ n[c] = m[c]
  BY <1>1, <1>2, <1>7, BlockBounds, BlocksApart, SMT DEF e
<1>10. ASSUME NEW c \in S, c # 0, c # a
       PROVE  PrevOf(n, c) \in T
              /\ SizeOf(n[PrevOf(n, c)]) = SizeOf(n[c - 1])
  <2>1. PICK p \in S : /\ p = PrevOf(m, c) /\ p + SizeOf(m[p]) = c
                       /\ SizeOf(m[p]) = SizeOf(m[c - 1])
                       /\ p = c - SizeOf(m[c - 1])
    BY <1>10, BlockInFront
  <2>2. c \in Nat /\ c - 1 \in Addr /\ (c + SizeOf(m[c]) <= a \/ e <= c)
        /\ c < HEAP_WORDS /\ SizeOf(m[c]) \in Int /\ SizeOf(m[c]) >= 3
    <3>1. /\ c \in Addr /\ (c + SizeOf(m[c]) <= a \/ e <= c)
          /\ SizeOf(m[c]) \in Int /\ SizeOf(m[c]) >= 3
      BY <1>8, <1>10
    <3> QED
      BY <1>1, <1>10, <3>1, SMT DEF Addr
  <2>3. CASE c = e
    <3>1. PrevOf(n, c) = b
      BY <1>2, <1>6, <2>3, SMT DEF PrevOf
    <3> QED
      BY <1>6, <2>3, <3>1
  <2>4. CASE c # e
    <3>1. p # a
      BY <2>1, <2>4 DEF e
    <3>2. n[p] = m[p]
      BY <1>8, <3>1
    <3>3. n[c - 1] = m[c - 1]
      BY <1>1, <1>2, <1>7, <2>2, <2>4, SMT
    <3>4. PrevOf(n, c) = p
      BY <2>1, <3>3 DEF PrevOf
    <3> QED
      BY <2>1, <3>2, <3>3, <3>4
  <2> QED
    BY <2>3, <2>4
<1>11. ASSUME NEW c \in S, c # a
       PROVE  Block(n, T, c)
  <2>1. PICK s \in Int : s = SizeOf(m[c])
    BY <1>8, <1>11
  <2>2. /\ c \in Addr /\ c \in Nat /\ s >= 3 /\ c + s - 1 \in Addr
        /\ (c + s <= a \/ e <= c) /\ SizeOf(n[c]) = s
    BY <1>8, <1>11, <2>1
  <2>3. n[c + s - 1] = 2 * s /\ c + s \in T \cup {HEAP_WORDS}
    <3>1. n[c + s - 1] = m[c + s - 1]
      BY <1>1, <1>2, <1>7, <2>2, SMT
    <3> QED
      BY <2>1, <3>1 DEF Sound, TilesOf
  <2>4. \A d \in T : d <= c \/ d >= c + s
    <3>1. \A d \in S : d <= c \/ d >= c + s
      BY <2>1 DEF Sound, TilesOf
    <3> QED
      BY <1>1, <1>2, <2>2, <3>1, SMT
  <2> QED
    BY <1>10, <1>11, <2>2, <2>3, <2>4 DEF Block
<1>12. \A d \in S : d <= a \/ d >= e
  BY DEF Sound, TilesOf, e
<1>13. Block(n, T, a)
  <2>1. a # 0 => PrevOf(n, a) \in T /\ SizeOf(n[PrevOf(n, a)]) = SizeOf(n[a - 1])
    <3> SUFFICES ASSUME a # 0
                 PROVE  PrevOf(n, a) \in T
                        /\ SizeOf(n[PrevOf(n, a)]) = SizeOf(n[a - 1])
      OBVIOUS
    <3>1. PICK p \in S : /\ p = PrevOf(m, a) /\ p + SizeOf(m[p]) = a
                         /\ SizeOf(m[p]) = SizeOf(m[a - 1])
                         /\ p = a - SizeOf(m[a - 1])
      BY BlockInFront
    <3>2. n[a - 1] = m[a - 1]
      <4>1. a - 1 \in Addr
        BY <1>1, SMT DEF Addr
      <4> QED
        BY <1>1, <1>7, <4>1, SMT
    <3>3. p # a
      BY <1>1, <3>1, SMT
    <3> QED
      BY <1>8, <3>1, <3>2, <3>3 DEF PrevOf
  <2>2. \A d \in T : d <= a \/ d >= a + need
    BY <1>1, <1>2, <1>12, SMT DEF Addr
  <2>3. a + need = b
    OBVIOUS
  <2>4. SizeOf(n[a]) >= 3
    BY <1>6
  <2>5. a + SizeOf(n[a]) \in T /\ n[a + SizeOf(n[a]) - 1] = 2 * SizeOf(n[a])
    <3>1. a + SizeOf(n[a]) = b /\ SizeOf(n[a]) = need
      BY <1>6, <2>3
    <3>2. a + SizeOf(n[a]) - 1 = b - 1
      BY <1>1, <1>2, <3>1, SMT
    <3>3. a + SizeOf(n[a]) \in T
      BY <3>1
    <3> QED
      BY <1>5, <3>1, <3>2, <3>3
  <2>6. \A d \in T : d <= a \/ d >= a + SizeOf(n[a])
    BY <1>6, <2>2
  <2> QED
    BY <2>1, <2>4, <2>5, <2>6 DEF Block
<1>14. Block(n, T, b)
  <2>1. PrevOf(n, b) = a /\ SizeOf(n[a]) = SizeOf(n[b - 1])
    BY <1>1, <1>6, SMT DEF PrevOf
  <2>2. \A d \in T : d <= b \/ d >= e
    BY <1>1, <1>2, <1>12, SMT DEF Addr
  <2>3. e \in S \cup {HEAP_WORDS}
    BY DEF e, Sound, TilesOf
  <2>4. n[b + rest - 1] = 2 * rest /\ b + rest = e
    BY <1>2, <1>4
  <2> QED
    BY <1>2, <1>6, <2>1, <2>2, <2>3, <2>4 DEF Block
<1>15. Sound(n, T)
  <2>1. \A c \in T : Block(n, T, c)
    BY <1>11, <1>13, <1>14
  <2> QED
    BY <1>1, <1>2, <1>4, <2>1, SoundBlocks
<1>16. \A x \in Addr : x # a => n[x] = m[x] \/ ~IsUsed(n[x])
  BY <1>5, <1>6
<1> QED
  BY <1>6, <1>7, <1>15, <1>16 DEF e

(* A block is merged with the one behind it.                               *)
LEMMA MergeKept ==
  ASSUME NEW m, NEW S, Sound(m, S), NEW a \in S, NEW b \in S,
         b = a + SizeOf(m[a]),
         NEW n, n = SetBlock(m, a, SizeOf(m[a]) + SizeOf(m[b]), 0)
  PROVE  /\ Sound(n, S \ {b})
         /\ a # b
         /\ SizeOf(n[a]) = SizeOf(m[a]) + SizeOf(m[b])
         /\ ~IsUsed(n[a])
         /\ \A c \in S : c # a /\ c # b => n[c] = m[c]
         /\ \A x \in Addr : n[x] = m[x] \/ ~IsUsed(n[x])
         /\ \A x \in Addr : x < a => n[x] = m[x]
<1> DEFINE T == S \ {b}
           s == SizeOf(m[a])
           t == SizeOf(m[b])
           sum == s + t
           e == b + t
<1>1. /\ a \in Addr /\ a \in Nat /\ s \in Int /\ s >= 3
      /\ b \in Addr /\ b \in Nat /\ t \in Int /\ t >= 3
      /\ e <= HEAP_WORDS /\ HEAP_WORDS \in Nat /\ b = a + s
      /\ e - 1 \in Addr
  BY BlockBounds, HeapAssumption, SMT
<1>2. m \in [Addr -> Int] /\ S \subseteq Addr /\ 0 \in S
  BY DEF Sound, TilesOf
<1>3. n = SetBlock(m, a, sum, 0)
  OBVIOUS
<1>4. \A c \in S : /\ c \in Addr /\ c \in Nat /\ SizeOf(m[c]) \in Int
                   /\ SizeOf(m[c]) >= 3 /\ c + SizeOf(m[c]) - 1 \in Addr
  BY BlockBounds
<1>5. \A c \in S : c # a => c + SizeOf(m[c]) <= a \/ b <= c
  BY BlocksApart
<1>6. \A c \in S : c # b => c + SizeOf(m[c]) <= b \/ e <= c
  BY BlocksApart
<1>7. e \in S \cup {HEAP_WORDS}
  BY DEF Sound, TilesOf
<1> HIDE DEF s, t, e
<1>8. sum \in Int /\ sum >= 3 /\ a + sum = e /\ a + sum - 1 = e - 1
      /\ a < e - 1 /\ e \in Nat /\ a < b /\ b < e
  BY <1>1, SMT DEF e
<1> HIDE DEF sum
<1>9. /\ n \in [Addr -> Int] /\ n[a] = 2 * sum + 0 /\ n[e - 1] = 2 * sum
      /\ \A x \in Addr : x # a /\ x # e - 1 => n[x] = m[x]
  <2>1. /\ n \in [Addr -> Int] /\ n[a] = 2 * sum + 0
        /\ n[a + sum - 1] = 2 * sum
        /\ \A x \in Addr : x # a /\ x # a + sum - 1 => n[x] = m[x]
    BY <1>1, <1>2, <1>3, <1>8, Units, SetBlockWrites, SMT
  <2> QED
    BY <1>8, <2>1
<1>10. /\ SizeOf(n[a]) = sum /\ ~IsUsed(n[a])
       /\ SizeOf(n[e - 1]) = sum /\ ~IsUsed(n[e - 1])
  BY <1>8, <1>9, TagBack
<1>11. \A c \in S : c # a /\ c # b =>
         (c + SizeOf(m[c]) <= a \/ e <= c) /\ n[c] = m[c]
  <2> SUFFICES ASSUME NEW c \in S, c # a, c # b
               PROVE  (c + SizeOf(m[c]) <= a \/ e <= c) /\ n[c] = m[c]
    OBVIOUS
  <2>1. PICK r \in Int : r = SizeOf(m[c])
    BY <1>4
  <2>2. c \in Addr /\ c \in Nat /\ r >= 3
        /\ (c + r <= a \/ b <= c) /\ (c + r <= b \/ e <= c)
    BY <1>4, <1>5, <1>6, <2>1
  <2>3. c + r <= a \/ e <= c
    BY <1>1, <1>8, <2>2, SMT
  <2>4. c # e - 1
    BY <1>1, <1>8, <2>2, <2>3, SMT
  <2> QED
    BY <1>9, <2>1, <2>2, <2>3, <2>4
<1>12. ASSUME NEW c \in T, c # 0, c # e
       PROVE  /\ PrevOf(n, c) \in T
              /\ SizeOf(n[PrevOf(n, c)]) = SizeOf(n[c - 1])
  <2>1. PICK p \in S : /\ p = PrevOf(m, c) /\ p + SizeOf(m[p]) = c
                       /\ SizeOf(m[p]) = SizeOf(m[c - 1])
                       /\ p = c - SizeOf(m[c - 1])
    <3> HIDE DEF T
    <3>1. c \in S /\ c # 0
      BY <1>12 DEF T
    <3>2. /\ PrevOf(m, c) \in S
          /\ SizeOf(m[PrevOf(m, c)]) = SizeOf(m[c - 1])
          /\ PrevOf(m, c) = c - SizeOf(m[c - 1])
          /\ PrevOf(m, c) + SizeOf(m[PrevOf(m, c)]) = c
      BY <3>1, BlockInFront
    <3> QED
      BY <3>2
  <2>2. p # a /\ p # b
    BY <1>1, <1>12, <2>1 DEF s, t, e
  <2>3. c \in Addr /\ c \in Nat /\ c - 1 \in Addr
    <3>1. c \in Addr
      BY <1>4
    <3> QED
      BY <1>1, <1>12, <3>1, SMT DEF Addr
  <2>4. c - 1 # a
    <3>1. PICK r \in Int : r = SizeOf(m[p])
      BY <1>4
    <3>2. p \in Nat /\ r >= 3 /\ p + r = c /\ (p + r <= a \/ e <= p)
      BY <1>4, <1>11, <2>1, <2>2, <3>1
    <3> QED
      BY <1>1, <1>8, <3>2, SMT
  <2>5. c - 1 # e - 1
    BY <1>8, <1>12, <2>3, SMT
  <2>6. n[c - 1] = m[c - 1] /\ n[p] = m[p]
    BY <1>9, <1>11, <2>2, <2>3, <2>4, <2>5
  <2>7. PrevOf(n, c) = p
    BY <2>1, <2>6 DEF PrevOf
  <2> QED
    BY <2>1, <2>2, <2>6, <2>7
<1>13. ASSUME NEW c \in T, c # 0
       PROVE  /\ PrevOf(n, c) \in T
              /\ SizeOf(n[PrevOf(n, c)]) = SizeOf(n[c - 1])
  <2>1. CASE c = e
    <3>1. PrevOf(n, c) = a
      BY <1>1, <1>8, <1>10, <2>1, SMT DEF PrevOf
    <3> QED
      BY <1>1, <1>8, <1>10, <2>1, <3>1, SMT
  <2> QED
    BY <1>12, <1>13, <2>1
<1>14. ASSUME NEW c \in T, c # a
       PROVE  Block(n, T, c)
  <2>1. PICK r \in Int : r = SizeOf(m[c])
    BY <1>4
  <2>2. /\ c \in Addr /\ c \in Nat /\ r >= 3 /\ c + r - 1 \in Addr
        /\ (c + r <= a \/ e <= c) /\ SizeOf(n[c]) = r
    BY <1>4, <1>11, <1>14, <2>1
  <2>3. n[c + r - 1] = 2 * r
    <3>1. c + r - 1 # a /\ c + r - 1 # e - 1
      BY <1>1, <1>8, <2>2, SMT
    <3>2. n[c + r - 1] = m[c + r - 1]
      BY <1>9, <2>2, <3>1
    <3> QED
      BY <2>1, <3>2 DEF Sound, TilesOf
  <2>4. c + r \in T \cup {HEAP_WORDS}
    <3>1. c + r \in S \cup {HEAP_WORDS}
      BY <2>1 DEF Sound, TilesOf
    <3>2. c + r # b
      BY <1>1, <1>8, <2>2, SMT
    <3> QED
      BY <3>1, <3>2
  <2>5. \A d \in T : d <= c \/ d >= c + r
    BY <2>1 DEF Sound, TilesOf
  <2> HIDE DEF T
  <2> QED
    BY <1>13, <2>2, <2>3, <2>4, <2>5 DEF Block
<1>15. Block(n, T, a)
  <2>1. \A d \in T : d <= a \/ d >= e
    <3> SUFFICES ASSUME NEW d \in T, d # a
                 PROVE  d <= a \/ d >= e
      BY <1>1, SMT
    <3>1. PICK r \in Int : r = SizeOf(m[d])
      BY <1>4
    <3>2. d \in Nat /\ r >= 3 /\ (d + r <= a \/ e <= d)
      BY <1>4, <1>11, <3>1
    <3> QED
      BY <1>1, <1>8, <3>2, SMT
  <2>2. e \in T \cup {HEAP_WORDS} /\ a \in T
    BY <1>1, <1>7, <1>8, SMT
  <2> HIDE DEF T
  <2>3. a + SizeOf(n[a]) = e /\ a + SizeOf(n[a]) - 1 = e - 1
        /\ SizeOf(n[a]) >= 3
    BY <1>8, <1>10
  <2>4. n[a + SizeOf(n[a]) - 1] = 2 * SizeOf(n[a])
    BY <1>9, <1>10, <2>3
  <2> QED
    BY <1>13, <2>1, <2>2, <2>3, <2>4 DEF Block
<1>16. Sound(n, T)
  <2>1. \A c \in T : Block(n, T, c)
    BY <1>14, <1>15
  <2>2. T \subseteq Addr
    BY <1>2
  <2>3. 0 # b
    BY <1>1, <1>8, SMT
  <2>4. 0 \in T
    BY <1>2, <2>3
  <2> HIDE DEF T
  <2> QED
    BY <1>9, <2>1, <2>2, <2>4, SoundBlocks
<1>17. \A x \in Addr : n[x] = m[x] \/ ~IsUsed(n[x])
  BY <1>9, <1>10
<1>18. \A x \in Addr : x < a => n[x] = m[x]
  BY <1>1, <1>8, <1>9, SMT DEF Addr
<1>19. a # b
  BY <1>1, <1>8, SMT
<1>20. SizeOf(n[a]) = SizeOf(m[a]) + SizeOf(m[b])
  BY <1>10 DEF sum, s, t
<1> QED
  BY <1>10, <1>11, <1>16, <1>17, <1>18, <1>19, <1>20

(* Merging free blocks: no used block goes, and no word starts to look     *)
(* used.                                                                   *)
Merged(m, S, n, T) ==
  /\ Sound(n, T)
  /\ T \subseteq S
  /\ \A c \in S : IsUsed(m[c]) => c \in T /\ n[c] = m[c]
  /\ \A x \in Addr : n[x] = m[x] \/ ~IsUsed(n[x])

LEMMA MergeNextKept ==
  ASSUME NEW m, NEW S, Sound(m, S), NEW a \in S, ~IsUsed(m[a]),
         NEW n, n = MergeNext(m, a),
         NEW T, T = S \ IF NextIsFree(m, a) THEN {a + SizeOf(m[a])} ELSE {}
  PROVE  /\ Merged(m, S, n, T)
         /\ a \in T /\ ~IsUsed(n[a])
         /\ \A x \in Addr : x < a => n[x] = m[x]
<1>1. CASE NextIsFree(m, a)
  <2>1. PICK b : b = a + SizeOf(m[a])
    OBVIOUS
  <2>2. b \in S
    <3>1. b < HEAP_WORDS /\ HEAP_WORDS \in Nat
      BY <1>1, <2>1, HeapAssumption DEF NextIsFree
    <3>2. b \in S \cup {HEAP_WORDS}
      BY <2>1 DEF Sound, TilesOf
    <3> QED
      BY <3>1, <3>2, SMT
  <2>3. ~IsUsed(m[b]) /\ n = SetBlock(m, a, SizeOf(m[a]) + SizeOf(m[b]), 0)
        /\ T = S \ {b}
    BY <1>1, <2>1 DEF NextIsFree, MergeNext
  <2>4. /\ Sound(n, S \ {b}) /\ a # b /\ ~IsUsed(n[a])
        /\ \A c \in S : c # a /\ c # b => n[c] = m[c]
        /\ \A x \in Addr : n[x] = m[x] \/ ~IsUsed(n[x])
        /\ \A x \in Addr : x < a => n[x] = m[x]
    BY <2>1, <2>2, <2>3, MergeKept, SMT
  <2> QED
    BY <2>3, <2>4 DEF Merged
<1>2. CASE ~NextIsFree(m, a)
  BY <1>2 DEF MergeNext, Merged
<1> QED
  BY <1>1, <1>2

LEMMA MergePrevKept ==
  ASSUME NEW m, NEW S, Sound(m, S), NEW a \in S, ~IsUsed(m[a]),
         NEW n, n = MergePrev(m, a),
         NEW T, T = S \ IF PrevIsFree(m, a) THEN {a} ELSE {}
  PROVE  Merged(m, S, n, T) /\ ~IsUsed(n[a])
<1>1. CASE PrevIsFree(m, a)
  <2>1. a \in Addr /\ a \in Nat /\ SizeOf(m[a]) \in Int /\ a # 0
    BY <1>1, BlockBounds, SMT DEF PrevIsFree, MIN_BLOCK
  <2>2. PICK p \in S : /\ p = PrevOf(m, a) /\ p + SizeOf(m[p]) = a
                       /\ SizeOf(m[p]) = SizeOf(m[a - 1])
    BY <2>1, BlockInFront
  <2>3. SizeOf(m[p]) \in Int
    BY BlockBounds
  <2>4. ~IsUsed(m[p]) /\ n = SetBlock(m, p, SizeOf(m[p]) + SizeOf(m[a]), 0)
        /\ T = S \ {a}
    <3>1. SizeOf(m[p]) + SizeOf(m[a]) = SizeOf(m[a]) + SizeOf(m[a - 1])
      BY <2>1, <2>2, <2>3, SMT
    <3> QED
      BY <1>1, <2>2, <3>1 DEF PrevIsFree, MergePrev
  <2>5. /\ Sound(n, S \ {a}) /\ p # a /\ ~IsUsed(n[p])
        /\ \A c \in S : c # p /\ c # a => n[c] = m[c]
        /\ \A x \in Addr : n[x] = m[x] \/ ~IsUsed(n[x])
    BY <2>2, <2>4, MergeKept, SMT
  <2> QED
    BY <2>1, <2>4, <2>5 DEF Merged
<1>2. CASE ~PrevIsFree(m, a)
  BY <1>2 DEF MergePrev, Merged
<1> QED
  BY <1>1, <1>2

(* The steps of free: the flag cleared, the next block merged.             *)
FreeSteps(m, S, a, k, h, U) ==
  /\ Sound(k, S) /\ SizeOf(k[a]) = SizeOf(m[a]) /\ ~IsUsed(k[a])
  /\ \A x \in Addr : x # a => k[x] = m[x]
  /\ Merged(k, S, h, U) /\ a \in U /\ ~IsUsed(h[a])
  /\ FreeBlock(m, a) = MergePrev(h, a)
  /\ FreeStarts(m, S, a) = U \ IF PrevIsFree(h, a) THEN {a} ELSE {}

(* The three steps of free_impl.                                           *)
LEMMA FreeIs ==
  ASSUME NEW m, NEW S, Sound(m, S), NEW a \in S,
         NEW k, k = Clear(m, a), NEW h, h = MergeNext(k, a),
         NEW U, U = S \ IF NextIsFree(k, a) THEN {a + SizeOf(k[a])} ELSE {}
  PROVE  FreeSteps(m, S, a, k, h, U)
<1> USE DEF FreeSteps
<1>1. /\ a \in Addr /\ a \in Nat /\ SizeOf(m[a]) \in Int
      /\ SizeOf(m[a]) >= 3 /\ S \subseteq Addr
  BY BlockBounds DEF Sound
<1>2. /\ Sound(k, S) /\ SizeOf(k[a]) = SizeOf(m[a]) /\ ~IsUsed(k[a])
      /\ \A x \in Addr : x # a => k[x] = m[x]
  <2>1. k = SetBlock(m, a, SizeOf(m[a]), 0)
    BY DEF Clear
  <2> QED
    BY <2>1, 0 \in {0, 1}, FlagKept, SMT
<1>3. NextIsFree(k, a) <=> NextIsFree(m, a)
  <2>1. PICK b : b = a + SizeOf(m[a])
    OBVIOUS
  <2>2. b < HEAP_WORDS => k[b] = m[b]
    BY <1>1, <1>2, <2>1, HeapAssumption, SMT DEF Addr
  <2> QED
    BY <1>2, <2>1, <2>2 DEF NextIsFree
<1>4. /\ Merged(k, S, h, U) /\ a \in U /\ ~IsUsed(h[a])
      /\ \A x \in Addr : x < a => h[x] = k[x]
  BY <1>2, MergeNextKept, SMT
<1>5. PrevIsFree(h, a) <=> PrevIsFree(m, a)
  <2>1. CASE a = 0
    BY <2>1, SMT DEF PrevIsFree, MIN_BLOCK
  <2>2. CASE a # 0
    <3>1. a - 1 \in Addr /\ a - 1 < a
      BY <1>1, <2>2, HeapAssumption, SMT DEF Addr
    <3>2. h[a - 1] = m[a - 1]
      BY <1>1, <1>2, <1>4, <3>1, SMT
    <3>3. PICK p \in S : /\ p = PrevOf(m, a) /\ p + SizeOf(m[p]) = a
      BY <2>2, BlockInFront, SMT
    <3>4. p \in Addr /\ p < a
      BY <1>1, <3>3, BlockBounds, SMT
    <3>5. h[p] = m[p]
      BY <1>1, <1>2, <1>4, <3>4, SMT
    <3>6. PrevOf(h, a) = p
      BY <3>2, <3>3 DEF PrevOf
    <3> QED
      BY <3>2, <3>3, <3>5, <3>6 DEF PrevIsFree
  <2> QED
    BY <2>1, <2>2
<1>6. FreeBlock(m, a) = MergePrev(h, a)
  BY DEF FreeBlock
<1>7. FreeStarts(m, S, a) = U \ IF PrevIsFree(h, a) THEN {a} ELSE {}
  BY <1>2, <1>3, <1>5 DEF FreeStarts
<1> QED
  BY <1>2, <1>4, <1>6, <1>7

(* What free does to the used blocks: one of them goes.                    *)
LEMMA FreeKept ==
  ASSUME NEW m, NEW S, Sound(m, S), NEW a \in S,
         NEW n, n = FreeBlock(m, a), NEW T, T = FreeStarts(m, S, a)
  PROVE  /\ Sound(n, T)
         /\ \A c : c \in T /\ IsUsed(n[c])
                    <=> c \in S /\ IsUsed(m[c]) /\ c # a
         /\ \A c \in S : IsUsed(m[c]) /\ c # a => n[c] = m[c]
         /\ \A x \in Addr : n[x] = m[x] \/ ~IsUsed(n[x])
         /\ ~IsUsed(n[a])
<1>1. PICK k : k = Clear(m, a)
  OBVIOUS
<1>2. PICK h : h = MergeNext(k, a)
  OBVIOUS
<1>3. PICK U : U = S \ IF NextIsFree(k, a) THEN {a + SizeOf(k[a])} ELSE {}
  OBVIOUS
<1>4. /\ a \in Addr /\ S \subseteq Addr
  BY BlockBounds DEF Sound
<1>5. /\ Sound(k, S) /\ SizeOf(k[a]) = SizeOf(m[a]) /\ ~IsUsed(k[a])
      /\ \A x \in Addr : x # a => k[x] = m[x]
      /\ Merged(k, S, h, U) /\ a \in U /\ ~IsUsed(h[a])
      /\ n = MergePrev(h, a)
      /\ T = U \ IF PrevIsFree(h, a) THEN {a} ELSE {}
  <2>1. FreeSteps(m, S, a, k, h, U)
    BY <1>1, <1>2, <1>3, FreeIs
  <2> QED
    BY <2>1 DEF FreeSteps
<1>6. Merged(h, U, n, T) /\ ~IsUsed(n[a])
  <2>1. Sound(h, U)
    BY <1>5 DEF Merged
  <2> QED
    BY <1>5, <2>1, MergePrevKept
<1>7. \A c \in S : IsUsed(m[c]) /\ c # a => c \in T /\ n[c] = m[c]
  BY <1>4, <1>5, <1>6 DEF Merged
<1>8. \A x \in Addr : n[x] = m[x] \/ ~IsUsed(n[x])
  BY <1>5, <1>6 DEF Merged
<1>9. \A c \in T : IsUsed(n[c]) => c \in S /\ IsUsed(m[c]) /\ c # a
  BY <1>4, <1>5, <1>6, <1>8 DEF Merged
<1> QED
  BY <1>6, <1>7, <1>8, <1>9 DEF Merged

(* What place returns: a sound heap in which only the block changed.       *)
PlaceGives(m, S, a, need, n, T, g) ==
  /\ Sound(n, T) /\ a \in T
  /\ IsUsed(n[a]) /\ SizeOf(n[a]) = g /\ g \in Int /\ g >= need
  /\ \A c \in S : c # a => c \in T /\ n[c] = m[c]
  /\ \A c \in T : IsUsed(n[c]) => c \in S
  /\ \A x \in Addr : x # a => n[x] = m[x] \/ ~IsUsed(n[x])

(* What malloc does to the used blocks: one more, of the size given.       *)
LEMMA PlaceKept ==
  ASSUME NEW m, NEW S, Sound(m, S), NEW a \in S,
         NEW need \in Int, need >= 3, SizeOf(m[a]) >= need,
         NEW n, n = Place(m, a, need), NEW T, T = PlaceStarts(m, S, a, need),
         NEW g, g = Given(m, a, need)
  PROVE  PlaceGives(m, S, a, need, n, T, g)
<1> USE DEF PlaceGives
<1>1. SizeOf(m[a]) \in Int /\ a \in Nat
  BY BlockBounds
<1>2. \A c \in S : /\ c \in Addr /\ c \in Nat /\ SizeOf(m[c]) \in Int
                   /\ SizeOf(m[c]) >= 3
  BY BlockBounds
<1>3. \A c \in S : c # a => c < a \/ c >= a + SizeOf(m[a])
  <2> SUFFICES ASSUME NEW c \in S, c # a
               PROVE  c < a \/ c >= a + SizeOf(m[a])
    OBVIOUS
  <2>1. c + SizeOf(m[c]) <= a \/ a + SizeOf(m[a]) <= c
    BY BlocksApart
  <2> QED
    BY <1>1, <1>2, <2>1, SMT
<1>4. CASE Splits(SizeOf(m[a]), need)
  <2>1. /\ SizeOf(m[a]) - need >= 3 /\ T = S \cup {a + need} /\ g = need
        /\ n = SetBlock(SetBlock(m, a, need, 1),
                        a + need, SizeOf(m[a]) - need, 0)
    BY <1>4 DEF Splits, MIN_BLOCK, Place, PlaceStarts, Given
  <2>2. /\ Sound(n, T)
        /\ SizeOf(n[a]) = need /\ IsUsed(n[a]) /\ ~IsUsed(n[a + need])
        /\ \A x \in Addr : x < a \/ x >= a + SizeOf(m[a]) => n[x] = m[x]
        /\ \A x \in Addr : x # a => n[x] = m[x] \/ ~IsUsed(n[x])
    <3>1. IsSplit(m, S, a, need, n, T)
      BY <2>1 DEF IsSplit
    <3> QED
      BY <3>1, SplitKept, SMT
  <2> QED
    BY <1>2, <1>3, <2>1, <2>2, SMT
<1>5. CASE ~Splits(SizeOf(m[a]), need)
  <2>1. T = S /\ g = SizeOf(m[a]) /\ n = SetBlock(m, a, SizeOf(m[a]), 1)
    BY <1>5 DEF Place, PlaceStarts, Given
  <2>2. /\ Sound(n, S) /\ SizeOf(n[a]) = SizeOf(m[a]) /\ IsUsed(n[a])
        /\ \A x \in Addr : x # a => n[x] = m[x]
    BY <2>1, 1 \in {0, 1}, FlagKept, SMT
  <2> QED
    BY <1>1, <1>2, <2>1, <2>2
<1> QED
  BY <1>4, <1>5

(* Whatever is asked for, and wraps, a block has room for a word.          *)
LEMMA RoomOf ==
  ASSUME NEW bytes \in Nat
  PROVE  /\ Need(bytes) \in Int /\ Need(bytes) >= 3
         /\ Room(bytes) \in Nat /\ Room(bytes) >= 1
         /\ Need(bytes) = 2 + Room(bytes)
<1>1. UIntMax \in Nat /\ UIntMax >= 23
  BY HeapAssumption, SMT DEF MIN_BLOCK
<1>2. UIntWords \in Nat /\ UIntWords > 0
  BY <1>1, SMT DEF UIntWords
<1>3. Words(bytes) \in Int
  BY <1>1, SMT DEF Words
<1>4. (2 + Words(bytes)) % UIntWords \in Int
  BY <1>2, <1>3, SMT
<1>5. Need(bytes) \in Int /\ Need(bytes) >= 3
  BY <1>4, SMT DEF Need, AtLeastMinimal, MIN_BLOCK
<1> QED
  BY <1>5, SMT DEF Room

(* A remainder of a sum that passes the modulus at most once.              *)
LEMMA WrapsOnce ==
  ASSUME NEW x \in Nat, NEW k \in Nat, x < 2 * k
  PROVE  (x < k => x % k = x) /\ (~(x < k) => x % k = x - k)
BY SMT

(* The block for a request, as its size wraps or does not.  A request that *)
(* needs more than the minimum has not wrapped; one of at most             *)
(* UIntMax - 11 bytes does not wrap, and gets what it asks for.            *)
LEMMA NeedOf ==
  ASSUME NEW bytes \in 0..UIntMax
  PROVE  /\ Words(bytes) \in Nat /\ Need(bytes) \in Int /\ Need(bytes) >= 3
         /\ Need(bytes) > 3 => Need(bytes) = 2 + Words(bytes)
         /\ bytes > 0 /\ bytes <= UIntMax - 11
              => Need(bytes) = 2 + Words(bytes)
         /\ bytes <= UIntMax - 11 => 4 * (Need(bytes) - 2) >= bytes
<1> DEFINE N == UIntMax + 1
           K == UIntWords
           x == (bytes + 3) % N
           w == Words(bytes)
           y == (2 + w) % K
<1>1. UIntMax \in Nat /\ UIntMax >= 23 /\ N \in Nat /\ bytes \in Nat
  BY HeapAssumption, SMT DEF MIN_BLOCK
<1>2. K \in Nat /\ N = 4 * K /\ K >= 6
  <2>1. (UIntMax + 1) % 4 = 0
    BY HeapAssumption
  <2> QED
    BY <1>1, <2>1, SMT DEF UIntWords
<1>3. bytes + 3 < 2 * N /\ bytes + 3 \in Nat /\ bytes < N
  BY <1>1, SMT
<1>4. w = x \div 4 /\ Need(bytes) = IF y < 3 THEN 3 ELSE y
  BY DEF Words, Need, AtLeastMinimal, MIN_BLOCK
<1> HIDE DEF N, K
<1>5. /\ bytes + 3 < N => x = bytes + 3
      /\ ~(bytes + 3 < N) => x = bytes + 3 - N
  <2>1. PICK u \in Nat : u = bytes + 3
    BY <1>1, <1>3
  <2>2. u < 2 * N
    BY <1>1, <1>3, <2>1
  <2>3. (u < N => u % N = u) /\ (~(u < N) => u % N = u - N)
    BY <1>1, <1>3, <2>2, WrapsOnce
  <2>4. PICK z : z = u % N
    OBVIOUS
  <2>5. x = z
    BY <2>1, <2>4
  <2>6. (u < N => z = u) /\ (~(u < N) => z = u - N)
    BY <2>3, <2>4
  <2> HIDE DEF x
  <2> QED
    BY <1>1, <1>3, <2>1, <2>5, <2>6, SMT
<1> HIDE DEF x
<1>6. x \in Nat /\ x < N
  BY <1>1, <1>3, <1>5, SMT
<1> HIDE DEF w
<1>7. w \in Nat /\ 4 * w <= x /\ x <= 4 * w + 3
  BY <1>4, <1>6, SMT
<1>8. 2 + w < 2 * K /\ 2 + w \in Nat
  BY <1>2, <1>6, <1>7, SMT
<1>9. (2 + w < K => y = 2 + w) /\ (~(2 + w < K) => y = 2 + w - K)
  <2>1. PICK u \in Nat : u = 2 + w
    BY <1>2, <1>8
  <2>2. u < 2 * K
    BY <1>2, <1>8, <2>1
  <2>3. (u < K => u % K = u) /\ (~(u < K) => u % K = u - K)
    BY <1>2, <1>8, <2>2, WrapsOnce
  <2>4. PICK z : z = u % K
    OBVIOUS
  <2>5. y = z
    BY <2>1, <2>4
  <2>6. (u < K => z = u) /\ (~(u < K) => z = u - K)
    BY <2>3, <2>4
  <2> HIDE DEF y
  <2> QED
    BY <1>2, <1>7, <2>1, <2>5, <2>6, SMT
<1> HIDE DEF y
<1>10. /\ Need(bytes) \in Int /\ Need(bytes) >= 3
       /\ Need(bytes) > 3 => Need(bytes) = 2 + w
  BY <1>2, <1>4, <1>6, <1>7, <1>8, <1>9, SMT
<1>11. ASSUME bytes <= UIntMax - 11
       PROVE  /\ 4 * (Need(bytes) - 2) >= bytes
              /\ bytes > 0 => Need(bytes) = 2 + w
  <2>1. bytes + 11 < N
    BY <1>1, <1>11, SMT DEF N
  <2>2. x = bytes + 3
    BY <1>1, <1>3, <1>5, <2>1, SMT
  <2>3. 2 + w < K /\ 4 * w >= bytes
    BY <1>1, <1>2, <1>7, <2>1, <2>2, SMT
  <2>4. y = 2 + w
    BY <1>9, <2>3
  <2> QED
    BY <1>1, <1>4, <1>7, <2>3, <2>4, SMT
<1> QED
  BY <1>7, <1>10, <1>11 DEF w
-----------------------------------------------------------------------------
(* Who holds what, block by block.                                         *)
HeldOf(m, S, h) ==
  /\ \A x \in S : IsUsed(m[x]) =>
       \E c \in Client : h[c] # Nothing /\ h[c].ptr - 1 = x
  /\ \A c \in Client : h[c] # Nothing =>
       /\ h[c].ptr - 1 \in S
       /\ IsUsed(m[h[c].ptr - 1])
       /\ SizeOf(m[h[c].ptr - 1]) >= Need(h[c].bytes)
  /\ \A c, d \in Client :
       c # d /\ h[c] # Nothing /\ h[d] # Nothing => h[c].ptr # h[d].ptr

LEMMA HeldForm ==
  ASSUME NEW m, NEW S, S \subseteq Addr, NEW h \in [Client -> Held]
  PROVE  HeldOf(m, S, h) <=>
           /\ {a \in S : IsUsed(m[a])} =
                {h[c].ptr - 1 : c \in {d \in Client : h[d] # Nothing}}
           /\ \A c, d \in Client :
                (c # d /\ h[c] # Nothing) => h[c].ptr # h[d].ptr
           /\ \A c \in Client :
                h[c] # Nothing =>
                  SizeOf(m[h[c].ptr - 1]) >= Need(h[c].bytes)
<1> DEFINE Used == {a \in S : IsUsed(m[a])}
           Ptrs == {h[c].ptr - 1 : c \in {d \in Client : h[d] # Nothing}}
<1>1. Used = Ptrs <=>
        /\ \A x \in S : IsUsed(m[x]) =>
             \E c \in Client : h[c] # Nothing /\ h[c].ptr - 1 = x
        /\ \A c \in Client : h[c] # Nothing =>
             h[c].ptr - 1 \in S /\ IsUsed(m[h[c].ptr - 1])
  <2>1. \A x : x \in Used <=> x \in S /\ IsUsed(m[x])
    OBVIOUS
  <2>2. \A x : x \in Ptrs <=>
               \E c \in Client : h[c] # Nothing /\ h[c].ptr - 1 = x
    OBVIOUS
  <2>3. Used = Ptrs <=> \A x : x \in Used <=> x \in Ptrs
    OBVIOUS
  <2> HIDE DEF Used, Ptrs
  <2> QED
    BY <2>1, <2>2, <2>3
<1>2. \A c \in Client : h[c] = Nothing => h[c].ptr = 0
  BY SMT DEF Nothing
<1>3. ASSUME \A c \in Client : h[c] # Nothing => h[c].ptr - 1 \in S,
             NEW c \in Client, h[c] # Nothing
      PROVE  h[c].ptr # 0
  BY <1>3, HeapAssumption, SMT DEF Addr
<1> QED
  BY <1>1, <1>2, <1>3 DEF HeldOf

(* One client's block changes hands: what the others hold stays.           *)
Handed(m, S, h, n, T, c, r) ==
  /\ HeldOf(m, S, h) /\ c \in Client /\ h \in [Client -> Held]
  /\ \A x \in T : IsUsed(n[x]) =>
       \/ r # Nothing /\ x = r.ptr - 1
       \/ /\ x \in S /\ IsUsed(m[x])
          /\ h[c] # Nothing => x # h[c].ptr - 1
  /\ \A x \in S : IsUsed(m[x]) /\ (h[c] # Nothing => x # h[c].ptr - 1)
                    => x \in T /\ n[x] = m[x]
  /\ r # Nothing =>
       /\ r.ptr - 1 \in T /\ IsUsed(n[r.ptr - 1])
       /\ SizeOf(n[r.ptr - 1]) >= Need(r.bytes)
       /\ \/ ~(r.ptr - 1 \in S /\ IsUsed(m[r.ptr - 1]))
          \/ h[c] # Nothing /\ r.ptr = h[c].ptr

LEMMA HandedKept ==
  ASSUME NEW m, NEW S, NEW h, NEW n, NEW T, NEW c, NEW r,
         Handed(m, S, h, n, T, c, r)
  PROVE  HeldOf(n, T, [h EXCEPT ![c] = r])
<1> DEFINE k == [h EXCEPT ![c] = r]
<1>1. HeldOf(m, S, h) /\ c \in Client
  BY DEF Handed
<1>2. k[c] = r /\ \A d \in Client : d # c => k[d] = h[d]
  BY DEF Handed
<1> HIDE DEF k
<1>3. \A d \in Client : d # c /\ h[d] # Nothing =>
        /\ h[d].ptr - 1 \in S /\ IsUsed(m[h[d].ptr - 1])
        /\ h[c] # Nothing => h[d].ptr # h[c].ptr
        /\ h[d].ptr \in Int
        /\ SizeOf(m[h[d].ptr - 1]) >= Need(h[d].bytes)
  <2>1. \A d \in Client : h[d].ptr \in Int
    BY HeapAssumption, SMT DEF Handed, Held
  <2> QED
    BY <1>1, <2>1 DEF HeldOf
<1>4. h[c].ptr \in Int
  BY <1>1, HeapAssumption, SMT DEF Handed, Held
<1>5. \A d \in Client : d # c /\ h[d] # Nothing =>
        h[d].ptr - 1 \in T /\ n[h[d].ptr - 1] = m[h[d].ptr - 1]
  <2> SUFFICES ASSUME NEW d \in Client, d # c, h[d] # Nothing
               PROVE  h[d].ptr - 1 \in T /\ n[h[d].ptr - 1] = m[h[d].ptr - 1]
    OBVIOUS
  <2>1. PICK x : x = h[d].ptr - 1
    OBVIOUS
  <2>2. x \in S /\ IsUsed(m[x]) /\ (h[c] # Nothing => x # h[c].ptr - 1)
    BY <1>3, <1>4, <2>1, SMT
  <2>3. x \in T /\ n[x] = m[x]
    BY <2>2 DEF Handed
  <2> QED
    BY <2>1, <2>3
<1>6. ASSUME NEW x \in T, IsUsed(n[x])
      PROVE  \E d \in Client : k[d] # Nothing /\ k[d].ptr - 1 = x
  <2>1. CASE r # Nothing /\ x = r.ptr - 1
    BY <1>1, <1>2, <2>1
  <2>2. CASE /\ x \in S /\ IsUsed(m[x])
             /\ h[c] # Nothing => x # h[c].ptr - 1
    <3>1. PICK d \in Client : h[d] # Nothing /\ h[d].ptr - 1 = x
      BY <1>1, <2>2 DEF HeldOf
    <3>2. d # c
      BY <2>2, <3>1
    <3> QED
      BY <1>2, <3>1, <3>2
  <2> QED
    BY <1>6, <2>1, <2>2 DEF Handed
<1>7. ASSUME NEW d \in Client, k[d] # Nothing
      PROVE  /\ k[d].ptr - 1 \in T
             /\ IsUsed(n[k[d].ptr - 1])
             /\ SizeOf(n[k[d].ptr - 1]) >= Need(k[d].bytes)
  <2>1. CASE d = c
    BY <1>2, <1>7, <2>1 DEF Handed
  <2>2. CASE d # c
    BY <1>2, <1>3, <1>5, <1>7, <2>2
  <2> QED
    BY <2>1, <2>2
<1>8. ASSUME NEW d \in Client, d # c, h[d] # Nothing, r # Nothing
      PROVE  h[d].ptr # r.ptr
  BY <1>3, <1>8 DEF Handed
<1>9. ASSUME NEW d1 \in Client, NEW d2 \in Client,
             d1 # d2, k[d1] # Nothing, k[d2] # Nothing
      PROVE  k[d1].ptr # k[d2].ptr
  <2>1. CASE d1 # c /\ d2 # c
    BY <1>1, <1>2, <1>9, <2>1 DEF HeldOf
  <2> QED
    BY <1>2, <1>8, <1>9, <2>1
<1> QED
  BY <1>6, <1>7, <1>9 DEF HeldOf, k

(* A block placed and written to, for one that was free.                   *)
IsPlaced(m, S, F, a, need, n, T, G) ==
  /\ Sound(m, S) /\ Refused(m, S, F) /\ F \subseteq 1..HEAP_WORDS
  /\ a \in S /\ need \in Int /\ need >= 3 /\ SizeOf(m[a]) >= need
  /\ n \in [Addr -> Int] /\ T = PlaceStarts(m, S, a, need)
  /\ \A x \in Addr : x <= a \/ x >= a + need - 1
                      => n[x] = Place(m, a, need)[x]
  /\ G = F \ ((a + 1)..(a + Given(m, a, need)))

(* What malloc leaves: a sound heap, the other blocks as they were.        *)
PlacedGives(m, S, a, need, n, T, G) ==
  /\ Sound(n, T) /\ Refused(n, T, G)
  /\ a \in T /\ IsUsed(n[a])
  /\ SizeOf(n[a]) \in Int /\ SizeOf(n[a]) >= need
  /\ \A c \in S : c # a => c \in T /\ n[c] = m[c]
  /\ \A c \in T : IsUsed(n[c]) => c \in S
  /\ \A c \in T : n[c] = Place(m, a, need)[c]

LEMMA PlacedKept ==
  ASSUME NEW m, NEW S, NEW F, NEW a, NEW need, NEW n, NEW T, NEW G,
         IsPlaced(m, S, F, a, need, n, T, G)
  PROVE  PlacedGives(m, S, a, need, n, T, G)
<1> USE DEF PlacedGives
<1>1. PICK k : k = Place(m, a, need)
  OBVIOUS
<1>2. PICK g : g = Given(m, a, need)
  OBVIOUS
<1>3. /\ Sound(m, S) /\ a \in S /\ need \in Int /\ need >= 3
      /\ SizeOf(m[a]) >= need /\ n \in [Addr -> Int]
      /\ T = PlaceStarts(m, S, a, need)
  BY DEF IsPlaced
<1>4. /\ Sound(k, T) /\ a \in T
      /\ IsUsed(k[a]) /\ SizeOf(k[a]) = g /\ g \in Int /\ g >= need
      /\ \A c \in S : c # a => c \in T /\ k[c] = m[c]
      /\ \A c \in T : IsUsed(k[c]) => c \in S
      /\ \A x \in Addr : x # a => k[x] = m[x] \/ ~IsUsed(k[x])
  <2>1. PlaceGives(m, S, a, need, k, T, g)
    BY <1>1, <1>2, <1>3, PlaceKept
  <2> QED
    BY <2>1 DEF PlaceGives
<1>5. a \in Nat /\ a \in Addr
  BY <1>3, BlockBounds
<1>6. \A x \in Addr : x <= a \/ x >= a + SizeOf(k[a]) - 1 => n[x] = k[x]
  <2> SUFFICES ASSUME NEW x \in Addr, x <= a \/ x >= a + SizeOf(k[a]) - 1
               PROVE  x <= a \/ x >= a + need - 1
    BY <1>1 DEF IsPlaced
  <2>1. x \in Int
    BY HeapAssumption, SMT DEF Addr
  <2> QED
    BY <1>3, <1>4, <1>5, <2>1, SMT
<1>7. Sound(n, T) /\ \A c \in T : n[c] = k[c]
  BY <1>3, <1>4, <1>6, PayloadKept, SMT
<1>8. Refused(n, T, G)
  <2> SUFFICES ASSUME NEW p \in G
               PROVE  /\ p - 1 \in Addr
                      /\ ~IsUsed(n[p - 1])
                      /\ \A c \in T : IsUsed(n[c]) =>
                           p - 1 < c \/ p - 1 >= c + SizeOf(n[c])
    BY DEF Refused
  <2>1. /\ p \in F /\ p \in Int /\ p \notin (a + 1)..(a + g)
    BY <1>2, HeapAssumption, SMT DEF IsPlaced
  <2>2. PICK x : x = p - 1
    OBVIOUS
  <2>3. /\ x \in Addr /\ ~IsUsed(m[x])
        /\ \A c \in S : IsUsed(m[c]) => x < c \/ x >= c + SizeOf(m[c])
    BY <2>1, <2>2 DEF IsPlaced, Refused
  <2>4. x < a \/ x >= a + g
    BY <1>4, <1>5, <2>1, <2>2, SMT
  <2>5. x \in Int /\ x # a
    BY <1>3, <1>4, <1>5, <2>1, <2>2, <2>4, SMT
  <2>6. n[x] = k[x]
    BY <1>4, <1>5, <1>6, <2>3, <2>4, <2>5, SMT
  <2>7. ~IsUsed(n[x])
    BY <1>4, <2>3, <2>5, <2>6
  <2>8. \A c \in T : IsUsed(n[c]) => x < c \/ x >= c + SizeOf(n[c])
    BY <1>4, <1>7, <2>3, <2>4
  <2> QED
    BY <2>2, <2>3, <2>7, <2>8
<1> QED
  BY <1>1, <1>4, <1>7, <1>8

(* A used block freed.                                                     *)
IsFreed(m, S, F, a, n, T, G) ==
  /\ Sound(m, S) /\ Refused(m, S, F)
  /\ a \in S /\ IsUsed(m[a])
  /\ n = FreeBlock(m, a) /\ T = FreeStarts(m, S, a) /\ G = F \cup {a + 1}

LEMMA FreedKept ==
  ASSUME NEW m, NEW S, NEW F, NEW a, NEW n, NEW T, NEW G,
         IsFreed(m, S, F, a, n, T, G)
  PROVE  /\ Sound(n, T) /\ Refused(n, T, G)
         /\ \A c : c \in T /\ IsUsed(n[c])
                    <=> c \in S /\ IsUsed(m[c]) /\ c # a
         /\ \A c \in S : IsUsed(m[c]) /\ c # a => n[c] = m[c]
<1>1. /\ Sound(m, S) /\ Refused(m, S, F) /\ a \in S
      /\ n = FreeBlock(m, a) /\ T = FreeStarts(m, S, a)
  BY DEF IsFreed
<1>2. /\ Sound(n, T)
      /\ \A c : c \in T /\ IsUsed(n[c])
                 <=> c \in S /\ IsUsed(m[c]) /\ c # a
      /\ \A c \in S : IsUsed(m[c]) /\ c # a => n[c] = m[c]
      /\ \A x \in Addr : n[x] = m[x] \/ ~IsUsed(n[x])
      /\ ~IsUsed(n[a])
  BY <1>1, FreeKept, SMT
<1>3. a \in Addr /\ a \in Nat /\ SizeOf(m[a]) \in Int /\ SizeOf(m[a]) >= 3
  BY <1>1, BlockBounds
<1>4. ASSUME NEW p \in F
      PROVE  /\ p - 1 \in Addr /\ ~IsUsed(n[p - 1])
             /\ \A c \in T : IsUsed(n[c]) =>
                  p - 1 < c \/ p - 1 >= c + SizeOf(n[c])
  BY <1>1, <1>2 DEF Refused
<1>5. ASSUME NEW c \in T, IsUsed(n[c])
      PROVE  a < c \/ a >= c + SizeOf(n[c])
  <2>1. c \in S /\ c # a /\ n[c] = m[c]
    BY <1>2, <1>5
  <2>2. c + SizeOf(m[c]) <= a \/ a + SizeOf(m[a]) <= c
    BY <1>1, <2>1, BlocksApart
  <2>3. c \in Nat /\ SizeOf(m[c]) \in Int
    BY <1>1, <2>1, BlockBounds
  <2> QED
    BY <1>3, <2>1, <2>2, <2>3, SMT
<1>6. (a + 1) - 1 = a
  BY <1>3, SMT
<1>7. Refused(n, T, G)
  <2> SUFFICES ASSUME NEW p \in G
               PROVE  /\ p - 1 \in Addr /\ ~IsUsed(n[p - 1])
                      /\ \A c \in T : IsUsed(n[c]) =>
                           p - 1 < c \/ p - 1 >= c + SizeOf(n[c])
    BY DEF Refused
  <2>1. CASE p = a + 1
    BY <1>2, <1>3, <1>5, <1>6, <2>1
  <2> QED
    BY <1>4, <2>1 DEF IsFreed
<1> QED
  BY <1>2, <1>7
-----------------------------------------------------------------------------
(* Of two neighbours one is used, except at the boundaries Q and behind a  *)
(* first block of minimal size.                                            *)
Joined(m, S, Q) ==
  \A a \in S, b \in S :
    b = a + SizeOf(m[a]) /\ ~IsUsed(m[a]) /\ ~IsUsed(m[b]) => b = 3 \/ b \in Q

(* Only one block ends where a block starts.                               *)
LEMMA OneInFront ==
  ASSUME NEW m, NEW S, Sound(m, S), NEW a \in S, NEW b \in S,
         a + SizeOf(m[a]) = b + SizeOf(m[b])
  PROVE  a = b
<1>1. /\ a \in Nat /\ SizeOf(m[a]) \in Int /\ SizeOf(m[a]) >= 3
  BY BlockBounds
<1>2. /\ b \in Nat /\ SizeOf(m[b]) \in Int /\ SizeOf(m[b]) >= 3
  BY BlockBounds
<1>3. a # b => b + SizeOf(m[b]) <= a \/ a + SizeOf(m[a]) <= b
  BY BlocksApart
<1> QED
  BY <1>1, <1>2, <1>3, SMT

(* A block a taken for use, or split.                                      *)
LEMMA JoinedSplit ==
  ASSUME NEW m, NEW S, NEW a, NEW need, NEW n, NEW T, NEW Q, NEW R,
         IsSplit(m, S, a, need, n, T), Joined(m, S, Q), Q \subseteq R,
         ~IsUsed(m[a]) \/ a + SizeOf(m[a]) \in R
  PROVE  Joined(n, T, R)
<1> DEFINE s == SizeOf(m[a])
           r == a + need
           k == SetBlock(m, a, need, 1)
<1>1. /\ Sound(m, S) /\ a \in S /\ need \in Int /\ need >= 3 /\ s - need >= 3
      /\ n = SetBlock(k, r, s - need, 0) /\ T = S \cup {r}
      /\ m \in [Addr -> Int]
  BY DEF IsSplit, Sound
<1>2. /\ a \in Nat /\ a \in Addr /\ s \in Int /\ a + s <= HEAP_WORDS
      /\ HEAP_WORDS \in Nat
  BY <1>1, BlockBounds, HeapAssumption
<1>3. /\ Sound(n, T) /\ SizeOf(n[a]) = need /\ IsUsed(n[a]) /\ ~IsUsed(n[r])
      /\ \A x \in Addr : x < a \/ x >= a + s => n[x] = m[x]
  BY SplitKept, SMT
<1>4. SizeOf(n[r]) = s - need
  <2>1. k \in [Addr -> Int]
    <3>1. a + need <= HEAP_WORDS
      BY <1>1, <1>2, SMT
    <3> HIDE DEF s, r
    <3> QED
      BY <1>1, <1>2, <3>1, Units, SetBlockWrites, SMT
  <2>2. r \in Addr /\ s - need \in Int /\ r + (s - need) <= HEAP_WORDS
    <3>1. need \in Int /\ need >= 3 /\ s - need >= 3
      BY <1>1
    <3> HIDE DEF s
    <3>2. r \in Int /\ r >= 0 /\ r < HEAP_WORDS /\ r + (s - need) = a + s
      BY <1>2, <3>1, SMT
    <3> QED
      BY <1>2, <3>1, <3>2, SMT DEF Addr
  <2> HIDE DEF k, r, s
  <2>3. n[r] = 2 * (s - need) + 0
    BY <1>1, <2>1, <2>2, Units, SetBlockWrites, SMT
  <2> QED
    BY <2>2, <2>3, TagBack
<1>5. \A c \in S : /\ c \in Addr /\ c \in Nat /\ SizeOf(m[c]) \in Int
                   /\ SizeOf(m[c]) >= 3
  BY <1>1, BlockBounds
<1>6. \A c \in S : c # a => n[c] = m[c] /\ (c + SizeOf(m[c]) <= a \/ a + s <= c)
  <2> SUFFICES ASSUME NEW c \in S, c # a
               PROVE  n[c] = m[c] /\ (c + SizeOf(m[c]) <= a \/ a + s <= c)
    OBVIOUS
  <2>1. c + SizeOf(m[c]) <= a \/ a + s <= c
    BY <1>1, BlocksApart
  <2>2. c < a \/ c >= a + s
    BY <1>2, <1>5, <2>1, SMT
  <2> QED
    BY <1>3, <1>5, <2>1, <2>2
<1>7. r + (s - need) = a + s /\ r > a /\ r < a + s /\ r \in Int
  BY <1>1, <1>2, SMT
<1> HIDE DEF s, k, r
<1> SUFFICES ASSUME NEW x \in T, NEW y \in T, y = x + SizeOf(n[x]),
                    ~IsUsed(n[x]), ~IsUsed(n[y])
             PROVE  y = 3 \/ y \in R
  BY DEF Joined
<1>8. x # a /\ y # a
  BY <1>3
<1>9. CASE x = r
  <2>1. y = a + s
    BY <1>4, <1>7, <1>9
  <2>2. y \in S /\ n[y] = m[y]
    BY <1>1, <1>6, <1>7, <1>8, <2>1, SMT
  <2>3. ~IsUsed(m[a]) => y = 3 \/ y \in Q
    BY <1>1, <2>1, <2>2 DEF Joined, s
  <2> QED
    BY <2>1, <2>3 DEF s
<1>10. CASE x # r /\ y # r
  <2>1. x \in S /\ y \in S /\ n[x] = m[x] /\ n[y] = m[y]
    BY <1>1, <1>6, <1>8, <1>10
  <2> QED
    BY <2>1 DEF Joined
<1>11. CASE x # r /\ y = r
  <2>1. x \in S /\ n[x] = m[x]
    BY <1>1, <1>6, <1>8, <1>11
  <2>2. x + SizeOf(m[x]) <= a \/ a + s <= x
    BY <1>6, <1>8, <2>1
  <2>3. x \in Nat /\ SizeOf(m[x]) \in Int /\ SizeOf(m[x]) >= 3
    BY <1>5, <2>1
  <2> QED
    BY <1>2, <1>7, <1>11, <2>1, <2>2, <2>3, SMT
<1> QED
  BY <1>9, <1>10, <1>11

LEMMA JoinedSame ==
  ASSUME NEW m, NEW n, NEW S, NEW Q, Joined(m, S, Q), \A a \in S : n[a] = m[a]
  PROVE  Joined(n, S, Q)
BY DEF Joined

LEMMA JoinedPlace ==
  ASSUME NEW m, NEW S, Sound(m, S), NEW a \in S, ~IsUsed(m[a]),
         NEW need \in Int, need >= 3, SizeOf(m[a]) >= need,
         NEW n, n = Place(m, a, need), NEW T, T = PlaceStarts(m, S, a, need),
         NEW Q, Joined(m, S, Q)
  PROVE  Joined(n, T, Q)
<1>1. CASE Splits(SizeOf(m[a]), need)
  <2>1. IsSplit(m, S, a, need, n, T)
    BY <1>1 DEF Splits, MIN_BLOCK, Place, PlaceStarts, IsSplit
  <2> QED
    BY <2>1, JoinedSplit
<1>2. CASE ~Splits(SizeOf(m[a]), need)
  <2>1. T = S /\ n = SetBlock(m, a, SizeOf(m[a]), 1)
    BY <1>2 DEF Place, PlaceStarts
  <2>2. IsUsed(n[a]) /\ \A x \in Addr : x # a => n[x] = m[x]
    BY <2>1, 1 \in {0, 1}, FlagKept, SMT
  <2>3. S \subseteq Addr
    BY DEF Sound
  <2> QED
    BY <2>1, <2>2, <2>3 DEF Joined
<1> QED
  BY <1>1, <1>2

LEMMA JoinedPlaced ==
  ASSUME NEW m, NEW S, NEW F, NEW a, NEW need, NEW n, NEW T, NEW G,
         IsPlaced(m, S, F, a, need, n, T, G), ~IsUsed(m[a]),
         NEW Q, Joined(m, S, Q)
  PROVE  Joined(n, T, Q)
<1>1. PICK k : k = Place(m, a, need)
  OBVIOUS
<1>2. /\ Sound(m, S) /\ a \in S /\ need \in Int /\ need >= 3
      /\ SizeOf(m[a]) >= need /\ T = PlaceStarts(m, S, a, need)
  BY DEF IsPlaced
<1>3. Joined(k, T, Q)
  BY <1>1, <1>2, JoinedPlace
<1>4. \A c \in T : n[c] = k[c]
  <2>1. PlacedGives(m, S, a, need, n, T, G)
    BY PlacedKept
  <2> QED
    BY <1>1, <2>1 DEF PlacedGives
<1> QED
  BY <1>3, <1>4, JoinedSame

(* Two free neighbours become one block: the boundary b between them goes. *)
LEMMA JoinedMerge ==
  ASSUME NEW m, NEW S, Sound(m, S), NEW a \in S, NEW b \in S,
         b = a + SizeOf(m[a]), ~IsUsed(m[a]), ~IsUsed(m[b]),
         NEW n, n = SetBlock(m, a, SizeOf(m[a]) + SizeOf(m[b]), 0),
         NEW Q, Joined(m, S, Q \cup {b})
  PROVE  Joined(n, S \ {b}, Q)
<1>1. /\ SizeOf(n[a]) = SizeOf(m[a]) + SizeOf(m[b])
      /\ \A c \in S : c # a /\ c # b => n[c] = m[c]
  <2>1. PICK t : t = SetBlock(m, a, SizeOf(m[a]) + SizeOf(m[b]), 0)
    OBVIOUS
  <2>2. /\ Sound(t, S \ {b}) /\ a # b
        /\ SizeOf(t[a]) = SizeOf(m[a]) + SizeOf(m[b])
        /\ \A c \in S : c # a /\ c # b => t[c] = m[c]
    BY <2>1, MergeKept, SMT
  <2> QED
    BY <2>1, <2>2
<1>2. a \in Nat /\ SizeOf(m[a]) \in Int /\ SizeOf(m[b]) \in Int
      /\ SizeOf(m[b]) >= 3 /\ SizeOf(m[a]) >= 3
  BY BlockBounds
<1> SUFFICES ASSUME NEW x \in S \ {b}, NEW y \in S \ {b}, y = x + SizeOf(n[x]),
                    ~IsUsed(n[x]), ~IsUsed(n[y])
             PROVE  y = 3 \/ y \in Q
  BY DEF Joined
<1>3. y # a => ~IsUsed(m[y])
  BY <1>1
<1>4. ~IsUsed(m[y])
  BY <1>3
<1>5. CASE x = a
  <2>1. y = b + SizeOf(m[b])
    BY <1>1, <1>2, <1>5, SMT
  <2> QED
    BY <1>4, <2>1 DEF Joined
<1>6. CASE x # a
  <2>1. n[x] = m[x]
    BY <1>1, <1>6
  <2> QED
    BY <1>4, <2>1 DEF Joined
<1> QED
  BY <1>5, <1>6

LEMMA JoinedNext ==
  ASSUME NEW m, NEW S, Sound(m, S), NEW a \in S, ~IsUsed(m[a]),
         NEW n, n = MergeNext(m, a),
         NEW T, T = S \ IF NextIsFree(m, a) THEN {a + SizeOf(m[a])} ELSE {},
         NEW Q, Joined(m, S, Q \cup {a + SizeOf(m[a])})
  PROVE  Joined(n, T, Q)
<1>1. PICK b : b = a + SizeOf(m[a])
  OBVIOUS
<1>2. /\ a \in Nat /\ SizeOf(m[a]) \in Int /\ SizeOf(m[a]) >= 3
      /\ HEAP_WORDS \in Nat /\ S \subseteq Addr
  BY BlockBounds, HeapAssumption DEF Sound
<1>3. CASE NextIsFree(m, a)
  <2>1. b \in S
    <3>1. b < HEAP_WORDS
      BY <1>1, <1>3 DEF NextIsFree
    <3>2. b \in S \cup {HEAP_WORDS}
      BY <1>1 DEF Sound, TilesOf
    <3> QED
      BY <1>2, <3>1, <3>2, SMT
  <2>2. /\ n = SetBlock(m, a, SizeOf(m[a]) + SizeOf(m[b]), 0)
        /\ T = S \ {b} /\ ~IsUsed(m[b])
    BY <1>1, <1>3 DEF MergeNext, NextIsFree
  <2> QED
    BY <1>1, <2>1, <2>2, JoinedMerge, SMT
<1>4. CASE ~NextIsFree(m, a)
  <2>1. n = m /\ T = S
    BY <1>4 DEF MergeNext
  <2>2. b \in S => IsUsed(m[b])
    <3> SUFFICES ASSUME b \in S PROVE IsUsed(m[b])
      OBVIOUS
    <3>1. /\ b \in Nat /\ SizeOf(m[b]) \in Int /\ SizeOf(m[b]) >= 3
          /\ b + SizeOf(m[b]) <= HEAP_WORDS
      BY BlockBounds
    <3>2. b < HEAP_WORDS /\ SizeOf(m[b]) < HEAP_WORDS
      BY <1>1, <1>2, <3>1, SMT
    <3> QED
      BY <1>1, <1>4, <3>1, <3>2 DEF NextIsFree, MIN_BLOCK
  <2> QED
    BY <1>1, <2>1, <2>2 DEF Joined
<1> QED
  BY <1>3, <1>4

LEMMA JoinedPrev ==
  ASSUME NEW m, NEW S, Sound(m, S), NEW a \in S, ~IsUsed(m[a]),
         NEW n, n = MergePrev(m, a),
         NEW T, T = S \ IF PrevIsFree(m, a) THEN {a} ELSE {},
         NEW Q, Joined(m, S, Q \cup {a})
  PROVE  Joined(n, T, Q)
<1>1. \A c \in S : /\ c \in Nat /\ SizeOf(m[c]) \in Int /\ SizeOf(m[c]) >= 3
                   /\ c + SizeOf(m[c]) <= HEAP_WORDS
  BY BlockBounds
<1>2. HEAP_WORDS \in Nat
  BY HeapAssumption
<1>3. CASE PrevIsFree(m, a)
  <2>1. a # 0
    BY <1>3, SMT DEF PrevIsFree, MIN_BLOCK
  <2>2. PICK p \in S : /\ p = PrevOf(m, a) /\ p + SizeOf(m[p]) = a
                       /\ SizeOf(m[p]) = SizeOf(m[a - 1])
    BY <2>1, BlockInFront
  <2>3. ~IsUsed(m[p]) /\ n = SetBlock(m, p, SizeOf(m[p]) + SizeOf(m[a]), 0)
        /\ T = S \ {a}
    <3>1. SizeOf(m[a]) + SizeOf(m[p]) = SizeOf(m[p]) + SizeOf(m[a])
      BY <1>1, SMT
    <3> QED
      BY <1>3, <2>2, <3>1 DEF MergePrev, PrevIsFree
  <2> QED
    BY <2>2, <2>3, JoinedMerge, SMT
<1>4. CASE ~PrevIsFree(m, a)
  <2>1. n = m /\ T = S
    BY <1>4 DEF MergePrev
  <2>2. ASSUME NEW x \in S, a = x + SizeOf(m[x]), ~IsUsed(m[x])
        PROVE  a = 3
    <3>1. a \in Nat /\ x \in Nat /\ SizeOf(m[x]) >= 3 /\ SizeOf(m[x]) \in Int
          /\ SizeOf(m[a]) >= 3 /\ SizeOf(m[a]) \in Int
          /\ a + SizeOf(m[a]) <= HEAP_WORDS
      BY <1>1
    <3>2. a >= 3 /\ a # 0 /\ SizeOf(m[x]) < HEAP_WORDS
      BY <1>2, <2>2, <3>1, SMT
    <3>3. PICK p \in S : /\ p = PrevOf(m, a) /\ p + SizeOf(m[p]) = a
                         /\ SizeOf(m[p]) = SizeOf(m[a - 1])
      BY <3>2, BlockInFront
    <3>4. p = x
      BY <2>2, <3>3, OneInFront
    <3>5. ~(a > 3)
      BY <1>4, <2>2, <3>1, <3>2, <3>3, <3>4, SMT DEF PrevIsFree, MIN_BLOCK
    <3> QED
      BY <3>1, <3>2, <3>5, SMT
  <2> QED
    BY <2>1, <2>2 DEF Joined
<1> QED
  BY <1>3, <1>4

(* free leaves no new pair of free neighbours.                             *)
LEMMA JoinedFree ==
  ASSUME NEW m, NEW S, Sound(m, S), NEW a \in S,
         NEW n, n = FreeBlock(m, a), NEW T, T = FreeStarts(m, S, a),
         NEW Q, Joined(m, S, Q)
  PROVE  Joined(n, T, Q)
<1>1. PICK k : k = Clear(m, a)
  OBVIOUS
<1>2. PICK h : h = MergeNext(k, a)
  OBVIOUS
<1>3. PICK U : U = S \ IF NextIsFree(k, a) THEN {a + SizeOf(k[a])} ELSE {}
  OBVIOUS
<1>4. /\ Sound(k, S) /\ SizeOf(k[a]) = SizeOf(m[a]) /\ ~IsUsed(k[a])
      /\ \A x \in Addr : x # a => k[x] = m[x]
      /\ Merged(k, S, h, U) /\ a \in U /\ ~IsUsed(h[a])
      /\ n = MergePrev(h, a)
      /\ T = U \ IF PrevIsFree(h, a) THEN {a} ELSE {}
  <2>1. FreeSteps(m, S, a, k, h, U)
    BY <1>1, <1>2, <1>3, FreeIs
  <2> QED
    BY <2>1 DEF FreeSteps
<1>5. PICK e : e = a + SizeOf(k[a])
  OBVIOUS
<1>6. Joined(k, S, (Q \cup {a}) \cup {e})
  <2>1. S \subseteq Addr
    BY DEF Sound
  <2>2. \A c \in S : c # a => k[c] = m[c]
    BY <1>4, <2>1
  <2> QED
    BY <1>5, <2>2 DEF Joined
<1>7. Joined(h, U, Q \cup {a})
  BY <1>2, <1>3, <1>4, <1>5, <1>6, JoinedNext
<1>8. Sound(h, U)
  BY <1>4 DEF Merged
<1> QED
  BY <1>4, <1>7, <1>8, JoinedPrev
-----------------------------------------------------------------------------
(* The invariant, of any memory, starts, holdings and freed pointers.      *)
Ok(m, S, h, F) ==
  /\ Sound(m, S)
  /\ h \in [Client -> Held]
  /\ F \subseteq 1..HEAP_WORDS
  /\ HeldOf(m, S, h)
  /\ Refused(m, S, F)

LEMMA JoinedForm ==
  /\ Coalesced <=> Joined(mem, starts, seams)
  /\ Coalesced' <=> Joined(mem', starts', seams')
BY DEF Coalesced, Joined, MIN_BLOCK

LEMMA InvForm ==
  HeapInv <=> /\ Ok(mem, starts, held, freed) /\ seams \subseteq Addr
              /\ Joined(mem, starts, seams)
<1>1. ASSUME starts \subseteq Addr, held \in [Client -> Held]
      PROVE  BlocksAreHeld <=> HeldOf(mem, starts, held)
  BY <1>1, HeldForm DEF BlocksAreHeld
<1> QED
  BY <1>1, JoinedForm DEF HeapInv, TypeOK, Tiles, Ok, Sound

LEMMA InvFormNext ==
  HeapInv' <=> /\ Ok(mem', starts', held', freed') /\ seams' \subseteq Addr
               /\ Joined(mem', starts', seams')
<1>1. ASSUME starts' \subseteq Addr, held' \in [Client -> Held]
      PROVE  BlocksAreHeld' <=> HeldOf(mem', starts', held')
  BY <1>1, HeldForm DEF BlocksAreHeld
<1> QED
  BY <1>1, JoinedForm DEF HeapInv, TypeOK, Tiles, Ok, Sound

(* What a client holds is a used block.                                    *)
LEMMA HeldBlock ==
  ASSUME Ok(mem, starts, held, freed), NEW c \in Client,
         held[c] # Nothing, NEW a, a = held[c].ptr - 1
  PROVE  /\ a \in starts /\ IsUsed(mem[a]) /\ a \in Addr /\ a \in Nat
         /\ held[c].ptr = a + 1 /\ held[c] \in Held
<1>1. a \in starts /\ IsUsed(mem[a])
  BY DEF Ok, HeldOf
<1>2. a \in Addr /\ a \in Nat
  BY <1>1, BlockBounds DEF Ok
<1>3. held[c] \in Held /\ held[c].ptr \in Int
  BY HeapAssumption, SMT DEF Ok, Held
<1> QED
  BY <1>1, <1>2, <1>3, SMT
-----------------------------------------------------------------------------
(* malloc_impl refuses the sizes whose sums would wrap.                    *)
LEMMA GrantNeed ==
  ASSUME NEW c, NEW bytes \in Int, NEW val, Grant(c, bytes, val)
  PROVE  /\ Words(bytes) \in Nat /\ Need(bytes) \in Int /\ Need(bytes) >= 3
         /\ Need(bytes) = 2 + Words(bytes) /\ Room(bytes) = Words(bytes)
<1>1. bytes > 0 /\ bytes <= 4 * HEAP_WORDS
  BY DEF Grant
<1>2. bytes \in 0..UIntMax /\ bytes <= UIntMax - 11
  BY <1>1, HeapAssumption, SMT
<1>3. /\ Words(bytes) \in Nat /\ Need(bytes) \in Int /\ Need(bytes) >= 3
      /\ Need(bytes) = 2 + Words(bytes)
  BY <1>1, <1>2, NeedOf
<1> QED
  BY <1>3, SMT DEF Room

(* malloc and calloc: the first free block that fits is placed.            *)
LEMMA GrantPlaces ==
  ASSUME HeapInv, NEW c \in Client, NEW bytes \in Int, NEW val \in Int,
         Grant(c, bytes, val)
  PROVE  \E a \in starts :
           /\ ~IsUsed(mem[a])
           /\ IsPlaced(mem, starts, freed, a, Need(bytes),
                       mem', starts', freed')
           /\ held' = [held EXCEPT ![c] = [ptr |-> a + 1, bytes |-> bytes,
                                           kept |-> Words(bytes), val |-> val]]
<1> DEFINE need == Need(bytes)
           w == Words(bytes)
<1>1. Ok(mem, starts, held, freed)
  BY InvForm
<1>2. w \in Nat /\ need \in Int /\ need >= 3 /\ need >= 2 + w
  BY GrantNeed, SMT
<1>3. PICK a \in starts :
        /\ ~IsUsed(mem[a]) /\ SizeOf(mem[a]) >= need
        /\ mem' = Fill(Place(mem, a, need), a + 1, w, val)
        /\ starts' = PlaceStarts(mem, starts, a, need)
        /\ held' = [held EXCEPT ![c] = [ptr |-> a + 1, bytes |-> bytes,
                                        kept |-> w, val |-> val]]
        /\ freed' = freed \ ((a + 1)..(a + Given(mem, a, need)))
  BY DEF Grant, FirstFit, Fits
<1> HIDE DEF need, w
<1>4. a \in Addr /\ a \in Nat
  BY <1>1, BlockBounds DEF Ok
<1>5. Place(mem, a, need) \in [Addr -> Int]
  <2> DEFINE k == Place(mem, a, need)
             T == PlaceStarts(mem, starts, a, need)
             g == Given(mem, a, need)
  <2>1. Sound(mem, starts)
    BY <1>1 DEF Ok
  <2> HIDE DEF k, T, g
  <2>2. PlaceGives(mem, starts, a, need, k, T, g)
    BY <1>2, <1>3, <2>1, PlaceKept DEF k, T, g
  <2>3. k \in [Addr -> Int]
    BY <2>2 DEF PlaceGives, Sound
  <2> QED
    BY <2>3 DEF k
<1>6. /\ mem' \in [Addr -> Int]
      /\ \A x \in Addr : x <= a \/ x >= a + need - 1
                          => mem'[x] = Place(mem, a, need)[x]
  <2>1. PICK k \in [Addr -> Int] : k = Place(mem, a, need)
    BY <1>5
  <2>2. mem' = [x \in Addr |-> IF x \in (a + 1)..(a + 1 + w - 1)
                               THEN val ELSE k[x]]
    BY <1>3, <2>1 DEF Fill
  <2>3. \A x \in Addr : x <= a \/ x >= a + need - 1
                        => x \notin (a + 1)..(a + 1 + w - 1)
    BY <1>2, <1>4, HeapAssumption, SMT DEF Addr
  <2> QED
    BY <2>1, <2>2, <2>3
<1>7. IsPlaced(mem, starts, freed, a, need, mem', starts', freed')
  BY <1>1, <1>2, <1>3, <1>6 DEF IsPlaced, Ok
<1> QED
  BY <1>3, <1>7 DEF need, w

(* malloc and calloc.                                                      *)
LEMMA GrantKeeps ==
  ASSUME HeapInv, NEW c \in Client, NEW bytes \in Int, NEW val \in Int,
         Grant(c, bytes, val)
  PROVE  HeapInv'
<1> DEFINE need == Need(bytes)
           w == Words(bytes)
<1>1. /\ Ok(mem, starts, held, freed) /\ seams \subseteq Addr
      /\ Joined(mem, starts, seams)
  BY InvForm
<1>2. w \in Nat /\ need \in Int /\ need >= 3
  BY GrantNeed, SMT
<1>3. PICK a \in starts :
        /\ ~IsUsed(mem[a])
        /\ IsPlaced(mem, starts, freed, a, need, mem', starts', freed')
        /\ held' = [held EXCEPT ![c] = [ptr |-> a + 1, bytes |-> bytes,
                                        kept |-> w, val |-> val]]
  BY GrantPlaces, SMT
<1>4. held[c] = Nothing /\ bytes > 0 /\ seams' = seams
  BY DEF Grant
<1> HIDE DEF need, w
<1>5. a \in Addr /\ a \in Nat
  BY <1>1, BlockBounds DEF Ok
<1>6. /\ Sound(mem', starts') /\ Refused(mem', starts', freed')
      /\ a \in starts' /\ IsUsed(mem'[a])
      /\ SizeOf(mem'[a]) \in Int /\ SizeOf(mem'[a]) >= need
      /\ \A x \in starts : x # a => x \in starts' /\ mem'[x] = mem[x]
      /\ \A x \in starts' : IsUsed(mem'[x]) => x \in starts
  <2>1. PlacedGives(mem, starts, a, need, mem', starts', freed')
    BY <1>3, PlacedKept
  <2> QED
    BY <2>1 DEF PlacedGives
<1> DEFINE r == [ptr |-> a + 1, bytes |-> bytes, kept |-> w, val |-> val]
<1>7. r \in Held /\ r # Nothing /\ r.ptr = a + 1 /\ r.ptr - 1 = a
      /\ r.bytes = bytes
  <2>1. a + 1 \in 0..HEAP_WORDS /\ a + 1 # 0 /\ (a + 1) - 1 = a
    BY <1>5, HeapAssumption, SMT DEF Addr
  <2>2. r \in Held
    BY <1>2, <1>4, <2>1, SMT DEF Held
  <2> QED
    BY <2>1, <2>2 DEF Nothing
<1>8. held' = [held EXCEPT ![c] = r]
  BY <1>3
<1> HIDE DEF r
<1>9. Handed(mem, starts, held, mem', starts', c, r)
  <2>1. HeldOf(mem, starts, held) /\ held \in [Client -> Held]
    BY <1>1 DEF Ok
  <2>2. SizeOf(mem'[a]) >= Need(bytes)
    BY <1>6 DEF need
  <2> QED
    BY <1>3, <1>4, <1>6, <1>7, <2>1, <2>2 DEF Handed
<1>10. HeldOf(mem', starts', held')
  BY <1>8, <1>9, HandedKept
<1>11. held' \in [Client -> Held] /\ freed' \subseteq 1..HEAP_WORDS
  <2>1. freed' \subseteq freed
    BY <1>3 DEF IsPlaced
  <2> QED
    BY <1>1, <1>7, <1>8, <2>1 DEF Ok
<1>12. Joined(mem', starts', seams')
  BY <1>1, <1>3, <1>4, JoinedPlaced
<1> QED
  BY <1>1, <1>4, <1>6, <1>10, <1>11, <1>12, InvFormNext DEF Ok

(* free.                                                                   *)
LEMMA FreeKeeps ==
  ASSUME HeapInv, NEW c \in Client, Free(c)
  PROVE  HeapInv'
<1>1. /\ Ok(mem, starts, held, freed) /\ seams \subseteq Addr
      /\ Joined(mem, starts, seams)
  BY InvForm
<1>2. PICK a : a = held[c].ptr - 1
  OBVIOUS
<1>3. /\ held[c] # Nothing
      /\ mem' = FreeBlock(mem, a) /\ starts' = FreeStarts(mem, starts, a)
      /\ freed' = freed \cup {a + 1} /\ seams' = seams \cap starts'
      /\ held' = [held EXCEPT ![c] = Nothing]
  BY <1>2 DEF Free
<1>4. a \in starts /\ IsUsed(mem[a]) /\ a \in Addr /\ a \in Nat
  BY <1>1, <1>2, <1>3, HeldBlock
<1>5. IsFreed(mem, starts, freed, a, mem', starts', freed')
  BY <1>1, <1>3, <1>4 DEF IsFreed, Ok
<1>6. /\ Sound(mem', starts') /\ Refused(mem', starts', freed')
      /\ \A x : x \in starts' /\ IsUsed(mem'[x])
                 <=> x \in starts /\ IsUsed(mem[x]) /\ x # a
      /\ \A x \in starts : IsUsed(mem[x]) /\ x # a => mem'[x] = mem[x]
  BY <1>5, FreedKept, SMT
<1>7. Handed(mem, starts, held, mem', starts', c, Nothing)
  BY <1>1, <1>2, <1>3, <1>6 DEF Handed, Ok
<1>8. HeldOf(mem', starts', held')
  BY <1>3, <1>7, HandedKept
<1>9. Nothing \in Held
  BY HeapAssumption, SMT DEF Nothing, Held
<1>10. held' \in [Client -> Held] /\ freed' \subseteq 1..HEAP_WORDS
  <2>1. a + 1 \in 1..HEAP_WORDS
    BY <1>4, HeapAssumption, SMT DEF Addr
  <2> QED
    BY <1>1, <1>3, <1>9, <2>1 DEF Ok
<1>11. Joined(mem', starts', seams')
  <2>1. Joined(mem', starts', seams)
    BY <1>1, <1>3, <1>4, JoinedFree DEF Ok
  <2> QED
    BY <1>3, <2>1 DEF Joined
<1> QED
  BY <1>1, <1>3, <1>6, <1>8, <1>10, <1>11, InvFormNext DEF Ok

(* What is held after a realloc by c, which then has bytes bytes at p.     *)
ResizedTo(h, c, p, bytes, w) ==
  [h EXCEPT ![c].ptr = p, ![c].bytes = bytes, ![c].kept = Smaller(@, w)]

(* What a client holds after realloc.                                      *)
Resized(h, c, p, bytes, w, k, r) ==
  /\ h \in [Client -> Held] /\ c \in Client
  /\ bytes \in Nat /\ w \in Nat /\ p \in 1..HEAP_WORDS
  /\ k = ResizedTo(h, c, p, bytes, w)
  /\ r = [ptr |-> p, bytes |-> bytes, kept |-> Smaller(h[c].kept, w),
          val |-> h[c].val]

LEMMA ResizedHeld ==
  ASSUME NEW h, NEW c, NEW p, NEW bytes, NEW w, NEW k, NEW r,
         Resized(h, c, p, bytes, w, k, r)
  PROVE  /\ k = [h EXCEPT ![c] = r] /\ k \in [Client -> Held]
         /\ r # Nothing /\ r.ptr = p /\ r.bytes = bytes
<1>1. /\ h \in [Client -> Held] /\ h[c] \in Held /\ c \in Client
      /\ bytes \in Nat /\ w \in Nat /\ p \in 1..HEAP_WORDS
      /\ r = [ptr |-> p, bytes |-> bytes, kept |-> Smaller(h[c].kept, w),
              val |-> h[c].val]
      /\ k = [h EXCEPT ![c].ptr = p, ![c].bytes = bytes,
                       ![c].kept = Smaller(@, w)]
  BY DEF Resized, ResizedTo
<1>2. h[c].kept \in Nat /\ h[c].val \in Int
  BY <1>1 DEF Held
<1>3. Smaller(h[c].kept, w) \in Nat
  BY <1>1, <1>2 DEF Smaller
<1>4. r \in Held
  BY <1>1, <1>2, <1>3, HeapAssumption, SMT DEF Held
<1>5. k = [h EXCEPT ![c] = r]
  <2>1. PICK f \in Held : f = h[c]
    BY <1>1
  <2>2. [f EXCEPT !.ptr = p, !.bytes = bytes, !.kept = Smaller(@, w)] = r
    <3>1. PICK t \in Nat : t = Smaller(f.kept, w)
      BY <1>3, <2>1
    <3>2. r = [ptr |-> p, bytes |-> bytes, kept |-> t, val |-> f.val]
      BY <1>1, <2>1, <3>1
    <3>3. PICK e : e = [f EXCEPT !.ptr = p, !.bytes = bytes, !.kept = t]
      OBVIOUS
    <3>4. p \in 0..HEAP_WORDS
      BY <1>1, HeapAssumption, SMT
    <3>5. /\ e \in Held /\ e.ptr = p /\ e.bytes = bytes /\ e.kept = t
          /\ e.val = f.val
      BY <1>1, <3>3, <3>4 DEF Held
    <3>6. e = [ptr |-> e.ptr, bytes |-> e.bytes, kept |-> e.kept,
               val |-> e.val]
      BY <3>5 DEF Held
    <3> QED
      BY <3>1, <3>2, <3>3, <3>5, <3>6
  <2>3. k = [h EXCEPT ![c] = [f EXCEPT !.ptr = p, !.bytes = bytes,
                                          !.kept = Smaller(@, w)]]
    BY <1>1, <2>1
  <2> QED
    BY <2>2, <2>3
<1>6. r.ptr = p /\ r.bytes = bytes
  BY <1>1
<1>7. r # Nothing
  BY <1>1, HeapAssumption, SMT DEF Nothing
<1>8. h \in [Client -> Held] /\ c \in Client
  BY <1>1
<1>9. k \in [Client -> Held]
  BY <1>4, <1>5, <1>8
<1> QED
  BY <1>5, <1>6, <1>7, <1>9

LEMMA SamePointer ==
  ASSUME NEW h \in [Client -> Held], NEW c \in Client, NEW b, NEW w,
         NEW p, p = h[c].ptr,
         NEW k, k = [h EXCEPT ![c].bytes = b, ![c].kept = Smaller(@, w)]
  PROVE  k = ResizedTo(h, c, p, b, w)
<1>1. PICK f \in Held : f = h[c]
  OBVIOUS
<1>2. [f EXCEPT !.ptr = p] = f
  BY <1>1 DEF Held
<1>3. k = [h EXCEPT ![c] = [f EXCEPT !.bytes = b, !.kept = Smaller(@, w)]]
  BY <1>1
<1>4. [h EXCEPT ![c].ptr = p, ![c].bytes = b, ![c].kept = Smaller(@, w)]
      = [h EXCEPT ![c] = [[f EXCEPT !.ptr = p]
                            EXCEPT !.bytes = b, !.kept = Smaller(@, w)]]
  BY <1>1
<1> QED
  BY <1>2, <1>3, <1>4 DEF ResizedTo

(* realloc that keeps the block where it is.                               *)
LEMMA ReallocInPlaceKeeps ==
  ASSUME HeapInv, NEW c \in Client, NEW bytes \in ReallocSizes,
         held[c] # Nothing, ReallocInPlace(c, bytes)
  PROVE  HeapInv'
<1> DEFINE need == Need(bytes)
           w == Room(bytes)
<1>1. /\ Ok(mem, starts, held, freed) /\ seams \subseteq Addr
      /\ Joined(mem, starts, seams)
  BY InvForm
<1>2. PICK a : a = held[c].ptr - 1
  OBVIOUS
<1>3. /\ a \in starts /\ IsUsed(mem[a]) /\ a \in Addr /\ a \in Nat
      /\ held[c].ptr = a + 1 /\ held[c] \in Held
  BY <1>1, <1>2, HeldBlock
<1>4. bytes \in Nat
  BY HeapAssumption, SMT
<1>5. w \in Nat /\ need \in Int /\ need >= 3
  BY <1>4, RoomOf
<1>6. /\ need <= SizeOf(mem[a])
      /\ IF Splits(SizeOf(mem[a]), need)
         THEN /\ mem' = SetBlock(SetBlock(mem, a, need, 1),
                                 a + need, SizeOf(mem[a]) - need, 0)
              /\ starts' = starts \cup {a + need}
              /\ seams' = seams \cup ({a + SizeOf(mem[a])} \cap starts)
         ELSE mem' = mem /\ starts' = starts /\ seams' = seams
      /\ held' = [held EXCEPT ![c].bytes = bytes, ![c].kept = Smaller(@, w)]
      /\ freed' = freed
  BY <1>2 DEF ReallocInPlace
<1> HIDE DEF need, w
<1>7. SizeOf(mem[a]) \in Int /\ starts \subseteq Addr
  BY <1>1, <1>3, BlockBounds DEF Ok, Sound
<1>8. /\ Sound(mem', starts') /\ Refused(mem', starts', freed)
      /\ a \in starts' /\ IsUsed(mem'[a])
      /\ SizeOf(mem'[a]) \in Int /\ SizeOf(mem'[a]) >= need
      /\ \A x \in starts : x # a => x \in starts' /\ mem'[x] = mem[x]
      /\ \A x \in starts' : IsUsed(mem'[x]) => x \in starts
      /\ seams' \subseteq Addr
  <2>1. CASE ~Splits(SizeOf(mem[a]), need)
    BY <1>1, <1>3, <1>6, <1>7, <2>1 DEF Ok
  <2>2. CASE Splits(SizeOf(mem[a]), need)
    <3>1. IsSplit(mem, starts, a, need, mem', starts')
      BY <1>1, <1>3, <1>5, <1>6, <2>2 DEF IsSplit, Splits, MIN_BLOCK, Ok
    <3>2. /\ Sound(mem', starts') /\ SizeOf(mem'[a]) = need
          /\ IsUsed(mem'[a]) /\ ~IsUsed(mem'[a + need])
          /\ \A x \in Addr : x < a \/ x >= a + SizeOf(mem[a])
                              => mem'[x] = mem[x]
      BY <3>1, SplitKept, SMT
    <3>3. \A x \in starts : x # a => mem'[x] = mem[x]
      <4> SUFFICES ASSUME NEW x \in starts, x # a
                   PROVE  x \in Addr /\ (x < a \/ x >= a + SizeOf(mem[a]))
        BY <3>2
      <4>1. x + SizeOf(mem[x]) <= a \/ a + SizeOf(mem[a]) <= x
        BY <1>1, <1>3, BlocksApart DEF Ok
      <4>2. x \in Addr /\ x \in Nat /\ SizeOf(mem[x]) \in Int
            /\ SizeOf(mem[x]) >= 3
        BY <1>1, BlockBounds DEF Ok
      <4> QED
        BY <1>3, <1>7, <4>1, <4>2, SMT
    <3>4. Refused(mem', starts', freed)
      <4> SUFFICES ASSUME NEW p \in freed
                   PROVE  /\ p - 1 \in Addr
                          /\ ~IsUsed(mem'[p - 1])
                          /\ \A x \in starts' : IsUsed(mem'[x]) =>
                               p - 1 < x \/ p - 1 >= x + SizeOf(mem'[x])
        BY DEF Refused
      <4>1. PICK y : y = p - 1
        OBVIOUS
      <4>2. /\ y \in Addr /\ ~IsUsed(mem[y])
            /\ \A x \in starts : IsUsed(mem[x]) =>
                 y < x \/ y >= x + SizeOf(mem[x])
        BY <1>1, <4>1 DEF Ok, Refused
      <4>3. y < a \/ y >= a + SizeOf(mem[a])
        BY <1>3, <4>2
      <4>4. mem'[y] = mem[y]
        BY <3>2, <4>2, <4>3
      <4>5. y < a \/ y >= a + need
        <5>1. y \in Int
          BY <4>2, HeapAssumption, SMT DEF Addr
        <5> QED
          BY <1>3, <1>5, <1>6, <1>7, <4>3, <5>1, SMT
      <4>6. \A x \in starts' : IsUsed(mem'[x]) =>
              y < x \/ y >= x + SizeOf(mem'[x])
        BY <1>6, <2>2, <3>2, <3>3, <4>2, <4>5
      <4> QED
        BY <4>1, <4>2, <4>4, <4>6
    <3> QED
      BY <1>1, <1>3, <1>5, <1>6, <1>7, <2>2, <3>2, <3>3, <3>4, SMT
  <2> QED
    BY <2>1, <2>2
<1>9. held' = ResizedTo(held, c, a + 1, bytes, w)
  <2>1. held \in [Client -> Held] /\ a + 1 = held[c].ptr
    BY <1>1, <1>3 DEF Ok
  <2>2. held' = [held EXCEPT ![c].bytes = bytes, ![c].kept = Smaller(@, w)]
    BY <1>6
  <2>3. PICK f \in Held : f = held[c]
    BY <1>3
  <2>4. [f EXCEPT !.ptr = a + 1] = f
    BY <1>3, <2>3 DEF Held
  <2>5. held' = [held EXCEPT ![c] =
                   [f EXCEPT !.bytes = bytes, !.kept = Smaller(@, w)]]
    BY <2>2, <2>3
  <2>6. [held EXCEPT ![c].ptr = a + 1, ![c].bytes = bytes,
                     ![c].kept = Smaller(@, w)]
        = [held EXCEPT ![c] = [[f EXCEPT !.ptr = a + 1]
                                 EXCEPT !.bytes = bytes, !.kept = Smaller(@, w)]]
    BY <2>3
  <2> QED
    BY <2>4, <2>5, <2>6 DEF ResizedTo
<1>10. a + 1 \in 1..HEAP_WORDS /\ (a + 1) - 1 = a
  BY <1>3, HeapAssumption, SMT DEF Addr
<1>11. PICK r : r = [ptr |-> a + 1, bytes |-> bytes,
                    kept |-> Smaller(held[c].kept, w), val |-> held[c].val]
  OBVIOUS
<1>12. /\ held' = [held EXCEPT ![c] = r] /\ held' \in [Client -> Held]
       /\ r # Nothing /\ r.ptr = a + 1 /\ r.bytes = bytes
  <2>1. Resized(held, c, a + 1, bytes, w, held', r)
    BY <1>1, <1>4, <1>5, <1>11, <1>10, <1>9 DEF Resized, Ok
  <2> QED
    BY <2>1, ResizedHeld, SMT
<1>13. Handed(mem, starts, held, mem', starts', c, r)
  <2>1. HeldOf(mem, starts, held) /\ held \in [Client -> Held]
    BY <1>1 DEF Ok
  <2>2. SizeOf(mem'[a]) >= Need(bytes)
    BY <1>8 DEF need
  <2>3. \A x \in starts' : IsUsed(mem'[x]) =>
          x = a \/ (x \in starts /\ IsUsed(mem[x]))
    BY <1>8
  <2> QED
    BY <1>2, <1>3, <1>8, <1>10, <1>12, <2>1, <2>2, <2>3 DEF Handed
<1>14. HeldOf(mem', starts', held')
  BY <1>12, <1>13, HandedKept
<1>15. Joined(mem', starts', seams')
  <2>1. CASE ~Splits(SizeOf(mem[a]), need)
    BY <1>1, <1>6, <2>1
  <2>2. CASE Splits(SizeOf(mem[a]), need)
    <3>1. IsSplit(mem, starts, a, need, mem', starts')
      BY <1>1, <1>3, <1>5, <1>6, <2>2 DEF IsSplit, Splits, MIN_BLOCK, Ok
    <3>2. Joined(mem', starts', seams \cup {a + SizeOf(mem[a])})
      BY <1>1, <3>1, JoinedSplit, SMT
    <3>3. a + SizeOf(mem[a]) \in starts' => a + SizeOf(mem[a]) \in starts
      BY <1>3, <1>5, <1>6, <1>7, <2>2, SMT DEF Splits, MIN_BLOCK
    <3>4. seams' = seams \cup ({a + SizeOf(mem[a])} \cap starts)
      BY <1>6, <2>2
    <3> QED
      BY <3>2, <3>3, <3>4 DEF Joined
  <2> QED
    BY <2>1, <2>2
<1> QED
  BY <1>1, <1>6, <1>8, <1>12, <1>14, <1>15, InvFormNext DEF Ok

(* The copied words lie in the old block and land in the new one.          *)
Copied(k, o, a, l, w, need, n) ==
  /\ k \in [Addr -> Int] /\ o \in Nat /\ a \in Nat
  /\ l \in Int /\ o + l < HEAP_WORDS /\ w \in Nat /\ l <= w
  /\ need \in Int /\ need >= 2 + w
  /\ n = Copy(k, o + 1, a + 1, l)

(* What the copy leaves alone.                                             *)
CopyGives(k, a, need, n) ==
  /\ n \in [Addr -> Int]
  /\ \A x \in Addr : x <= a \/ x >= a + need - 1 => n[x] = k[x]

LEMMA CopyWrites ==
  ASSUME NEW k, NEW o, NEW a, NEW l, NEW w, NEW need, NEW n,
         Copied(k, o, a, l, w, need, n)
  PROVE  CopyGives(k, a, need, n)
<1> USE DEF CopyGives
<1> USE DEF Copied
<1>1. n = [x \in Addr |-> IF x \in (a + 1)..(a + 1 + l - 1)
                          THEN k[x - (a + 1) + (o + 1)] ELSE k[x]]
  BY DEF Copy
<1>2. \A x \in Addr : x \in (a + 1)..(a + 1 + l - 1)
                      => x - (a + 1) + (o + 1) \in Addr
  BY HeapAssumption, SMT DEF Addr
<1>3. \A x \in Addr : x <= a \/ x >= a + need - 1
                      => x \notin (a + 1)..(a + 1 + l - 1)
  BY HeapAssumption, SMT DEF Addr
<1> QED
  BY <1>1, <1>2, <1>3

(* realloc that moves: a block is placed, the data copied, the old block   *)
(* freed.                                                                  *)
Moved(old, need, l, a, n, T, G) ==
  /\ ~IsUsed(mem[a])
  /\ IsPlaced(mem, starts, freed, a, need, n, T, G)
  /\ n = Copy(Place(mem, a, need), old + 1, a + 1, l)
  /\ mem' = FreeBlock(n, old) /\ starts' = FreeStarts(n, T, old)
  /\ freed' = G \cup {old + 1} /\ seams' = seams \cap starts'

(* A block is left for a larger one only by a size that has not wrapped.   *)
LEMMA MovesNeed ==
  ASSUME HeapInv, NEW c \in Client, NEW bytes \in ReallocSizes,
         held[c] # Nothing, ReallocMoves(c, bytes)
  PROVE  /\ Room(bytes) = Words(bytes) /\ Room(bytes) \in Nat
         /\ Need(bytes) \in Int /\ Need(bytes) >= 3
         /\ Need(bytes) = 2 + Room(bytes)
<1>1. PICK old : old = held[c].ptr - 1
  OBVIOUS
<1>2. Ok(mem, starts, held, freed)
  BY InvForm
<1>3. old \in starts
  BY <1>1, <1>2, HeldBlock
<1>4. SizeOf(mem[old]) \in Int /\ SizeOf(mem[old]) >= 3
  BY <1>2, <1>3, BlockBounds DEF Ok
<1>5. Need(bytes) > SizeOf(mem[old])
  BY <1>1 DEF ReallocMoves
<1>6. bytes \in Nat /\ bytes \in 0..UIntMax
  BY HeapAssumption, SMT
<1>7. /\ Need(bytes) \in Int /\ Need(bytes) >= 3 /\ Room(bytes) \in Nat
      /\ Need(bytes) = 2 + Room(bytes)
  BY <1>6, RoomOf
<1>8. Need(bytes) > 3
  BY <1>4, <1>5, <1>7, SMT
<1>9. Need(bytes) = 2 + Words(bytes) /\ Words(bytes) \in Nat
  BY <1>6, <1>8, NeedOf
<1> QED
  BY <1>7, <1>9, SMT

LEMMA MovesPlaces ==
  ASSUME HeapInv, NEW c \in Client, NEW bytes \in ReallocSizes,
         held[c] # Nothing, ReallocMoves(c, bytes),
         NEW old, old = held[c].ptr - 1, NEW w, w = Room(bytes),
         NEW need, need = Need(bytes),
         NEW l, l = Smaller(SizeOf(mem[old]) - 2, w)
  PROVE  \E a \in starts : \E n, T, G :
           /\ Moved(old, need, l, a, n, T, G)
           /\ held' = ResizedTo(held, c, a + 1, bytes, w)
<1>1. Ok(mem, starts, held, freed)
  BY InvForm
<1>2. old \in starts /\ old \in Addr /\ old \in Nat
  BY <1>1, HeldBlock
<1>3. w = Words(bytes)
  BY MovesNeed
<1>4. w \in Nat /\ need \in Int /\ need >= 3 /\ need >= 2 + w
  BY MovesNeed, SMT
<1>5. PICK a \in starts :
        /\ ~IsUsed(mem[a]) /\ SizeOf(mem[a]) >= need
        /\ LET placed == Copy(Place(mem, a, need), old + 1, a + 1, l)
           IN  /\ mem' = FreeBlock(placed, old)
               /\ starts' = FreeStarts(placed,
                              PlaceStarts(mem, starts, a, need), old)
        /\ held' = ResizedTo(held, c, a + 1, bytes, w)
        /\ freed' = (freed \ ((a + 1)..(a + Given(mem, a, need))))
                      \cup {old + 1}
        /\ seams' = seams \cap starts'
  BY <1>3 DEF ReallocMoves, FirstFit, Fits, ResizedTo
<1>6. /\ a \in Addr /\ a \in Nat /\ SizeOf(mem[old]) \in Int
      /\ SizeOf(mem[old]) >= 3 /\ old + SizeOf(mem[old]) <= HEAP_WORDS
  BY <1>1, <1>2, <1>5, BlockBounds DEF Ok
<1>7. l \in Int /\ l <= w /\ old + l < HEAP_WORDS
  BY <1>2, <1>4, <1>6, HeapAssumption, SMT DEF Smaller
<1>8. PICK k : k = Place(mem, a, need)
  OBVIOUS
<1>9. PICK T : T = PlaceStarts(mem, starts, a, need)
  OBVIOUS
<1>10. PICK G : G = freed \ ((a + 1)..(a + Given(mem, a, need)))
  OBVIOUS
<1>11. PICK n : n = Copy(k, old + 1, a + 1, l)
  OBVIOUS
<1>12. k \in [Addr -> Int]
  <2>1. Sound(mem, starts)
    BY <1>1 DEF Ok
  <2>2. PlaceGives(mem, starts, a, need, k, T, Given(mem, a, need))
    BY <1>4, <1>5, <1>8, <1>9, <2>1, PlaceKept
  <2> QED
    BY <2>2 DEF PlaceGives, Sound
<1>13. /\ n \in [Addr -> Int]
       /\ \A x \in Addr : x <= a \/ x >= a + need - 1 => n[x] = k[x]
  <2>1. Copied(k, old, a, l, w, need, n)
    BY <1>2, <1>4, <1>6, <1>7, <1>11, <1>12 DEF Copied
  <2>2. CopyGives(k, a, need, n)
    BY <2>1, CopyWrites
  <2> QED
    BY <2>2 DEF CopyGives
<1>14. IsPlaced(mem, starts, freed, a, need, n, T, G)
  BY <1>1, <1>4, <1>5, <1>8, <1>9, <1>10, <1>13 DEF IsPlaced, Ok
<1>15. Moved(old, need, l, a, n, T, G)
  BY <1>5, <1>8, <1>9, <1>10, <1>11, <1>14 DEF Moved
<1> QED
  BY <1>5, <1>15

LEMMA ReallocMovesKeeps ==
  ASSUME HeapInv, NEW c \in Client, NEW bytes \in ReallocSizes,
         held[c] # Nothing, ReallocMoves(c, bytes)
  PROVE  HeapInv'
<1>1. /\ Ok(mem, starts, held, freed) /\ seams \subseteq Addr
      /\ Joined(mem, starts, seams)
  BY InvForm
<1>2. PICK old : old = held[c].ptr - 1
  OBVIOUS
<1>3. PICK w : w = Room(bytes)
  OBVIOUS
<1>4. PICK need : need = Need(bytes)
  OBVIOUS
<1>5. PICK l : l = Smaller(SizeOf(mem[old]) - 2, w)
  OBVIOUS
<1>6. PICK a \in starts : \E n, T, G :
        /\ Moved(old, need, l, a, n, T, G)
        /\ held' = ResizedTo(held, c, a + 1, bytes, w)
  BY <1>2, <1>3, <1>4, <1>5, MovesPlaces
<1>7. PICK n, T, G : Moved(old, need, l, a, n, T, G)
  BY <1>6
<1>8. /\ ~IsUsed(mem[a])
      /\ IsPlaced(mem, starts, freed, a, need, n, T, G)
      /\ mem' = FreeBlock(n, old) /\ starts' = FreeStarts(n, T, old)
      /\ freed' = G \cup {old + 1} /\ seams' = seams \cap starts'
  BY <1>7 DEF Moved
<1>9. held' = ResizedTo(held, c, a + 1, bytes, w)
  BY <1>6
<1>10. /\ old \in starts /\ IsUsed(mem[old]) /\ old \in Addr /\ old \in Nat
       /\ held[c].ptr = old + 1
  BY <1>1, <1>2, HeldBlock
<1>11. bytes \in Nat
  BY HeapAssumption, SMT
<1>12. w \in Nat /\ need \in Int /\ need >= 3
  BY <1>3, <1>4, <1>11, RoomOf
<1>13. a \in Addr /\ a \in Nat
  BY <1>1, BlockBounds DEF Ok
<1>14. /\ Sound(n, T) /\ Refused(n, T, G)
       /\ a \in T /\ IsUsed(n[a])
       /\ SizeOf(n[a]) \in Int /\ SizeOf(n[a]) >= need
       /\ \A x \in starts : x # a => x \in T /\ n[x] = mem[x]
       /\ \A x \in T : IsUsed(n[x]) => x \in starts
  <2>1. PlacedGives(mem, starts, a, need, n, T, G)
    BY <1>8, PlacedKept
  <2> QED
    BY <2>1 DEF PlacedGives
<1>15. old # a /\ old \in T /\ IsUsed(n[old])
  BY <1>8, <1>10, <1>14
<1>16. IsFreed(n, T, G, old, mem', starts', freed')
  BY <1>8, <1>14, <1>15 DEF IsFreed
<1>17. /\ Sound(mem', starts') /\ Refused(mem', starts', freed')
       /\ \A x : x \in starts' /\ IsUsed(mem'[x])
                  <=> x \in T /\ IsUsed(n[x]) /\ x # old
       /\ \A x \in T : IsUsed(n[x]) /\ x # old => mem'[x] = n[x]
  BY <1>16, FreedKept, SMT
<1>18. PICK r : r = [ptr |-> a + 1, bytes |-> bytes,
                     kept |-> Smaller(held[c].kept, w), val |-> held[c].val]
  OBVIOUS
<1>19. a + 1 \in 1..HEAP_WORDS /\ (a + 1) - 1 = a
  BY <1>13, HeapAssumption, SMT DEF Addr
<1>20. /\ held' = [held EXCEPT ![c] = r] /\ held' \in [Client -> Held]
       /\ r # Nothing /\ r.ptr = a + 1 /\ r.bytes = bytes
  <2>1. Resized(held, c, a + 1, bytes, w, held', r)
    BY <1>1, <1>9, <1>11, <1>12, <1>18, <1>19 DEF Resized, Ok
  <2> QED
    BY <2>1, ResizedHeld, SMT
<1>21. Handed(mem, starts, held, mem', starts', c, r)
  <2>1. HeldOf(mem, starts, held) /\ held \in [Client -> Held]
    BY <1>1 DEF Ok
  <2>2. SizeOf(mem'[a]) >= Need(bytes)
    <3>1. a \in T /\ IsUsed(n[a]) /\ a # old
      BY <1>14, <1>15
    <3>2. SizeOf(mem'[a]) \in Int /\ SizeOf(mem'[a]) >= need
      BY <1>14, <1>17, <3>1
    <3> QED
      BY <1>4, <3>2
  <2>3. \A x \in starts' : IsUsed(mem'[x]) =>
          x = a \/ (x \in starts /\ IsUsed(mem[x]) /\ x # old)
    BY <1>14, <1>17
  <2>4. \A x \in starts : IsUsed(mem[x]) /\ x # old =>
          x \in starts' /\ mem'[x] = mem[x]
    BY <1>8, <1>14, <1>17
  <2>5. a \in starts' /\ IsUsed(mem'[a])
    BY <1>14, <1>15, <1>17
  <2> QED
    BY <1>2, <1>8, <1>19, <1>20, <2>1, <2>2, <2>3, <2>4, <2>5 DEF Handed
<1>22. HeldOf(mem', starts', held')
  BY <1>20, <1>21, HandedKept
<1>23. freed' \subseteq 1..HEAP_WORDS
  <2>1. old + 1 \in 1..HEAP_WORDS
    BY <1>10, HeapAssumption, SMT DEF Addr
  <2> QED
    BY <1>1, <1>8, <2>1 DEF Ok, IsPlaced
<1>24. Joined(mem', starts', seams')
  <2>1. Joined(n, T, seams)
    BY <1>1, <1>8, JoinedPlaced
  <2>2. Joined(mem', starts', seams)
    BY <1>8, <1>14, <1>15, <2>1, JoinedFree
  <2> QED
    BY <1>8, <2>2 DEF Joined
<1> QED
  BY <1>1, <1>8, <1>17, <1>20, <1>22, <1>23, <1>24, InvFormNext DEF Ok
-----------------------------------------------------------------------------
LEMMA InitHolds == Init => HeapInv
<1> SUFFICES ASSUME Init
             PROVE  HeapInv
  OBVIOUS
<1>1. PICK z \in [Addr -> Int] : z = [x \in Addr |-> 0]
  <2>1. [x \in Addr |-> 0] \in [Addr -> Int]
    BY SMT
  <2> QED
    BY <2>1
<1>2. /\ HEAP_WORDS \in Int /\ HEAP_WORDS >= 3 /\ 0 \in Addr
      /\ 0 + HEAP_WORDS <= HEAP_WORDS
  BY HeapAssumption, SMT DEF Addr, MIN_BLOCK
<1>3. mem = SetBlock(z, 0, HEAP_WORDS, 0) /\ starts = {0}
  BY <1>1 DEF Init
<1>4. /\ mem \in [Addr -> Int] /\ mem[0] = 2 * HEAP_WORDS + 0
      /\ mem[0 + HEAP_WORDS - 1] = 2 * HEAP_WORDS
  BY <1>2, <1>3, Units, SetBlockWrites, SMT
<1>5. SizeOf(mem[0]) = HEAP_WORDS /\ ~IsUsed(mem[0])
  BY <1>2, <1>4, TagBack
<1>6. Sound(mem, starts)
  BY <1>2, <1>3, <1>4, <1>5, SMT DEF Sound, TilesOf, MIN_BLOCK
<1>7. Nothing \in Held
  BY HeapAssumption, SMT DEF Nothing, Held
<1>8. held \in [Client -> Held] /\ \A c \in Client : held[c] = Nothing
  BY <1>7 DEF Init
<1>9. HeldOf(mem, starts, held)
  BY <1>3, <1>5, <1>8 DEF HeldOf
<1>10. Joined(mem, starts, seams)
  BY <1>2, <1>3, <1>5, SMT DEF Joined
<1> QED
  BY <1>6, <1>8, <1>9, <1>10, InvForm DEF Init, Ok, Refused

LEMMA NextKeeps == HeapInv /\ [Next]_vars => HeapInv'
<1> SUFFICES ASSUME HeapInv, [Next]_vars
             PROVE  HeapInv'
  OBVIOUS
<1>1. ASSUME NEW c \in Client, Malloc(c)
      PROVE  HeapInv'
  <2>1. PICK bytes \in MallocSizes : Grant(c, bytes, Tag[c])
    BY <1>1 DEF Malloc
  <2>2. bytes \in Int /\ Tag[c] \in Int
    BY HeapAssumption, SMT
  <2> QED
    BY <2>1, <2>2, GrantKeeps
<1>2. ASSUME NEW c \in Client, Calloc(c)
      PROVE  HeapInv'
  <2>1. PICK q \in CallocShapes : Grant(c, q[1] * q[2], 0)
    BY <1>2 DEF Calloc
  <2>2. q[1] \in Int /\ q[2] \in Int
    BY HeapAssumption, SMT
  <2>3. q[1] * q[2] \in Int
    BY <2>2, SMT
  <2> QED
    BY <2>1, <2>3, Units, GrantKeeps, SMT
<1>3. ASSUME NEW c \in Client, Free(c)
      PROVE  HeapInv'
  BY <1>3, FreeKeeps
<1>4. ASSUME NEW c \in Client, Realloc(c)
      PROVE  HeapInv'
  <2>1. PICK bytes \in ReallocSizes :
          ReallocInPlace(c, bytes) \/ ReallocMoves(c, bytes)
    BY <1>4 DEF Realloc
  <2>2. held[c] # Nothing
    BY <1>4 DEF Realloc
  <2> QED
    BY <2>1, <2>2, ReallocInPlaceKeeps, ReallocMovesKeeps
<1>5. ASSUME FreeAgain
      PROVE  HeapInv'
  <2>1. PICK p \in freed :
          /\ ~IsUsed(mem[p - 1]) => UNCHANGED <<mem, starts>>
          /\ UNCHANGED <<held, freed, seams>>
    BY <1>5 DEF FreeAgain
  <2>2. ~IsUsed(mem[p - 1])
    BY DEF HeapInv, Refused
  <2> QED
    BY <2>1, <2>2, InvForm, InvFormNext
<1>6. ASSUME UNCHANGED vars
      PROVE  HeapInv'
  BY <1>6, InvForm, InvFormNext DEF vars
<1> QED
  BY <1>1, <1>2, <1>3, <1>4, <1>5, <1>6 DEF Next

(* Whatever is allocated, resized and freed, and in whatever order, the    *)
(* blocks of heap.c tile the heap, the used ones are those handed out, the *)
(* free ones are merged, and the freed pointers do not look used.          *)
THEOREM HeapInvariant == Spec => []HeapInv
BY InitHolds, NextKeeps, PTL DEF Spec

(* malloc, realloc and free keep every word of the arena and every pointer *)
(* they return within it.                                                  *)
THEOREM HeapTyped == Spec => []TypeOK
<1>1. HeapInv => TypeOK
  BY DEF HeapInv
<1> QED
  BY <1>1, HeapInvariant, PTL

(* The blocks that malloc_impl splits and free_impl merges tile the heap,  *)
(* and each one's footer agrees with its header.                           *)
THEOREM BlocksTile == Spec => []Tiles
<1>1. HeapInv => Tiles
  BY DEF HeapInv
<1> QED
  BY <1>1, HeapInvariant, PTL

(* No two callers are given the same block, no block is lost by realloc,   *)
(* and a block is smaller than what was asked for only where the sums of   *)
(* realloc_impl wrap, for sizes above UIntMax - 11.                        *)
THEOREM NoSharedBlock == Spec => []UsedAreHeld
<1>1. HeapInv => UsedAreHeld
  <2> SUFFICES ASSUME HeapInv
               PROVE  UsedAreHeld
    OBVIOUS
  <2>1. ASSUME NEW c \in Client, held[c] # Nothing
        PROVE  \/ 4 * (SizeOf(mem[held[c].ptr - 1]) - 2) >= held[c].bytes
               \/ held[c].bytes > UIntMax - 11
    <3>1. PICK b \in Nat : b = held[c].bytes
      BY DEF HeapInv, TypeOK, Held
    <3>2. PICK a : a = held[c].ptr - 1
      OBVIOUS
    <3>3. SizeOf(mem[a]) >= Need(b)
      BY <2>1, <3>1, <3>2 DEF HeapInv, BlocksAreHeld
    <3>4. Ok(mem, starts, held, freed)
      BY InvForm
    <3>5. SizeOf(mem[a]) \in Int
      BY <2>1, <3>2, <3>4, HeldBlock, BlockBounds DEF Ok
    <3>6. CASE b <= UIntMax - 11
      <4>1. b \in 0..UIntMax
        BY <3>6, HeapAssumption, SMT
      <4>2. 4 * (Need(b) - 2) >= b /\ Need(b) \in Int
        BY <3>6, <4>1, NeedOf
      <4>3. 4 * (SizeOf(mem[a]) - 2) >= b
        BY <3>3, <3>5, <4>2, SMT
      <4> QED
        BY <3>1, <3>2, <4>3
    <3>7. CASE ~(b <= UIntMax - 11)
      <4>1. b > UIntMax - 11
        BY <3>7, HeapAssumption, SMT
      <4> QED
        BY <3>1, <4>1
    <3> QED
      BY <3>6, <3>7
  <2> QED
    BY <2>1 DEF HeapInv, BlocksAreHeld, UsedAreHeld
<1> QED
  BY <1>1, HeapInvariant, PTL

(* free_impl refuses a pointer that was freed and not handed out since.    *)
THEOREM SecondFreeRefused == Spec => []DoubleFreeRefused
<1>1. HeapInv => DoubleFreeRefused
  BY DEF HeapInv, Refused, DoubleFreeRefused
<1> QED
  BY <1>1, HeapInvariant, PTL

(* free merges a block with its free neighbours whatever was split and     *)
(* merged before: two free blocks lie side by side only behind a first     *)
(* block of minimal size, or behind a rest that realloc cut off.           *)
THEOREM FreeBlocksMerged == Spec => []Coalesced
<1>1. HeapInv => Coalesced
  BY DEF HeapInv
<1> QED
  BY <1>1, HeapInvariant, PTL
-----------------------------------------------------------------------------
(* The words of the used blocks other than o are as they were.             *)
Spares(m, S, o, n) ==
  \A b \in S, x \in Addr :
    b # o /\ IsUsed(m[b]) /\ b <= x /\ x < b + SizeOf(m[b]) => n[x] = m[x]

(* A change within the free block or the freed block a.                    *)
LEMMA SparesWithin ==
  ASSUME NEW m, NEW S, Sound(m, S), NEW a \in S, NEW n,
         \A x \in Addr : x < a \/ x >= a + SizeOf(m[a]) => n[x] = m[x]
  PROVE  Spares(m, S, a, n)
<1> SUFFICES ASSUME NEW b \in S, NEW x \in Addr, b # a, b <= x,
                    x < b + SizeOf(m[b])
             PROVE  x < a \/ x >= a + SizeOf(m[a])
  BY DEF Spares
<1>1. b + SizeOf(m[b]) <= a \/ a + SizeOf(m[a]) <= b
  BY BlocksApart
<1>2. /\ a \in Nat /\ SizeOf(m[a]) \in Int
      /\ b \in Nat /\ SizeOf(m[b]) \in Int
  BY BlockBounds
<1>3. x \in Int
  BY HeapAssumption, SMT DEF Addr
<1> QED
  BY <1>1, <1>2, <1>3, SMT

LEMMA SparesMerge ==
  ASSUME NEW m, NEW S, Sound(m, S), NEW a \in S, NEW b \in S,
         b = a + SizeOf(m[a]), ~IsUsed(m[a]), ~IsUsed(m[b]),
         NEW n, n = SetBlock(m, a, SizeOf(m[a]) + SizeOf(m[b]), 0), NEW o
  PROVE  Spares(m, S, o, n)
<1> DEFINE t == SizeOf(m[a]) + SizeOf(m[b])
<1>1. /\ a \in Addr /\ a \in Nat /\ SizeOf(m[a]) \in Int /\ SizeOf(m[a]) >= 3
      /\ b \in Nat /\ SizeOf(m[b]) \in Int /\ SizeOf(m[b]) >= 3
      /\ b + SizeOf(m[b]) <= HEAP_WORDS /\ HEAP_WORDS \in Nat
  BY BlockBounds, HeapAssumption
<1>2. /\ t \in Int /\ t >= 3 /\ a + t <= HEAP_WORDS
      /\ a + t - 1 = b + SizeOf(m[b]) - 1
  BY <1>1, SMT
<1>3. n = SetBlock(m, a, t, 0) /\ m \in [Addr -> Int]
  BY DEF Sound
<1> HIDE DEF t
<1>4. \A x \in Addr : x # a /\ x # a + t - 1 => n[x] = m[x]
  BY <1>1, <1>2, <1>3, Units, SetBlockWrites, SMT
<1> SUFFICES ASSUME NEW c \in S, NEW x \in Addr, IsUsed(m[c]), c <= x,
                    x < c + SizeOf(m[c])
             PROVE  x # a /\ x # a + t - 1
  BY <1>4 DEF Spares
<1>5. c # a /\ c # b
  OBVIOUS
<1>6. /\ c + SizeOf(m[c]) <= a \/ a + SizeOf(m[a]) <= c
      /\ c + SizeOf(m[c]) <= b \/ b + SizeOf(m[b]) <= c
  BY <1>5, BlocksApart
<1>7. c \in Nat /\ SizeOf(m[c]) \in Int
  BY BlockBounds
<1>8. x \in Int
  BY HeapAssumption, SMT DEF Addr
<1> QED
  BY <1>1, <1>2, <1>6, <1>7, <1>8, SMT

LEMMA SparesNext ==
  ASSUME NEW m, NEW S, Sound(m, S), NEW a \in S, ~IsUsed(m[a]),
         NEW n, n = MergeNext(m, a), NEW o
  PROVE  Spares(m, S, o, n)
<1>1. PICK b : b = a + SizeOf(m[a])
  OBVIOUS
<1>2. CASE NextIsFree(m, a)
  <2>1. b < HEAP_WORDS /\ HEAP_WORDS \in Nat
    BY <1>1, <1>2, HeapAssumption DEF NextIsFree
  <2>2. b \in S \cup {HEAP_WORDS}
    BY <1>1 DEF Sound, TilesOf
  <2>3. b \in S
    BY <2>1, <2>2, SMT
  <2>4. ~IsUsed(m[b]) /\ n = SetBlock(m, a, SizeOf(m[a]) + SizeOf(m[b]), 0)
    BY <1>1, <1>2 DEF NextIsFree, MergeNext
  <2> QED
    BY <1>1, <2>3, <2>4, SparesMerge
<1>3. CASE ~NextIsFree(m, a)
  BY <1>3 DEF MergeNext, Spares
<1> QED
  BY <1>2, <1>3

LEMMA SparesPrev ==
  ASSUME NEW m, NEW S, Sound(m, S), NEW a \in S, ~IsUsed(m[a]),
         NEW n, n = MergePrev(m, a), NEW o
  PROVE  Spares(m, S, o, n)
<1>1. CASE PrevIsFree(m, a)
  <2>1. a # 0 /\ SizeOf(m[a]) \in Int
    BY <1>1, BlockBounds, SMT DEF PrevIsFree, MIN_BLOCK
  <2>2. PICK p \in S : /\ p = PrevOf(m, a) /\ p + SizeOf(m[p]) = a
                       /\ SizeOf(m[p]) = SizeOf(m[a - 1])
    BY <2>1, BlockInFront
  <2>3. SizeOf(m[p]) + SizeOf(m[a]) = SizeOf(m[a]) + SizeOf(m[a - 1])
    BY <2>1, <2>2, BlockBounds, SMT
  <2>4. ~IsUsed(m[p]) /\ n = SetBlock(m, p, SizeOf(m[p]) + SizeOf(m[a]), 0)
    BY <1>1, <2>2, <2>3 DEF PrevIsFree, MergePrev
  <2> QED
    BY <2>2, <2>4, SparesMerge
<1>2. CASE ~PrevIsFree(m, a)
  BY <1>2 DEF MergePrev, Spares
<1> QED
  BY <1>1, <1>2

(* free writes no word of another used block.                              *)
LEMMA SparesFree ==
  ASSUME NEW m, NEW S, Sound(m, S), NEW a \in S, NEW n, n = FreeBlock(m, a)
  PROVE  Spares(m, S, a, n)
<1>1. PICK k : k = Clear(m, a)
  OBVIOUS
<1>2. PICK h : h = MergeNext(k, a)
  OBVIOUS
<1>3. PICK U : U = S \ IF NextIsFree(k, a) THEN {a + SizeOf(k[a])} ELSE {}
  OBVIOUS
<1>4. /\ Sound(k, S) /\ ~IsUsed(k[a])
      /\ \A x \in Addr : x # a => k[x] = m[x]
      /\ Merged(k, S, h, U) /\ a \in U /\ ~IsUsed(h[a])
      /\ n = MergePrev(h, a)
  <2>1. FreeSteps(m, S, a, k, h, U)
    BY <1>1, <1>2, <1>3, FreeIs
  <2> QED
    BY <2>1 DEF FreeSteps
<1>5. /\ Spares(k, S, a, h) /\ Sound(h, U)
      /\ \A c \in S : IsUsed(k[c]) => c \in U /\ h[c] = k[c]
  BY <1>2, <1>4, SparesNext DEF Merged
<1>6. Spares(h, U, a, n)
  BY <1>4, <1>5, SparesPrev
<1> SUFFICES ASSUME NEW b \in S, NEW x \in Addr, b # a, IsUsed(m[b]),
                    b <= x, x < b + SizeOf(m[b])
             PROVE  n[x] = m[x]
  BY DEF Spares
<1>7. b \in Addr /\ k[b] = m[b]
  BY <1>4 DEF Sound
<1>8. x # a
  <2>1. b + SizeOf(m[b]) <= a \/ a + SizeOf(m[a]) <= b
    BY BlocksApart
  <2>2. /\ a \in Nat /\ SizeOf(m[a]) \in Int /\ SizeOf(m[a]) >= 3
        /\ b \in Nat /\ SizeOf(m[b]) \in Int
    BY BlockBounds
  <2> QED
    BY <2>1, <2>2, SMT
<1>9. k[x] = m[x]
  BY <1>4, <1>8
<1>10. h[x] = k[x]
  BY <1>5, <1>7 DEF Spares
<1>11. b \in U /\ h[b] = m[b]
  BY <1>5, <1>7
<1>12. n[x] = h[x]
  BY <1>6, <1>11 DEF Spares
<1> QED
  BY <1>9, <1>10, <1>12

(* Only words of the block at a are written.                               *)
WithinBlock(m, a, need, n) ==
  \A x \in Addr : x < a \/ x >= a + SizeOf(m[a]) =>
    n[x] = m[x] /\ Place(m, a, need)[x] = m[x]

(* malloc and realloc write only within the block they place.              *)
LEMMA PlaceWithin ==
  ASSUME NEW m, NEW S, NEW F, NEW a, NEW need, NEW n, NEW T, NEW G,
         IsPlaced(m, S, F, a, need, n, T, G)
  PROVE  WithinBlock(m, a, need, n)
<1> USE DEF WithinBlock
<1>1. PICK k : k = Place(m, a, need)
  OBVIOUS
<1>2. /\ Sound(m, S) /\ a \in S /\ need \in Int /\ need >= 3
      /\ SizeOf(m[a]) >= need
  BY DEF IsPlaced
<1>3. a \in Nat /\ SizeOf(m[a]) \in Int /\ SizeOf(m[a]) >= 3
  BY <1>2, BlockBounds
<1> SUFFICES ASSUME NEW x \in Addr, x < a \/ x >= a + SizeOf(m[a])
             PROVE  n[x] = k[x] /\ k[x] = m[x]
  BY <1>1
<1>4. x \in Int
  BY HeapAssumption, SMT DEF Addr
<1>5. n[x] = k[x]
  <2>1. x <= a \/ x >= a + need - 1
    BY <1>2, <1>3, <1>4, SMT
  <2> QED
    BY <1>1, <2>1 DEF IsPlaced
<1>6. CASE Splits(SizeOf(m[a]), need)
  <2>1. IsSplit(m, S, a, need, k, S \cup {a + need})
    BY <1>1, <1>2, <1>6 DEF Splits, MIN_BLOCK, Place, IsSplit
  <2>2. \A y \in Addr : y < a \/ y >= a + SizeOf(m[a]) => k[y] = m[y]
    BY <2>1, SplitKept, SMT
  <2> QED
    BY <1>5, <2>2
<1>7. CASE ~Splits(SizeOf(m[a]), need)
  <2>1. k = SetBlock(m, a, SizeOf(m[a]), 1)
    BY <1>1, <1>7 DEF Place
  <2>2. \A y \in Addr : y # a => k[y] = m[y]
    BY <1>2, <2>1, 1 \in {0, 1}, FlagKept, SMT
  <2>3. x # a
    BY <1>3, <1>4, SMT
  <2> QED
    BY <1>5, <2>2, <2>3
<1> QED
  BY <1>6, <1>7
-----------------------------------------------------------------------------
(* A caller relies on no more words than the block is sure to have.        *)
Asked(h) ==
  \A c \in Client :
    h[c] # Nothing => h[c].bytes > 0 /\ h[c].kept <= Room(h[c].bytes)

(* The block at a holds the w words of its caller's region.                *)
HeldFits(m, S, h, c, a, w) ==
  /\ a \in S /\ a \in Nat /\ h[c].ptr = a + 1 /\ IsUsed(m[a])
  /\ SizeOf(m[a]) \in Int /\ a + SizeOf(m[a]) <= HEAP_WORDS
  /\ w \in Nat /\ 1 <= w /\ w <= SizeOf(m[a]) - 2
  /\ h[c].kept \in Nat /\ h[c].kept <= w

(* A region lies within its block, between the tags.                       *)
LEMMA HeldWords ==
  ASSUME NEW m, NEW S, NEW h, NEW F, Ok(m, S, h, F), Asked(h),
         NEW c \in Client, h[c] # Nothing,
         NEW a, a = h[c].ptr - 1, NEW w, w = Room(h[c].bytes)
  PROVE  HeldFits(m, S, h, c, a, w)
<1> USE DEF HeldFits
<1>1. a \in S /\ IsUsed(m[a]) /\ SizeOf(m[a]) >= Need(h[c].bytes)
  BY DEF Ok, HeldOf
<1>2. /\ a \in Nat /\ SizeOf(m[a]) \in Int /\ SizeOf(m[a]) >= 3
      /\ a + SizeOf(m[a]) <= HEAP_WORDS
  BY <1>1, BlockBounds DEF Ok
<1>3. h[c].ptr \in Int /\ h[c].bytes \in Nat /\ h[c].kept \in Nat
  BY HeapAssumption, SMT DEF Ok, Held
<1>4. h[c].kept <= w
  BY DEF Asked
<1>5. /\ Need(h[c].bytes) \in Int /\ w \in Nat /\ w >= 1
      /\ Need(h[c].bytes) = 2 + w
  BY <1>3, RoomOf
<1>6. 1 <= w /\ w <= SizeOf(m[a]) - 2 /\ h[c].ptr = a + 1
  BY <1>1, <1>2, <1>3, <1>5, SMT
<1> QED
  BY <1>1, <1>2, <1>3, <1>4, <1>5, <1>6

(* What the other callers hold and have stored.                            *)
LEMMA OthersKept ==
  ASSUME HeapInv, Asked(held), NEW c \in Client, NEW o,
         held[c] # Nothing => o = held[c].ptr - 1,
         held[c] = Nothing => ~IsUsed(mem[o]),
         Spares(mem, starts, o, mem'),
         \A d \in Client : d # c => held'[d] = held[d]
  PROVE  Store!OthersKeep(c)
<1>1. Ok(mem, starts, held, freed)
  BY InvForm
<1>2. ASSUME NEW d \in Client, d # c
      PROVE  Data(mem', held[d]) = Data(mem, held[d])
  <2>1. CASE held[d] = Nothing
    <3>1. held[d].kept = 0
      BY <2>1, SMT DEF Nothing
    <3>2. 1..held[d].kept = {}
      BY <3>1, SMT
    <3> QED
      BY <3>2 DEF Data
  <2>2. CASE held[d] # Nothing
    <3>1. PICK b : b = held[d].ptr - 1
      OBVIOUS
    <3>2. PICK w : w = Room(held[d].bytes)
      OBVIOUS
    <3>3. /\ b \in starts /\ b \in Nat /\ held[d].ptr = b + 1
          /\ IsUsed(mem[b]) /\ SizeOf(mem[b]) \in Int
          /\ b + SizeOf(mem[b]) <= HEAP_WORDS
          /\ w \in Nat /\ w <= SizeOf(mem[b]) - 2
          /\ held[d].kept \in Nat /\ held[d].kept <= w
      <4>1. HeldFits(mem, starts, held, d, b, w)
        BY <1>1, <2>2, <3>1, <3>2, HeldWords
      <4> QED
        BY <4>1 DEF HeldFits
    <3>4. b # o
      <4>1. CASE held[c] = Nothing
        BY <3>3, <4>1
      <4>2. CASE held[c] # Nothing
        <5>1. held[c].ptr # held[d].ptr
          BY <1>1, <1>2, <2>2, <4>2 DEF Ok, HeldOf
        <5>2. held[c].ptr \in Int
          BY <1>1, HeapAssumption, SMT DEF Ok, Held
        <5> QED
          BY <3>3, <4>2, <5>1, <5>2, SMT
      <4> QED
        BY <4>1, <4>2
    <3>5. \A i \in 1..held[d].kept :
            mem'[held[d].ptr + i - 1] = mem[held[d].ptr + i - 1]
      <4> SUFFICES ASSUME NEW i \in 1..held[d].kept
                   PROVE  mem'[held[d].ptr + i - 1] = mem[held[d].ptr + i - 1]
        OBVIOUS
      <4>1. PICK x : x = b + i
        OBVIOUS
      <4>2. /\ x = held[d].ptr + i - 1 /\ x \in Int /\ b <= x /\ 0 <= x
            /\ x < b + SizeOf(mem[b])
        BY <3>3, <4>1, SMT
      <4>3. x \in Addr
        BY <3>3, <4>2, HeapAssumption, SMT DEF Addr
      <4>4. mem'[x] = mem[x]
        BY <3>3, <3>4, <4>2, <4>3 DEF Spares
      <4> QED
        BY <4>2, <4>4
    <3> QED
      BY <3>5 DEF Data
  <2> QED
    BY <2>1, <2>2
<1> QED
  BY <1>2 DEF Store!OthersKeep

(* A region handed out lies in the heap, apart from every other one.       *)
LEMMA GivenApart ==
  ASSUME HeapInv', Asked(held'), NEW c \in Client, held'[c] # Nothing,
         \A d \in Client : d # c => held'[d] = held[d]
  PROVE  Store!Given(c)
<1>1. Ok(mem', starts', held', freed') /\ Sound(mem', starts')
  BY InvFormNext DEF Ok
<1>2. PICK a : a = held'[c].ptr - 1
  OBVIOUS
<1>3. PICK w : w = Room(held'[c].bytes)
  OBVIOUS
<1>4. /\ a \in starts' /\ a \in Nat /\ held'[c].ptr = a + 1
      /\ SizeOf(mem'[a]) \in Int /\ a + SizeOf(mem'[a]) <= HEAP_WORDS
      /\ w \in Nat /\ 1 <= w /\ w <= SizeOf(mem'[a]) - 2
  <2>1. HeldFits(mem', starts', held', c, a, w)
    BY <1>1, <1>2, <1>3, HeldWords
  <2> QED
    BY <2>1 DEF HeldFits
<1>5. Region(held'[c]) = (a + 1)..(a + 1 + w - 1)
  BY <1>3, <1>4 DEF Region
<1>6. Region(held'[c]) # {} /\ Region(held'[c]) \subseteq Addr
  <2>1. a + 1 \in (a + 1)..(a + 1 + w - 1)
    BY <1>4, SMT
  <2>2. (a + 1)..(a + 1 + w - 1) \subseteq Addr
    BY <1>4, HeapAssumption, SMT DEF Addr
  <2> QED
    BY <1>5, <2>1, <2>2
<1>7. ASSUME NEW d \in Client, d # c
      PROVE  Region(held'[c]) \cap Region(held[d]) = {}
  <2>1. CASE held[d] = Nothing
    BY <2>1 DEF Region
  <2>2. CASE held[d] # Nothing
    <3>1. PICK b : b = held'[d].ptr - 1
      OBVIOUS
    <3>2. PICK v : v = Room(held'[d].bytes)
      OBVIOUS
    <3>3. held'[d] = held[d] /\ held'[d] # Nothing
      BY <1>7, <2>2
    <3>4. /\ b \in starts' /\ b \in Nat /\ held'[d].ptr = b + 1
          /\ SizeOf(mem'[b]) \in Int
          /\ v \in Nat /\ 1 <= v /\ v <= SizeOf(mem'[b]) - 2
      <4>1. HeldFits(mem', starts', held', d, b, v)
        BY <1>1, <3>1, <3>2, <3>3, HeldWords
      <4> QED
        BY <4>1 DEF HeldFits
    <3>5. held'[c].ptr # held'[d].ptr
      BY <1>1, <1>7, <3>3 DEF Ok, HeldOf
    <3>6. a # b
      BY <1>4, <3>4, <3>5
    <3>7. b + SizeOf(mem'[b]) <= a \/ a + SizeOf(mem'[a]) <= b
      BY <1>1, <1>4, <3>4, <3>6, BlocksApart
    <3>8. Region(held[d]) = (b + 1)..(b + 1 + v - 1)
      BY <3>2, <3>3, <3>4 DEF Region
    <3>9. ((a + 1)..(a + 1 + w - 1)) \cap ((b + 1)..(b + 1 + v - 1)) = {}
      BY <1>4, <3>4, <3>7, SMT
    <3> QED
      BY <1>5, <3>8, <3>9
  <2> QED
    BY <2>1, <2>2
<1> QED
  BY <1>6, <1>7 DEF Store!Given
-----------------------------------------------------------------------------
LEMMA GrantAllocates ==
  ASSUME HeapInv, HeapInv', Asked(held), NEW c \in Client,
         NEW bytes \in Int, NEW val \in Int, Grant(c, bytes, val)
  PROVE  Asked(held') /\ Store!Alloc(c)
<1>1. Ok(mem, starts, held, freed)
  BY InvForm
<1>2. PICK a \in starts :
        /\ ~IsUsed(mem[a])
        /\ IsPlaced(mem, starts, freed, a, Need(bytes), mem', starts', freed')
        /\ held' = [held EXCEPT ![c] = [ptr |-> a + 1, bytes |-> bytes,
                                        kept |-> Words(bytes), val |-> val]]
  BY GrantPlaces, SMT
<1>3. held[c] = Nothing /\ bytes > 0
  BY DEF Grant
<1>4. PICK r : r = [ptr |-> a + 1, bytes |-> bytes,
                    kept |-> Words(bytes), val |-> val]
  OBVIOUS
<1>5. held'[c] = r /\ \A d \in Client : d # c => held'[d] = held[d]
  BY <1>1, <1>2, <1>4 DEF Ok
<1>6. r.bytes > 0 /\ r.kept <= Room(r.bytes) /\ r # Nothing
  <2>1. Words(bytes) \in Nat /\ Room(bytes) = Words(bytes)
    BY GrantNeed
  <2>2. r.bytes = bytes /\ r.kept = Words(bytes)
    BY <1>4
  <2>3. Words(bytes) <= Words(bytes)
    BY <2>1, SMT
  <2>4. r # Nothing
    BY <1>3, <1>4, SMT DEF Nothing
  <2> QED
    BY <1>3, <2>1, <2>2, <2>3, <2>4
<1>7. Asked(held')
  BY <1>5, <1>6 DEF Asked
<1>8. Spares(mem, starts, a, mem')
  <2>1. WithinBlock(mem, a, Need(bytes), mem')
    BY <1>2, PlaceWithin
  <2>2. \A x \in Addr : x < a \/ x >= a + SizeOf(mem[a]) => mem'[x] = mem[x]
    BY <2>1 DEF WithinBlock
  <2> QED
    BY <1>1, <2>2, SparesWithin DEF Ok
<1>9. Store!OthersKeep(c)
  BY <1>2, <1>3, <1>5, <1>8, OthersKept
<1>10. Store!Given(c)
  BY <1>5, <1>6, <1>7, GivenApart
<1>11. Region(held[c]) = {}
  BY <1>3 DEF Region
<1> QED
  BY <1>7, <1>9, <1>10, <1>11 DEF Store!Alloc

(* A caller that holds a block holds a region.                             *)
LEMMA HoldsRegion ==
  ASSUME HeapInv, Asked(held), NEW c \in Client, held[c] # Nothing
  PROVE  Region(held[c]) # {}
<1>1. Ok(mem, starts, held, freed)
  BY InvForm
<1>2. PICK a : a = held[c].ptr - 1
  OBVIOUS
<1>3. PICK w : w = Room(held[c].bytes)
  OBVIOUS
<1>4. a \in Nat /\ held[c].ptr = a + 1 /\ w \in Nat /\ 1 <= w
  <2>1. HeldFits(mem, starts, held, c, a, w)
    BY <1>1, <1>2, <1>3, HeldWords
  <2> QED
    BY <2>1 DEF HeldFits
<1>5. held[c].ptr \in Region(held[c])
  BY <1>3, <1>4, SMT DEF Region
<1> QED
  BY <1>5

LEMMA FreeReleases ==
  ASSUME HeapInv, Asked(held), NEW c \in Client, Free(c)
  PROVE  Asked(held') /\ Store!Release(c)
<1>1. Ok(mem, starts, held, freed)
  BY InvForm
<1>2. PICK a : a = held[c].ptr - 1
  OBVIOUS
<1>3. /\ held[c] # Nothing /\ mem' = FreeBlock(mem, a)
      /\ held' = [held EXCEPT ![c] = Nothing]
  BY <1>2 DEF Free
<1>4. a \in starts
  BY <1>1, <1>2, <1>3, HeldBlock
<1>5. held'[c] = Nothing /\ \A d \in Client : d # c => held'[d] = held[d]
  BY <1>1, <1>3 DEF Ok
<1>6. Asked(held')
  BY <1>5 DEF Asked
<1>7. Spares(mem, starts, a, mem')
  BY <1>1, <1>3, <1>4, SparesFree DEF Ok
<1>8. Store!OthersKeep(c)
  BY <1>2, <1>3, <1>5, <1>7, OthersKept
<1>9. Region(held[c]) # {} /\ Region(held'[c]) = {}
  BY <1>3, <1>5, HoldsRegion DEF Region
<1> QED
  BY <1>6, <1>8, <1>9 DEF Store!Release

(* What realloc has to keep for the resized region to be a resized one.    *)
LEMMA ResizeKeeps ==
  ASSUME HeapInv, HeapInv', Asked(held), NEW c \in Client, NEW bytes \in Nat,
         bytes > 0, held[c] # Nothing, NEW o, o = held[c].ptr - 1,
         NEW w, w = Room(bytes), w \in Nat, NEW p \in 1..HEAP_WORDS,
         held' = ResizedTo(held, c, p, bytes, w),
         Spares(mem, starts, o, mem'),
         \A i \in 1..Smaller(held[c].kept, w) : mem'[p + i - 1] = mem[o + i]
  PROVE  Asked(held') /\ Store!Resize(c)
<1>1. Ok(mem, starts, held, freed)
  BY InvForm
<1>2. PICK v : v = Room(held[c].bytes)
  OBVIOUS
<1>3. /\ o \in Nat /\ held[c].ptr = o + 1
      /\ held[c].kept \in Nat
  <2>1. HeldFits(mem, starts, held, c, o, v)
    BY <1>1, <1>2, HeldWords
  <2> QED
    BY <2>1 DEF HeldFits
<1>4. PICK r : r = [ptr |-> p, bytes |-> bytes,
                    kept |-> Smaller(held[c].kept, w), val |-> held[c].val]
  OBVIOUS
<1>5. held' = [held EXCEPT ![c] = r] /\ r # Nothing
  <2>1. Resized(held, c, p, bytes, w, held', r)
    BY <1>1, <1>4 DEF Resized, ResizedTo, Ok
  <2> QED
    BY <2>1, ResizedHeld, SMT
<1>6. held'[c] = r /\ \A d \in Client : d # c => held'[d] = held[d]
  BY <1>1, <1>5 DEF Ok
<1>7. PICK q : q = Smaller(held[c].kept, w)
  OBVIOUS
<1>8. q \in Nat /\ q <= w /\ q <= held[c].kept
  BY <1>3, <1>7, SMT DEF Smaller
<1>9. r.ptr = p /\ r.bytes = bytes /\ r.kept = q
  BY <1>4, <1>7
<1>10. Asked(held')
  BY <1>6, <1>8, <1>9 DEF Asked
<1>11. Store!OthersKeep(c)
  BY <1>6, OthersKept
<1>12. Store!Given(c)
  BY <1>5, <1>6, <1>10, GivenApart
<1>13. Region(held[c]) # {}
  BY HoldsRegion
<1>14. PICK f : f = Data(mem, held[c])
  OBVIOUS
<1>15. PICK g : g = Data(mem', held'[c])
  OBVIOUS
<1>16. DOMAIN g = 1..q /\ \A i \in 1..q : g[i] = mem'[p + i - 1]
  BY <1>6, <1>9, <1>15 DEF Data
<1>17. /\ DOMAIN f = 1..held[c].kept
       /\ \A i \in 1..held[c].kept : f[i] = mem[held[c].ptr + i - 1]
  BY <1>14 DEF Data
<1>18. DOMAIN g \subseteq DOMAIN f /\ \A i \in DOMAIN g : g[i] = f[i]
  <2>1. 1..q \subseteq 1..held[c].kept
    BY <1>3, <1>8, SMT
  <2>2. ASSUME NEW i \in 1..q
        PROVE  g[i] = f[i]
    <3>1. held[c].ptr + i - 1 = o + i
      BY <1>3, SMT
    <3>2. mem'[p + i - 1] = mem[o + i]
      BY <1>7
    <3> QED
      BY <1>16, <1>17, <2>1, <3>1, <3>2
  <2> QED
    BY <1>16, <1>17, <2>1, <2>2
<1> QED
  BY <1>10, <1>11, <1>12, <1>13, <1>14, <1>15, <1>18 DEF Store!Resize

(* Splitting a block leaves the payload of its first part alone.           *)
LEMMA SplitInner ==
  ASSUME NEW m, NEW S, NEW a, NEW need, NEW n, NEW T,
         IsSplit(m, S, a, need, n, T), NEW x \in Addr, a < x, x < a + need - 1
  PROVE  n[x] = m[x]
<1> DEFINE s == SizeOf(m[a])
           r == a + need
           z == s - need
           k == SetBlock(m, a, need, 1)
<1>1. /\ Sound(m, S) /\ a \in S /\ need \in Int /\ need >= 3 /\ z >= 3
      /\ n = SetBlock(k, r, z, 0)
      /\ m \in [Addr -> Int]
  BY DEF IsSplit, Sound
<1>2. /\ a \in Nat /\ a \in Addr /\ s \in Int /\ a + s <= HEAP_WORDS
      /\ HEAP_WORDS \in Nat /\ x \in Int
  <2>1. x \in Int /\ HEAP_WORDS \in Nat
    BY HeapAssumption, SMT DEF Addr
  <2> QED
    BY <1>1, <2>1, BlockBounds
<1>3. /\ r \in Int /\ r >= 0 /\ r < HEAP_WORDS /\ z \in Int
      /\ r + z <= HEAP_WORDS /\ a + need <= HEAP_WORDS
      /\ x # a /\ x # a + need - 1 /\ x # r /\ x # r + z - 1
  <2>1. need \in Int /\ need >= 3 /\ s - need >= 3
    BY <1>1
  <2> HIDE DEF s
  <2> QED
    BY <1>2, <2>1, SMT
<1>4. r \in Addr
  BY <1>2, <1>3, SMT DEF Addr
<1> HIDE DEF s, r, z
<1>5. k \in [Addr -> Int] /\ k[x] = m[x]
  BY <1>1, <1>2, <1>3, Units, SetBlockWrites, SMT
<1> HIDE DEF k
<1>6. n[x] = k[x]
  BY <1>1, <1>3, <1>4, <1>5, Units, SetBlockWrites, SMT
<1> QED
  BY <1>5, <1>6

LEMMA InPlaceResizes ==
  ASSUME HeapInv, HeapInv', Asked(held), NEW c \in Client,
         NEW bytes \in ReallocSizes \ {0}, held[c] # Nothing,
         ReallocInPlace(c, bytes)
  PROVE  Asked(held') /\ Store!Resize(c)
<1> DEFINE need == Need(bytes)
           w == Room(bytes)
<1>1. Ok(mem, starts, held, freed)
  BY InvForm
<1>2. PICK a : a = held[c].ptr - 1
  OBVIOUS
<1>3. /\ a \in starts /\ a \in Addr /\ a \in Nat /\ held[c].ptr = a + 1
      /\ held \in [Client -> Held]
  BY <1>1, <1>2, HeldBlock DEF Ok
<1>4. bytes \in Nat /\ bytes > 0
  BY HeapAssumption, SMT
<1>5. w \in Nat /\ need \in Int /\ need >= 3 /\ need >= 2 + w
  BY <1>4, RoomOf, SMT
<1>6. /\ need <= SizeOf(mem[a])
      /\ IF Splits(SizeOf(mem[a]), need)
         THEN /\ mem' = SetBlock(SetBlock(mem, a, need, 1),
                                 a + need, SizeOf(mem[a]) - need, 0)
              /\ starts' = starts \cup {a + need}
         ELSE mem' = mem
      /\ held' = [held EXCEPT ![c].bytes = bytes, ![c].kept = Smaller(@, w)]
  BY <1>2 DEF ReallocInPlace
<1> HIDE DEF need, w
<1>7. /\ SizeOf(mem[a]) \in Int /\ a + SizeOf(mem[a]) <= HEAP_WORDS
      /\ HEAP_WORDS \in Nat
  BY <1>1, <1>3, BlockBounds, HeapAssumption DEF Ok
<1>8. /\ \A x \in Addr : x < a \/ x >= a + SizeOf(mem[a]) => mem'[x] = mem[x]
      /\ \A x \in Addr : a < x /\ x < a + need - 1 => mem'[x] = mem[x]
  <2>1. CASE ~Splits(SizeOf(mem[a]), need)
    BY <1>6, <2>1
  <2>2. CASE Splits(SizeOf(mem[a]), need)
    <3>1. IsSplit(mem, starts, a, need, mem', starts')
      BY <1>1, <1>3, <1>5, <1>6, <2>2 DEF IsSplit, Splits, MIN_BLOCK, Ok
    <3>2. \A x \in Addr :
            x < a \/ x >= a + SizeOf(mem[a]) => mem'[x] = mem[x]
      BY <3>1, SplitKept, SMT
    <3>3. \A x \in Addr : a < x /\ x < a + need - 1 => mem'[x] = mem[x]
      BY <3>1, SplitInner, SMT
    <3> QED
      BY <3>2, <3>3
  <2> QED
    BY <2>1, <2>2
<1>9. Spares(mem, starts, a, mem')
  BY <1>1, <1>3, <1>8, SparesWithin DEF Ok
<1>10. held' = ResizedTo(held, c, a + 1, bytes, w)
  <2>1. held \in [Client -> Held] /\ a + 1 = held[c].ptr
    BY <1>3
  <2>2. held' = [held EXCEPT ![c].bytes = bytes, ![c].kept = Smaller(@, w)]
    BY <1>6
  <2> QED
    BY <2>1, <2>2, SamePointer, Zenon
<1>11. a + 1 \in 1..HEAP_WORDS
  BY <1>3, HeapAssumption, SMT DEF Addr
<1>12. \A i \in 1..Smaller(held[c].kept, w) : mem'[a + 1 + i - 1] = mem[a + i]
  <2> SUFFICES ASSUME NEW i \in 1..Smaller(held[c].kept, w)
               PROVE  mem'[a + 1 + i - 1] = mem[a + i]
    OBVIOUS
  <2>1. held[c].kept \in Nat
    BY <1>3 DEF Held
  <2>2. i \in Int /\ 1 <= i /\ i <= w
    BY <1>5, <2>1, SMT DEF Smaller
  <2>3. PICK x : x = a + i
    OBVIOUS
  <2>4. /\ x \in Int /\ 0 <= x /\ x < HEAP_WORDS /\ a < x
        /\ x < a + need - 1 /\ x = a + 1 + i - 1
    BY <1>3, <1>5, <1>6, <1>7, <2>2, <2>3, SMT
  <2>5. mem'[x] = mem[x]
    BY <1>7, <1>8, <2>4, SMT DEF Addr
  <2> QED
    BY <2>3, <2>4, <2>5
<1> QED
  BY <1>2, <1>4, <1>5, <1>9, <1>10, <1>11, <1>12, ResizeKeeps DEF w

LEMMA MovesResizes ==
  ASSUME HeapInv, HeapInv', Asked(held), NEW c \in Client,
         NEW bytes \in ReallocSizes \ {0}, held[c] # Nothing,
         ReallocMoves(c, bytes)
  PROVE  Asked(held') /\ Store!Resize(c)
<1>1. Ok(mem, starts, held, freed)
  BY InvForm
<1>2. PICK old : old = held[c].ptr - 1
  OBVIOUS
<1>3. PICK w : w = Room(bytes)
  OBVIOUS
<1>4. PICK need : need = Need(bytes)
  OBVIOUS
<1>5. PICK l : l = Smaller(SizeOf(mem[old]) - 2, w)
  OBVIOUS
<1>6. PICK a \in starts : \E n, T, G :
        /\ Moved(old, need, l, a, n, T, G)
        /\ held' = ResizedTo(held, c, a + 1, bytes, w)
  BY <1>2, <1>3, <1>4, <1>5, MovesPlaces
<1>7. PICK n, T, G : Moved(old, need, l, a, n, T, G)
  BY <1>6
<1>8. held' = ResizedTo(held, c, a + 1, bytes, w)
  BY <1>6
<1>9. PICK v : v = Room(held[c].bytes)
  OBVIOUS
<1>10. /\ old \in starts /\ old \in Nat /\ IsUsed(mem[old])
       /\ SizeOf(mem[old]) \in Int /\ old + SizeOf(mem[old]) <= HEAP_WORDS
       /\ held[c].kept \in Nat /\ v \in Nat /\ held[c].kept <= v
       /\ v <= SizeOf(mem[old]) - 2
  <2>1. HeldFits(mem, starts, held, c, old, v)
    BY <1>1, <1>2, <1>9, HeldWords
  <2> QED
    BY <2>1 DEF HeldFits
<1>11. bytes \in Nat /\ bytes > 0
  BY HeapAssumption, SMT
<1>12. w \in Nat /\ need \in Int /\ need >= 3 /\ need >= 2 + w
  BY <1>3, <1>4, <1>11, RoomOf, SMT
<1>13. /\ IsPlaced(mem, starts, freed, a, need, n, T, G) /\ ~IsUsed(mem[a])
       /\ n = Copy(Place(mem, a, need), old + 1, a + 1, l)
       /\ mem' = FreeBlock(n, old)
  BY <1>7 DEF Moved
<1>14. /\ Sound(n, T) /\ a \in T /\ IsUsed(n[a])
       /\ SizeOf(n[a]) \in Int /\ SizeOf(n[a]) >= need
       /\ \A x \in starts : x # a => x \in T /\ n[x] = mem[x]
  <2>1. PlacedGives(mem, starts, a, need, n, T, G)
    BY <1>13, PlacedKept
  <2> QED
    BY <2>1 DEF PlacedGives
<1>15. /\ a # old /\ old \in T
  BY <1>10, <1>13, <1>14
<1>16. Spares(n, T, old, mem')
  BY <1>13, <1>14, <1>15, SparesFree
<1>17. \A x \in Addr : x < a \/ x >= a + SizeOf(mem[a]) =>
         n[x] = mem[x] /\ Place(mem, a, need)[x] = mem[x]
  <2>1. IsPlaced(mem, starts, freed, a, need, n, T, G)
    BY <1>13
  <2>2. WithinBlock(mem, a, need, n)
    BY <2>1, PlaceWithin
  <2> QED
    BY <2>2 DEF WithinBlock
<1>18. Spares(mem, starts, a, n) /\ Sound(mem, starts)
  BY <1>1, <1>17, SparesWithin DEF Ok
<1>19. Spares(mem, starts, old, mem')
  <2> SUFFICES ASSUME NEW b \in starts, NEW x \in Addr, b # old,
                      IsUsed(mem[b]), b <= x, x < b + SizeOf(mem[b])
               PROVE  mem'[x] = mem[x]
    BY DEF Spares
  <2>1. b # a
    BY <1>13
  <2>2. b \in T /\ n[b] = mem[b]
    BY <1>14, <2>1
  <2>3. n[x] = mem[x]
    BY <1>18, <2>1 DEF Spares
  <2>4. mem'[x] = n[x]
    BY <1>16, <2>2 DEF Spares
  <2> QED
    BY <2>3, <2>4
<1>20. /\ a \in Addr /\ a \in Nat /\ a + SizeOf(n[a]) <= HEAP_WORDS
       /\ HEAP_WORDS \in Nat
  BY <1>14, BlockBounds, HeapAssumption
<1>21. a + 1 \in 1..HEAP_WORDS
  BY <1>20, HeapAssumption, SMT DEF Addr
<1>22. ASSUME NEW i \in 1..Smaller(held[c].kept, w)
       PROVE  mem'[a + 1 + i - 1] = mem[old + i]
  <2>1. i \in Int /\ 1 <= i /\ i <= w /\ i <= l /\ i <= SizeOf(mem[old]) - 2
    BY <1>5, <1>10, <1>12, SMT DEF Smaller
  <2>2. PICK x : x = a + i
    OBVIOUS
  <2>3. /\ x \in Int /\ 0 <= x /\ x < HEAP_WORDS /\ a <= x
        /\ x < a + SizeOf(n[a]) /\ x = a + 1 + i - 1
    BY <1>12, <1>14, <1>20, <2>1, <2>2, SMT
  <2>4. x \in Addr
    BY <1>20, <2>3, SMT DEF Addr
  <2>5. mem'[x] = n[x]
    BY <1>14, <1>15, <1>16, <2>3, <2>4 DEF Spares
  <2>6. PICK y : y = old + i
    OBVIOUS
  <2>7. /\ y \in Int /\ 0 <= y /\ y < HEAP_WORDS /\ old <= y
        /\ y < old + SizeOf(mem[old])
    BY <1>10, <1>20, <2>1, <2>6, SMT
  <2>8. y \in Addr
    BY <1>20, <2>7, SMT DEF Addr
  <2>9. y < a \/ y >= a + SizeOf(mem[a])
    <3>1. old + SizeOf(mem[old]) <= a \/ a + SizeOf(mem[a]) <= old
      BY <1>10, <1>15, <1>18, BlocksApart
    <3>2. SizeOf(mem[a]) \in Int
      BY <1>18, BlockBounds
    <3> QED
      BY <1>10, <1>20, <2>7, <3>1, <3>2, SMT
  <2>10. PICK k \in [Addr -> Int] : k = Place(mem, a, need)
    <3>1. /\ need \in Int /\ need >= 3 /\ SizeOf(mem[a]) >= need
      BY <1>13 DEF IsPlaced
    <3> DEFINE h == Place(mem, a, need)
               U == PlaceStarts(mem, starts, a, need)
               g == Given(mem, a, need)
    <3> HIDE DEF h, U, g
    <3>2. PlaceGives(mem, starts, a, need, h, U, g)
      BY <1>18, <3>1, PlaceKept DEF h, U, g
    <3>3. h \in [Addr -> Int]
      BY <3>2 DEF PlaceGives, Sound
    <3> QED
      BY <3>3 DEF h
  <2>11. n[x] = k[y]
    <3>1. n[x] = IF x \in (a + 1)..(a + 1 + l - 1)
                 THEN k[x - (a + 1) + (old + 1)] ELSE k[x]
      BY <1>13, <2>4, <2>10 DEF Copy
    <3>2. x - (a + 1) + (old + 1) = y
      BY <1>10, <1>20, <2>1, <2>2, <2>6, SMT
    <3>3. l \in Int
      BY <1>5, <1>10, <1>12, SMT DEF Smaller
    <3>4. x \in (a + 1)..(a + 1 + l - 1)
      BY <1>20, <2>1, <2>2, <3>3, SMT
    <3> QED
      BY <3>1, <3>2, <3>4
  <2>12. k[y] = mem[y]
    BY <1>17, <2>8, <2>9, <2>10
  <2> QED
    BY <2>3, <2>5, <2>6, <2>11, <2>12
<1> QED
  BY <1>2, <1>3, <1>8, <1>11, <1>12, <1>19, <1>21, <1>22, ResizeKeeps
-----------------------------------------------------------------------------
Relied == Asked(held)

LEMMA StoreInit == Init => Relied /\ Store!Init
<1> SUFFICES ASSUME Init
             PROVE  Asked(held) /\ Store!Init
  BY DEF Relied
<1>1. \A c \in Client : held[c] = Nothing
  BY DEF Init
<1>2. Region(Nothing) = {} /\ Data(mem, Nothing) = <<>>
  BY SMT DEF Region, Data, Nothing
<1> QED
  BY <1>1, <1>2 DEF Asked, Store!Init

LEMMA StoreNext ==
  HeapInv /\ HeapInv' /\ Relied /\ [Next]_vars =>
    Relied' /\ [Store!Next]_(Store!storeVars)
<1> SUFFICES ASSUME HeapInv, HeapInv', Asked(held), [Next]_vars
             PROVE  Asked(held') /\ (Store!Next \/ UNCHANGED Store!storeVars)
  BY DEF Relied
<1>1. ASSUME UNCHANGED <<mem, held>>
      PROVE  Asked(held') /\ UNCHANGED Store!storeVars
  BY <1>1 DEF Store!storeVars
<1>2. ASSUME NEW c \in Client, Malloc(c)
      PROVE  Asked(held') /\ Store!Alloc(c)
  <2>1. PICK bytes \in MallocSizes : Grant(c, bytes, Tag[c])
    BY <1>2 DEF Malloc
  <2>2. bytes \in Int /\ Tag[c] \in Int
    BY HeapAssumption, SMT
  <2> QED
    BY <2>1, <2>2, GrantAllocates
<1>3. ASSUME NEW c \in Client, Calloc(c)
      PROVE  Asked(held') /\ Store!Alloc(c)
  <2>1. PICK q \in CallocShapes : Grant(c, q[1] * q[2], 0)
    BY <1>3 DEF Calloc
  <2>2. q[1] \in Int /\ q[2] \in Int
    BY HeapAssumption, SMT
  <2>3. q[1] * q[2] \in Int
    BY <2>2, SMT
  <2> QED
    BY <2>1, <2>3, Units, GrantAllocates, SMT
<1>4. ASSUME NEW c \in Client, Free(c)
      PROVE  Asked(held') /\ Store!Release(c)
  BY <1>4, FreeReleases
<1>5. ASSUME NEW c \in Client, Realloc(c)
      PROVE  Asked(held') /\ Store!Resize(c)
  <2>1. PICK bytes \in ReallocSizes \ {0} :
          ReallocInPlace(c, bytes) \/ ReallocMoves(c, bytes)
    BY <1>5 DEF Realloc
  <2>2. held[c] # Nothing
    BY <1>5 DEF Realloc
  <2> QED
    BY <2>1, <2>2, InPlaceResizes, MovesResizes
<1>6. ASSUME FreeAgain
      PROVE  UNCHANGED <<mem, held>>
  <2>1. PICK p \in freed :
          /\ ~IsUsed(mem[p - 1]) => UNCHANGED <<mem, starts>>
          /\ UNCHANGED <<held, freed, seams>>
    BY <1>6 DEF FreeAgain
  <2>2. ~IsUsed(mem[p - 1])
    BY DEF HeapInv, Refused
  <2> QED
    BY <2>1, <2>2
<1>7. UNCHANGED vars => UNCHANGED <<mem, held>>
  BY DEF vars
<1> QED
  BY <1>1, <1>2, <1>3, <1>4, <1>5, <1>6, <1>7 DEF Next, Store!Next

(* The allocator of heap.c keeps the promise of the abstract store, for    *)
(* every heap size, set of callers and requests: what it hands out never   *)
(* overlaps, and the words a caller stored are changed by no other call,   *)
(* by no header or footer, and survive realloc up to the smaller size: one *)
(* word of them, where the sums of realloc_impl wrap.                      *)
THEOREM HeapIsStore == Spec => ImplementsStore
BY StoreInit, StoreNext, HeapInvariant, PTL
   DEF Spec, ImplementsStore, Store!Spec
=============================================================================
