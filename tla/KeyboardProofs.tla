--------------------------- MODULE KeyboardProofs ---------------------------
(***************************************************************************)
(* The keyboard buffer, for any number of CPUs, any buffer size and any    *)
(* codes: readers on all CPUs together get every stored character once and *)
(* in order, and the stored characters are what the codes mean.            *)
(***************************************************************************)
EXTENDS Keyboard, SequenceTheorems, FiniteSetTheorems, TLAPS

Key == [n : Nat, c : {"arrow", "K", "k", "none"}]

(* How many characters lie between t and h, and the place of the j-th.     *)
Pending(h, t) == IF h >= t THEN h - t ELSE h - t + BUFFER_SIZE
Place(t, j) == IF t + j < BUFFER_SIZE THEN t + j ELSE t + j - BUFFER_SIZE

(* The characters in buffer b are those stored and not yet returned.       *)
Buffered(b, h, t, st, re) ==
  /\ Len(st) = Len(re) + Pending(h, t)
  /\ \A i \in 1..Len(re) : re[i] = st[i]
  /\ \A j \in 0..Pending(h, t) - 1 : b[Place(t, j)] = st[Len(re) + 1 + j]

KeyTyped ==
  /\ scan_code \in Code \cup {"key"}
  /\ accepted \in Seq(Code \cup {"key"})
  /\ count \in 0..MaxCodes /\ Len(accepted) <= count

BufTyped ==
  /\ buffer_head \in Index /\ buffer_tail \in Index
  /\ key_buffer \in [Index -> Key]
  /\ stored \in Seq(Key) /\ returned \in Seq(Key)

CpuTyped ==
  /\ kb_lock \in CPU \cup {Free, Handler}
  /\ at \in [CPU -> {"out", "in", "read"}]
  /\ char \in [CPU -> Key]

(* kb_lock keeps the CPUs out of get_char's critical section but one.      *)
Locked ==
  \A p \in CPU :
    /\ at[p] # "out" <=> kb_lock = p
    /\ at[p] = "read" =>
         buffer_head # buffer_tail /\ char[p] = key_buffer[buffer_tail]

InBuffer == Buffered(key_buffer, buffer_head, buffer_tail, stored, returned)

Inv == KeyTyped /\ BufTyped /\ CpuTyped /\ Locked /\ InBuffer
-----------------------------------------------------------------------------
(* The leaves are for Zenon, unless they cite SMT.                         *)
USE Zenon

LEMMA Size ==
  BUFFER_SIZE \in Nat /\ BUFFER_SIZE > 1
BY KeyboardAssumption

LEMMA Wraps ==
  ASSUME NEW a \in Int, 0 <= a, a < 2 * BUFFER_SIZE
  PROVE  a % BUFFER_SIZE = IF a < BUFFER_SIZE THEN a ELSE a - BUFFER_SIZE
<1>1. BUFFER_SIZE \in Nat \ {0}
  BY Size, SMT
<1>2. CASE a < BUFFER_SIZE
  <2>1. a % BUFFER_SIZE = a
    BY <1>1, <1>2, SMT
  <2> QED
    BY <1>2, <2>1
<1>3. CASE ~(a < BUFFER_SIZE)
  <2>1. a \in BUFFER_SIZE..2 * BUFFER_SIZE - 1
    BY <1>1, <1>3, SMT
  <2>2. a % BUFFER_SIZE = a - BUFFER_SIZE
    BY <1>1, <2>1, SMT
  <2> QED
    BY <1>3, <2>2
<1> QED
  BY <1>2, <1>3

LEMMA AfterIs ==
  ASSUME NEW i \in Index
  PROVE  /\ After(i) = IF i + 1 = BUFFER_SIZE THEN 0 ELSE i + 1
         /\ After(i) \in Index
<1>1. PICK a \in Int : a = i + 1 /\ 0 <= a /\ a < 2 * BUFFER_SIZE
  BY Size, SMT DEF Index
<1>2. After(i) = a % BUFFER_SIZE
  BY <1>1 DEF After
<1>3. After(i) = IF a < BUFFER_SIZE THEN a ELSE a - BUFFER_SIZE
  BY <1>1, <1>2, Wraps
<1> QED
  BY <1>1, <1>3, Size, SMT DEF Index

LEMMA PendingIs ==
  ASSUME NEW h \in Index, NEW t \in Index
  PROVE  /\ Pending(h, t) = (h - t) % BUFFER_SIZE
         /\ Pending(h, t) \in 0..BUFFER_SIZE - 1
         /\ Pending(h, t) = 0 <=> h = t
<1>1. BUFFER_SIZE \in Nat \ {0}
  BY Size, SMT
<1>2. Pending(h, t) \in 0..BUFFER_SIZE - 1
  BY <1>1, SMT DEF Pending, Index
<1>3. (h - t) % BUFFER_SIZE = Pending(h, t)
  <2>1. CASE h >= t
    <3>1. h - t \in 0..BUFFER_SIZE - 1
      BY <1>1, <2>1, SMT DEF Index
    <3>2. (h - t) % BUFFER_SIZE = h - t
      BY <1>1, <3>1, SMT
    <3> QED
      BY <2>1, <3>2 DEF Pending
  <2>2. CASE ~(h >= t)
    <3>1. h - t + BUFFER_SIZE \in 0..BUFFER_SIZE - 1
      BY <1>1, <2>2, SMT DEF Index
    <3> DEFINE r == h - t + BUFFER_SIZE
    <3>2. h - t = (-1) * BUFFER_SIZE + r
      BY <1>1, SMT DEF Index
    <3> HIDE DEF r
    <3>3. ((-1) * BUFFER_SIZE + r) % BUFFER_SIZE = r
      BY <1>1, <3>1, SMT DEF r
    <3> QED
      BY <2>2, <3>2, <3>3 DEF Pending, r
  <2> QED
    BY <2>1, <2>2
<1> QED
  BY <1>2, <1>3, Size, SMT DEF Pending, Index

LEMMA PlaceIs ==
  ASSUME NEW t \in Index, NEW j \in 0..BUFFER_SIZE - 1
  PROVE  Place(t, j) = (t + j) % BUFFER_SIZE /\ Place(t, j) \in Index
<1>1. t + j \in Int /\ 0 <= t + j /\ t + j < 2 * BUFFER_SIZE
  BY Size, SMT DEF Index
<1> QED
  BY <1>1, Wraps, Size, SMT DEF Place, Index
-----------------------------------------------------------------------------
(* A character is put behind the others.                                   *)
LEMMA BufferedPush ==
  ASSUME NEW b \in [Index -> Key], NEW h \in Index, NEW t \in Index,
         NEW st \in Seq(Key), NEW re \in Seq(Key), Buffered(b, h, t, st, re),
         After(h) # t, NEW e \in Key
  PROVE  Buffered([b EXCEPT ![h] = e], After(h), t, Append(st, e), re)
<1> DEFINE c == [b EXCEPT ![h] = e]
           s == Append(st, e)
           m == Pending(h, t)
<1>1. Pending(After(h), t) = m + 1 /\ m \in 0..BUFFER_SIZE - 1
  <2>1. PICK n \in Index : /\ n = After(h)
                           /\ n = IF h + 1 = BUFFER_SIZE THEN 0 ELSE h + 1
    BY AfterIs
  <2>2. Pending(n, t) = Pending(h, t) + 1
    BY <2>1, Size, SMT DEF Pending, Index
  <2> QED
    BY <2>1, <2>2, PendingIs
<1>2. /\ Len(st) \in Nat /\ Len(re) \in Nat /\ Len(s) = Len(st) + 1
      /\ \A i \in 1..Len(st) : s[i] = st[i]
      /\ s[Len(st) + 1] = e
  BY AppendProperties, SMT
<1>3. Len(st) = Len(re) + m
  BY DEF Buffered
<1>4. \A i \in 1..Len(re) : re[i] = s[i]
  BY <1>1, <1>2, <1>3, SMT DEF Buffered
<1>5. \A j \in 0..m : c[Place(t, j)] = s[Len(re) + 1 + j]
  <2> TAKE j \in 0..m
  <2>1. j \in 0..BUFFER_SIZE - 1 /\ Place(t, j) \in Index
    BY <1>1, PlaceIs, Size, SMT
  <2>2. CASE j = m
    <3>1. Place(t, j) = h
      BY <2>2, Size, SMT DEF Place, Pending, Index
    <3>2. Len(re) + 1 + j = Len(st) + 1
      BY <1>1, <1>2, <1>3, <2>2, SMT
    <3> QED
      BY <1>2, <3>1, <3>2
  <2>3. CASE j < m
    <3>1. Place(t, j) # h
      BY <2>1, <2>3, Size, SMT DEF Place, Pending, Index
    <3>2. Len(re) + 1 + j \in 1..Len(st)
      BY <1>1, <1>2, <1>3, <2>1, <2>3, SMT
    <3>3. b[Place(t, j)] = st[Len(re) + 1 + j]
      BY <1>1, <2>1, <2>3, SMT DEF Buffered
    <3> QED
      BY <1>2, <2>1, <3>1, <3>2, <3>3
  <2>4. j = m \/ j < m
    <3> HIDE DEF m
    <3> QED
      BY <1>1, Size, SMT
  <2> QED
    BY <2>2, <2>3, <2>4
<1> HIDE DEF c, s, m
<1>6. Len(s) = Len(re) + Pending(After(h), t)
  BY <1>1, <1>2, <1>3, SMT
<1>7. \A j \in 0..Pending(After(h), t) - 1 : c[Place(t, j)] = s[Len(re) + 1 + j]
  BY <1>1, <1>5, SMT
<1>8. Buffered(c, After(h), t, s, re)
  BY <1>4, <1>6, <1>7 DEF Buffered
<1> QED
  BY <1>8 DEF c, s

(* The oldest is taken.                                                    *)
LEMMA BufferedTake ==
  ASSUME NEW b \in [Index -> Key], NEW h \in Index, NEW t \in Index,
         NEW st \in Seq(Key), NEW re \in Seq(Key), Buffered(b, h, t, st, re),
         h # t
  PROVE  Buffered(b, h, After(t), st, Append(re, b[t]))
<1> DEFINE r == Append(re, b[t])
           m == Pending(h, t)
<1>1. /\ Pending(h, After(t)) = m - 1 /\ m \in 0..BUFFER_SIZE - 1 /\ m # 0
  <2>1. PICK n \in Index : /\ n = After(t)
                           /\ n = IF t + 1 = BUFFER_SIZE THEN 0 ELSE t + 1
    BY AfterIs
  <2>2. Pending(h, n) = Pending(h, t) - 1
    BY <2>1, Size, SMT DEF Pending, Index
  <2> QED
    BY <2>1, <2>2, PendingIs
<1>2. /\ Len(st) \in Nat /\ Len(re) \in Nat /\ Len(r) = Len(re) + 1
      /\ \A i \in 1..Len(re) : r[i] = re[i]
      /\ r[Len(re) + 1] = b[t]
  BY AppendProperties, SMT
<1>3. Len(st) = Len(re) + m
  BY DEF Buffered
<1>4. b[t] = st[Len(re) + 1]
  <2>1. PICK j \in 0..m - 1 : j = 0
    BY <1>1, SMT
  <2>2. b[Place(t, j)] = st[Len(re) + 1 + j]
    BY DEF Buffered
  <2>3. Place(t, j) = t /\ Len(re) + 1 + j = Len(re) + 1
    BY <1>2, <2>1, Size, SMT DEF Place, Index
  <2> QED
    BY <2>2, <2>3
<1>5. \A i \in 1..Len(r) : r[i] = st[i]
  <2> TAKE i \in 1..Len(r)
  <2>1. CASE i = Len(re) + 1
    BY <1>2, <1>4, <2>1
  <2>2. CASE i \in 1..Len(re)
    BY <1>2, <2>2 DEF Buffered
  <2> QED
    BY <1>2, <2>1, <2>2, SMT
<1>6. \A j \in 0..m - 1 - 1 : b[Place(After(t), j)] = st[Len(r) + 1 + j]
  <2> TAKE j \in 0..m - 1 - 1
  <2>1. j + 1 \in 0..m - 1
    BY <1>1, SMT
  <2>2. b[Place(t, j + 1)] = st[Len(re) + 1 + (j + 1)]
    BY <2>1 DEF Buffered
  <2>3. Place(After(t), j) = Place(t, j + 1)
    <3>1. PICK n \in Index : /\ n = After(t)
                             /\ n = IF t + 1 = BUFFER_SIZE THEN 0 ELSE t + 1
      BY AfterIs
    <3>2. j \in 0..BUFFER_SIZE - 1 /\ j + 1 \in 0..BUFFER_SIZE - 1
      BY <1>1, <2>1, Size, SMT
    <3>3. Place(n, j) = Place(t, j + 1)
      BY <3>1, <3>2, Size, SMT DEF Place, Index
    <3> QED
      BY <3>1, <3>3
  <2>4. Len(re) + 1 + (j + 1) = Len(r) + 1 + j
    BY <1>2, SMT
  <2> QED
    BY <2>2, <2>3, <2>4
<1> HIDE DEF r, m
<1>7. Len(st) = Len(r) + Pending(h, After(t))
  BY <1>1, <1>2, <1>3, SMT
<1>8. Buffered(b, h, After(t), st, r)
  BY <1>1, <1>5, <1>6, <1>7 DEF Buffered
<1> QED
  BY <1>8 DEF r
-----------------------------------------------------------------------------
LEMMA NotACpu ==
  Free \notin CPU /\ Handler \notin CPU /\ Free # Handler
BY KeyboardAssumption, SMT DEF Free, Handler

LEMMA BufferKept ==
  ASSUME BufTyped, InBuffer, UNCHANGED bufVars
  PROVE  BufTyped' /\ InBuffer'
<1>1. UNCHANGED <<key_buffer, buffer_head, buffer_tail, stored, returned>>
  BY DEF bufVars
<1> QED
  BY <1>1 DEF BufTyped, InBuffer, Buffered, Pending, Place

(* The interrupt arrives: a code is taken or lost.                         *)
LEMMA KeyKeeps ==
  ASSUME Inv, KeyIsLost \/ KeyIsTaken
  PROVE  Inv'
<1>1. UNCHANGED <<bufVars, at, char>> /\ count < MaxCodes /\ count' = count + 1
  BY DEF KeyIsLost, KeyIsTaken
<1>2. PICK code \in Code :
        /\ scan_code' = code
        /\ accepted' = accepted \/ accepted' = Append(accepted, code)
  BY DEF KeyIsLost, KeyIsTaken
<1>3. KeyTyped'
  <2> DEFINE S == Code \cup {"key"}
  <2>1. accepted \in Seq(S) /\ code \in S
    BY DEF Inv, KeyTyped
  <2> HIDE DEF S
  <2>2. /\ accepted' \in Seq(S) /\ Len(accepted) \in Nat
        /\ Len(accepted') \in {Len(accepted), Len(accepted) + 1}
    BY <1>2, <2>1, AppendProperties, LenProperties, SMT
  <2>3. count \in 0..MaxCodes /\ Len(accepted) <= count
    BY DEF Inv, KeyTyped
  <2>4. count' \in 0..MaxCodes /\ Len(accepted') <= count'
    BY <1>1, <2>2, <2>3, KeyboardAssumption, SMT
  <2> QED
    BY <1>2, <2>1, <2>2, <2>4 DEF KeyTyped, S
<1>4. BufTyped' /\ InBuffer'
  BY <1>1, BufferKept DEF Inv
<1>5. CASE KeyIsLost
  <2>1. UNCHANGED <<kb_lock, at, char, buffer_head, buffer_tail, key_buffer>>
    BY <1>5 DEF KeyIsLost, bufVars
  <2>2. CpuTyped' /\ Locked'
    BY <2>1 DEF Inv, CpuTyped, Locked
  <2> QED
    BY <1>3, <1>4, <2>2 DEF Inv
<1>6. CASE KeyIsTaken
  <2>1. /\ kb_lock = Free /\ kb_lock' = Handler
        /\ UNCHANGED <<at, char, buffer_head, buffer_tail, key_buffer>>
    BY <1>6 DEF KeyIsTaken, bufVars
  <2>2. CpuTyped' /\ Locked'
    BY <2>1, NotACpu DEF Inv, CpuTyped, Locked
  <2> QED
    BY <1>3, <1>4, <2>2 DEF Inv
<1> QED
  BY <1>5, <1>6

LEMMA PushKeeps ==
  ASSUME BufTyped, InBuffer, accepted \in Seq(Code \cup {"key"}),
         NEW c \in {"arrow", "K", "k"}, Push(c)
  PROVE  BufTyped' /\ InBuffer'
<1> DEFINE e == [n |-> Len(accepted), c |-> c]
<1>1. e \in Key
  BY LenProperties DEF Key
<1> HIDE DEF e
<1>2. CASE HasRoom
  <2>1. /\ key_buffer' = [key_buffer EXCEPT ![buffer_head] = e]
        /\ buffer_head' = After(buffer_head)
        /\ stored' = Append(stored, e)
        /\ UNCHANGED <<buffer_tail, returned>>
    BY <1>2 DEF Push, e
  <2>2. After(buffer_head) # buffer_tail /\ After(buffer_head) \in Index
    BY <1>2, AfterIs DEF HasRoom, BufTyped
  <2>3. BufTyped'
    BY <1>1, <2>1, <2>2, AppendProperties DEF BufTyped
  <2>4. Buffered([key_buffer EXCEPT ![buffer_head] = e], After(buffer_head),
                 buffer_tail, Append(stored, e), returned)
    BY <1>1, <2>2, BufferedPush DEF BufTyped, InBuffer
  <2>5. Buffered(key_buffer', buffer_head', buffer_tail', stored', returned')
    BY <2>1, <2>4
  <2>6. InBuffer'
    BY <2>5 DEF InBuffer
  <2> QED
    BY <2>3, <2>6
<1>3. CASE ~HasRoom
  <2>1. UNCHANGED <<key_buffer, buffer_head, buffer_tail, stored, returned>>
    BY <1>3 DEF Push
  <2> QED
    BY <2>1 DEF BufTyped, InBuffer, Buffered, Pending, Place
<1> QED
  BY <1>2, <1>3

(* The handler ends: no CPU is inside get_char.                            *)
LEMMA HandlerKeeps ==
  ASSUME Inv, HandlerEnds
  PROVE  Inv'
<1>1. /\ kb_lock = Handler /\ kb_lock' = Free
      /\ UNCHANGED <<scan_code, accepted, at, char, count>>
  BY DEF HandlerEnds, Unlocked
<1>2. KeyTyped' /\ CpuTyped'
  BY <1>1 DEF Inv, KeyTyped, CpuTyped
<1>3. \A p \in CPU : at[p] = "out"
  BY <1>1, NotACpu DEF Inv, Locked
<1>4. Locked'
  BY <1>1, <1>3, NotACpu DEF Locked
<1>5. UNCHANGED bufVars \/ \E c \in {"arrow", "K", "k"} : Push(c)
  BY DEF HandlerEnds, Prefix, Extended, Modifier, Plain
<1>6. BufTyped' /\ InBuffer'
  BY <1>5, BufferKept, PushKeeps DEF Inv, KeyTyped
<1> QED
  BY <1>2, <1>4, <1>6 DEF Inv
-----------------------------------------------------------------------------
(* get_char.                                                               *)
LEMMA LockKeeps ==
  ASSUME Inv, NEW p \in CPU, Lock(p) \/ Read(p) \/ Nothing(p)
  PROVE  Inv'
<1>1. UNCHANGED <<keyVars, bufVars, count>>
  BY DEF Lock, Read, Nothing
<1>2. UNCHANGED <<scan_code, accepted, count, key_buffer, buffer_head,
                  buffer_tail>>
  BY <1>1 DEF keyVars, bufVars
<1>3. KeyTyped' /\ BufTyped' /\ InBuffer'
  BY <1>1, <1>2, BufferKept DEF Inv, KeyTyped
<1>4. CASE Lock(p)
  BY <1>2, <1>3, <1>4, NotACpu DEF Inv, CpuTyped, Locked, Lock
<1>5. CASE Read(p)
  <2>1. key_buffer[buffer_tail] \in Key
    BY DEF Inv, BufTyped
  <2>2. CpuTyped'
    BY <1>5, <2>1 DEF Inv, CpuTyped, Read
  <2>3. Locked'
    BY <1>2, <1>5 DEF Inv, CpuTyped, Locked, Read
  <2> QED
    BY <1>3, <2>2, <2>3 DEF Inv
<1>6. CASE Nothing(p)
  BY <1>2, <1>3, <1>6, NotACpu DEF Inv, CpuTyped, Locked, Nothing
<1> QED
  BY <1>4, <1>5, <1>6

LEMMA TakeKeeps ==
  ASSUME Inv, NEW p \in CPU, Take(p)
  PROVE  Inv'
<1>1. /\ at[p] = "read" /\ buffer_tail' = After(buffer_tail)
      /\ returned' = Append(returned, char[p])
      /\ char' = [char EXCEPT ![p] = NoChar]
      /\ at' = [at EXCEPT ![p] = "out"] /\ kb_lock' = Free
      /\ UNCHANGED <<scan_code, accepted, key_buffer, buffer_head, stored,
                     count>>
  BY DEF Take, keyVars
<1>2. /\ char[p] = key_buffer[buffer_tail] /\ buffer_head # buffer_tail
      /\ char[p] \in Key
  BY <1>1 DEF Inv, CpuTyped, Locked
<1>3. KeyTyped'
  BY <1>1 DEF Inv, KeyTyped
<1>4. CpuTyped'
  <2>1. NoChar \in Key
    BY DEF NoChar, Key
  <2> QED
    BY <1>1, <2>1 DEF Inv, CpuTyped
<1>5. Locked'
  <2>1. kb_lock = p
    BY <1>1 DEF Inv, Locked
  <2>2. \A q \in CPU : at'[q] = "out"
    BY <1>1, <2>1 DEF Inv, CpuTyped, Locked
  <2> QED
    BY <1>1, <2>2, NotACpu DEF Locked
<1>6. BufTyped'
  BY <1>1, <1>2, AfterIs, AppendProperties DEF Inv, BufTyped
<1>7. InBuffer'
  <2>1. Buffered(key_buffer, buffer_head, After(buffer_tail), stored,
                 Append(returned, key_buffer[buffer_tail]))
    BY <1>2, BufferedTake DEF Inv, BufTyped, InBuffer
  <2>2. Buffered(key_buffer', buffer_head', buffer_tail', stored', returned')
    BY <1>1, <1>2, <2>1
  <2> QED
    BY <2>2 DEF InBuffer
<1> QED
  BY <1>3, <1>4, <1>5, <1>6, <1>7 DEF Inv

LEMMA InitHolds ==
  ASSUME Init
  PROVE  Inv
<1>1. /\ NoChar \in Key /\ 0 \in Index /\ 0 \in 0..MaxCodes
      /\ <<>> \in Seq(Key) /\ <<>> \in Seq(Code \cup {"key"}) /\ Len(<<>>) = 0
  <2>1. 0 \in Index /\ 0 \in 0..MaxCodes
    BY KeyboardAssumption, SMT DEF Index
  <2>2. <<>> \in Seq(Key) /\ <<>> \in Seq(Code \cup {"key"}) /\ Len(<<>>) = 0
    BY EmptySeq
  <2>3. NoChar \in Key
    BY DEF NoChar, Key
  <2> QED
    BY <2>1, <2>2, <2>3
<1>2. KeyTyped
  BY <1>1, SMT DEF Init, KeyTyped
<1>3. BufTyped /\ CpuTyped
  BY <1>1 DEF Init, BufTyped, CpuTyped
<1>4. Locked
  BY NotACpu DEF Init, Locked
<1>5. InBuffer
  BY <1>1, SMT DEF Init, InBuffer, Buffered, Pending
<1> QED
  BY <1>2, <1>3, <1>4, <1>5 DEF Inv

LEMMA NextKeeps ==
  ASSUME Inv, [Next]_vars
  PROVE  Inv'
<1>1. CASE KeyIsLost \/ KeyIsTaken
  BY <1>1, KeyKeeps
<1>2. CASE HandlerEnds
  BY <1>2, HandlerKeeps
<1>3. ASSUME NEW p \in CPU, Lock(p) \/ Read(p) \/ Take(p) \/ Nothing(p)
      PROVE  Inv'
  BY <1>3, LockKeeps, TakeKeeps
<1>4. CASE UNCHANGED vars
  <2>1. /\ UNCHANGED <<kb_lock, scan_code, accepted, bufVars, at, char, count>>
        /\ UNCHANGED <<key_buffer, buffer_head, buffer_tail>>
    BY <1>4 DEF vars, keyVars, bufVars
  <2>2. KeyTyped' /\ CpuTyped' /\ Locked'
    BY <2>1 DEF Inv, KeyTyped, CpuTyped, Locked
  <2> QED
    BY <2>1, <2>2, BufferKept DEF Inv
<1> QED
  BY <1>1, <1>2, <1>3, <1>4 DEF Next

(* The inductive invariant: whoever is inside get_char holds kb_lock, and  *)
(* between the tail and the head lies what was stored and not returned.    *)
THEOREM Safety == Spec => []Inv
<1>1. Init => Inv
  BY InitHolds
<1>2. Inv /\ [Next]_vars => Inv'
  BY NextKeeps
<1> QED
  BY <1>1, <1>2, PTL DEF Spec

(* keyboard_handler and get_char keep both ends of key_buffer inside it.   *)
THEOREM TypeCorrect == Spec => []TypeOK
<1>1. Inv => TypeOK
  BY DEF Inv, KeyTyped, BufTyped, CpuTyped, TypeOK
<1> QED
  BY <1>1, Safety, PTL

(* get_char on any number of CPUs and keyboard_handler together deliver    *)
(* every stored character once and in order, for any size of key_buffer.   *)
THEOREM KeysOnce == Spec => []EachKeyOnce
<1>1. ASSUME Inv PROVE EachKeyOnce
  <2> DEFINE m == Pending(buffer_head, buffer_tail)
  <2>1. /\ m = (buffer_head - buffer_tail) % BUFFER_SIZE
        /\ m \in 0..BUFFER_SIZE - 1
    BY <1>1, PendingIs DEF Inv, BufTyped
  <2>2. /\ Len(stored) = Len(returned) + m
        /\ \A i \in 1..Len(returned) : returned[i] = stored[i]
        /\ \A j \in 0..m - 1 : key_buffer[Place(buffer_tail, j)]
                                = stored[Len(returned) + 1 + j]
    BY <1>1 DEF Inv, InBuffer, Buffered
  <2> HIDE DEF m
  <2>3. \A j \in 0..m - 1 :
          Place(buffer_tail, j) = (buffer_tail + j) % BUFFER_SIZE
    <3> TAKE j \in 0..m - 1
    <3>1. j \in 0..BUFFER_SIZE - 1
      BY <2>1, Size, SMT
    <3> QED
      BY <1>1, <3>1, PlaceIs DEF Inv, BufTyped
  <2>4. \A j \in 0..m - 1 :
          key_buffer[(buffer_tail + j) % BUFFER_SIZE]
            = stored[Len(returned) + 1 + j]
    BY <2>2, <2>3
  <2> QED
    BY <2>1, <2>2, <2>4 DEF EachKeyOnce
<1> QED
  BY <1>1, Safety, PTL
-----------------------------------------------------------------------------
(* What the handler remembers of the codes before the next one: whether    *)
(* the last was a prefix, whether shift is down, and caps lock.            *)
Done == IF kb_lock = Handler THEN Len(accepted) - 1 ELSE Len(accepted)

Flags ==
  shift_pressed \in BOOLEAN /\ caps_on \in BOOLEAN /\ extended \in BOOLEAN

InHand ==
  kb_lock = Handler =>
    Len(accepted) >= 1 /\ scan_code = accepted[Len(accepted)]

PrefixSeen == extended <=> Done >= 1 /\ accepted[Done] = "prefix"
ShiftSeen == shift_pressed <=> Shifted(Done + 1)
CapsSeen == caps_on <=> Cardinality(Before(Done + 1, {"caps"})) % 2 = 1

Remembered == Flags /\ InHand /\ PrefixSeen /\ ShiftSeen /\ CapsSeen

Numbers == {stored[i].n : i \in 1..Len(stored)}

DecodedSoFar ==
  /\ dropped \subseteq 1..Done
  /\ \A i \in 1..Len(stored) :
       stored[i].n \in 1..Done /\ stored[i].c = Decode(stored[i].n)
  /\ \A k \in 1..Done : Decode(k) # "none" <=> k \in dropped \cup Numbers

DecodeInv == Remembered /\ DecodedSoFar
-----------------------------------------------------------------------------
LEMMA CodesAre ==
  Code \cup {"key"} \subseteq {"key", "key release", "shift", "shift release",
                             "caps", "prefix", "arrow"}
BY CodeAssumption

(* A further code changes nothing about the earlier ones.                  *)
LEMMA HistoryGrows ==
  ASSUME KeyTyped, NEW code \in Code \cup {"key"},
         accepted' = accepted \/ accepted' = Append(accepted, code)
  PROVE  /\ Len(accepted) \in Nat
         /\ \A k \in 1..Len(accepted) :
              accepted'[k] = accepted[k] /\ Decode(k)' = Decode(k)
         /\ \A k \in 1..Len(accepted) + 1 :
              /\ Shifted(k)' <=> Shifted(k)
              /\ Before(k, {"caps"})' = Before(k, {"caps"})
<1> DEFINE n == Len(accepted)
<1>1. accepted \in Seq(Code \cup {"key"}) /\ n \in Nat
  BY LenProperties DEF KeyTyped
<1>2. \A k \in 1..n : accepted'[k] = accepted[k]
  BY <1>1, AppendProperties, SMT
<1> HIDE DEF n
<1>3. \A k \in 1..n : IsExtended(k)' <=> IsExtended(k)
  <2> TAKE k \in 1..n
  <2>1. k > 1 => k - 1 \in 1..n
    BY <1>1, SMT
  <2> QED
    BY <1>2, <2>1 DEF IsExtended
<1>4. ASSUME NEW k \in 1..n + 1, NEW kinds
      PROVE  Before(k, kinds)' = Before(k, kinds)
  <2>1. 1..k - 1 \subseteq 1..n
    BY <1>1, SMT
  <2> QED
    BY <1>2, <1>3, <2>1 DEF Before
<1>5. \A k \in 1..n + 1 : /\ Shifted(k)' <=> Shifted(k)
                          /\ Before(k, {"caps"})' = Before(k, {"caps"})
  BY <1>4 DEF Shifted
<1>6. \A k \in 1..n : Decode(k)' = Decode(k)
  <2> TAKE k \in 1..n
  <2>1. k \in 1..n + 1
    BY <1>1, SMT
  <2>2. Capital(k)' <=> Capital(k)
    BY <1>5, <2>1 DEF Capital
  <2> QED
    BY <1>2, <1>3, <2>2 DEF Decode
<1> QED
  BY <1>1, <1>2, <1>5, <1>6 DEF n

LEMMA DoneType ==
  ASSUME KeyTyped, InHand
  PROVE  Done \in Nat /\ Len(accepted) \in Nat /\ Done <= Len(accepted)
<1>1. Len(accepted) \in Nat
  BY LenProperties DEF KeyTyped
<1> QED
  BY <1>1, SMT DEF Done, InHand

(* Steps that handle no code.                                              *)
LEMMA DecodeKept ==
  ASSUME KeyTyped, DecodeInv, NEW code \in Code \cup {"key"},
         accepted' = accepted \/ accepted' = Append(accepted, code),
         Done' = Done, InHand',
         UNCHANGED <<shift_pressed, caps_on, extended, stored, dropped>>
  PROVE  DecodeInv'
<1>1. Done \in Nat /\ Len(accepted) \in Nat /\ Done <= Len(accepted)
  BY DoneType DEF DecodeInv, Remembered
<1>2. /\ \A k \in 1..Len(accepted) :
           accepted'[k] = accepted[k] /\ Decode(k)' = Decode(k)
      /\ \A k \in 1..Len(accepted) + 1 :
           /\ Shifted(k)' <=> Shifted(k)
           /\ Before(k, {"caps"})' = Before(k, {"caps"})
  BY HistoryGrows
<1>3. \A k \in 1..Done : accepted'[k] = accepted[k] /\ Decode(k)' = Decode(k)
  BY <1>1, <1>2, SMT
<1>4. PICK k \in 1..Len(accepted) + 1 : k = Done + 1
  BY <1>1, SMT
<1>5. /\ Shifted(Done + 1)' <=> Shifted(Done + 1)
      /\ Before(Done + 1, {"caps"})' = Before(Done + 1, {"caps"})
  <2>1. (Shifted(k)' <=> Shifted(k)) /\ Before(k, {"caps"})' = Before(k, {"caps"})
    BY <1>2
  <2>2. Done' + 1 = k
    BY <1>4
  <2> QED
    BY <1>4, <2>1, <2>2 DEF Shifted, Before, IsExtended
<1>6. Flags' /\ ShiftSeen' /\ CapsSeen'
  BY <1>5 DEF DecodeInv, Remembered, Flags, ShiftSeen, CapsSeen
<1>7. PrefixSeen'
  <2>1. Done >= 1 => Done \in 1..Done
    BY <1>1, SMT
  <2> QED
    BY <1>3, <2>1 DEF DecodeInv, Remembered, PrefixSeen
<1>8. DecodedSoFar'
  BY <1>3, SMT DEF DecodeInv, DecodedSoFar, Numbers
<1> QED
  BY <1>6, <1>7, <1>8 DEF DecodeInv, Remembered
(* The handler at its last code, number n: what the codes up to it add.    *)
LEMMA OneMore ==
  ASSUME NEW n \in Nat \ {0}, NEW kinds
  PROVE  Before(n + 1, kinds) =
           IF accepted[n] \in kinds /\ ~IsExtended(n)
           THEN Before(n, kinds) \cup {n} ELSE Before(n, kinds)
<1>1. 1..n + 1 - 1 = (1..n - 1) \cup {n}
  BY SMT
<1> QED
  BY <1>1, SMT DEF Before

LEMMA BeforeFinite ==
  ASSUME NEW n \in Nat \ {0}, NEW kinds
  PROVE  /\ IsFiniteSet(Before(n, kinds)) /\ Cardinality(Before(n, kinds)) \in Nat
         /\ Before(n, kinds) \subseteq 1..n - 1
<1>1. Before(n, kinds) \in SUBSET (1..n - 1)
  BY DEF Before
<1>2. IsFiniteSet(1..n - 1)
  BY FS_Interval, SMT
<1> QED
  BY <1>1, <1>2, FS_Subset, FS_CardinalityType

LEMMA OneMoreShift ==
  ASSUME NEW n \in Nat \ {0}
  PROVE  Shifted(n + 1) <=>
           IF IsExtended(n) THEN Shifted(n)
           ELSE accepted[n] = "shift"
                \/ (Shifted(n) /\ accepted[n] # "shift release")
<1> DEFINE D == Before(n, {"shift"})
           U == Before(n, {"shift release"})
<1>1. D \subseteq 1..n - 1 /\ U \subseteq 1..n - 1
  BY BeforeFinite
<1>2. /\ Before(n + 1, {"shift"}) =
           IF accepted[n] = "shift" /\ ~IsExtended(n) THEN D \cup {n} ELSE D
      /\ Before(n + 1, {"shift release"}) =
           IF accepted[n] = "shift release" /\ ~IsExtended(n)
           THEN U \cup {n} ELSE U
  BY OneMore
<1>3. Shifted(n) <=> \E j \in D : \A i \in U : i < j
  BY DEF Shifted
<1>4. Shifted(n + 1) <=> \E j \in Before(n + 1, {"shift"}) :
                            \A i \in Before(n + 1, {"shift release"}) : i < j
  BY DEF Shifted
<1> HIDE DEF D, U
<1>5. CASE accepted[n] = "shift" /\ ~IsExtended(n)
  <2>1. n \in D \cup {n} /\ \A i \in U : i < n
    BY <1>1, SMT
  <2>2. Before(n + 1, {"shift"}) = D \cup {n}
        /\ Before(n + 1, {"shift release"}) = U
    BY <1>2, <1>5
  <2>3. Shifted(n + 1)
    BY <1>4, <2>1, <2>2
  <2> QED
    BY <1>5, <2>3
<1>6. CASE accepted[n] = "shift release" /\ ~IsExtended(n)
  <2>1. \A j \in D : ~(n < j)
    BY <1>1, SMT
  <2>2. Before(n + 1, {"shift"}) = D
        /\ Before(n + 1, {"shift release"}) = U \cup {n}
    BY <1>2, <1>6
  <2>3. ~Shifted(n + 1)
    BY <1>4, <2>1, <2>2
  <2> QED
    BY <1>6, <2>3
<1>7. CASE IsExtended(n) \/ accepted[n] \notin {"shift", "shift release"}
  <2>1. Before(n + 1, {"shift"}) = D /\ Before(n + 1, {"shift release"}) = U
    BY <1>2, <1>7
  <2> QED
    BY <1>3, <1>4, <1>7, <2>1
<1> QED
  BY <1>5, <1>6, <1>7

Odd(n) == Cardinality(Before(n, {"caps"})) % 2 = 1

LEMMA OneMoreCaps ==
  ASSUME NEW n \in Nat \ {0}
  PROVE  Odd(n + 1) <=>
           IF accepted[n] = "caps" /\ ~IsExtended(n) THEN ~Odd(n) ELSE Odd(n)
<1> DEFINE B == Before(n, {"caps"})
<1>1. IsFiniteSet(B) /\ Cardinality(B) \in Nat /\ n \notin B
  BY BeforeFinite, SMT
<1>2. Before(n + 1, {"caps"}) =
        IF accepted[n] = "caps" /\ ~IsExtended(n) THEN B \cup {n} ELSE B
  BY OneMore
<1> HIDE DEF B
<1>3. Cardinality(B \cup {n}) = Cardinality(B) + 1
  BY <1>1, FS_AddElement
<1>4. (Cardinality(B) + 1) % 2 = 1 <=> ~(Cardinality(B) % 2 = 1)
  BY <1>1, SMT
<1>5. Odd(n) <=> Cardinality(B) % 2 = 1
  BY DEF Odd, B
<1>6. CASE accepted[n] = "caps" /\ ~IsExtended(n)
  <2>1. Odd(n + 1) <=> Cardinality(B \cup {n}) % 2 = 1
    BY <1>2, <1>6 DEF Odd
  <2> QED
    BY <1>3, <1>4, <1>5, <1>6, <2>1, SMT
<1>7. CASE ~(accepted[n] = "caps" /\ ~IsExtended(n))
  <2>1. Odd(n + 1) <=> Cardinality(B) % 2 = 1
    BY <1>2, <1>7 DEF Odd
  <2> QED
    BY <1>5, <1>7, <2>1
<1> QED
  BY <1>6, <1>7
(* What the handler does with code number n, from what it remembers.       *)
LEMMA HandlerAt ==
  ASSUME KeyTyped, DecodeInv, HandlerEnds, NEW n, n = Len(accepted)
  PROVE  /\ n \in Nat \ {0} /\ Done = n - 1 /\ Done' = n
         /\ UNCHANGED accepted /\ kb_lock' # Handler
         /\ scan_code = accepted[n]
         /\ scan_code \in {"key", "key release", "shift", "shift release",
                           "caps", "prefix", "arrow"}
         /\ extended <=> n > 1 /\ accepted[n - 1] = "prefix"
         /\ IsExtended(n) <=> extended /\ scan_code # "prefix"
         /\ shift_pressed <=> Shifted(n)
         /\ caps_on <=> Odd(n)
<1>1. /\ kb_lock = Handler /\ kb_lock' = Free
      /\ UNCHANGED <<scan_code, accepted>>
  BY DEF HandlerEnds, Unlocked
<1>2. n \in Nat /\ Len(accepted) >= 1 /\ scan_code = accepted[n]
  BY <1>1, LenProperties DEF DecodeInv, Remembered, InHand, KeyTyped
<1>3. Done = n - 1 /\ Done' = n /\ kb_lock' # Handler /\ Done + 1 = n
  BY <1>1, <1>2, NotACpu, SMT DEF Done
<1>4. scan_code \in {"key", "key release", "shift", "shift release", "caps",
                     "prefix", "arrow"}
  BY CodesAre DEF KeyTyped
<1>5. extended <=> n > 1 /\ accepted[n - 1] = "prefix"
  BY <1>2, <1>3, SMT DEF DecodeInv, Remembered, PrefixSeen
<1>6. IsExtended(n) <=> extended /\ scan_code # "prefix"
  BY <1>2, <1>5 DEF IsExtended
<1>7. (shift_pressed <=> Shifted(n)) /\ (caps_on <=> Odd(n))
  BY <1>3 DEF DecodeInv, Remembered, ShiftSeen, CapsSeen, Odd
<1>8. n \in Nat \ {0}
  BY <1>2, SMT
<1> QED
  BY <1>1, <1>2, <1>3, <1>4, <1>5, <1>6, <1>7, <1>8

LEMMA HandlerRemembers ==
  ASSUME KeyTyped, DecodeInv, HandlerEnds
  PROVE  Remembered'
<1>1. PICK n : n = Len(accepted)
  OBVIOUS
<1>2. /\ n \in Nat \ {0} /\ Done' = n
      /\ UNCHANGED accepted /\ kb_lock' # Handler
      /\ scan_code = accepted[n]
      /\ scan_code \in {"key", "key release", "shift", "shift release",
                        "caps", "prefix", "arrow"}
      /\ IsExtended(n) <=> extended /\ scan_code # "prefix"
      /\ shift_pressed <=> Shifted(n)
      /\ caps_on <=> Odd(n)
  BY <1>1, HandlerAt
<1>3. Flags
  BY DEF DecodeInv, Remembered
<1>4. Shifted(n + 1) <=>
        IF IsExtended(n) THEN Shifted(n)
        ELSE accepted[n] = "shift"
             \/ (Shifted(n) /\ accepted[n] # "shift release")
  BY <1>2, OneMoreShift
<1>5. Odd(n + 1) <=>
        IF accepted[n] = "caps" /\ ~IsExtended(n) THEN ~Odd(n) ELSE Odd(n)
  BY <1>2, OneMoreCaps
<1>6. /\ Flags'
      /\ shift_pressed' <=> Shifted(n + 1)
      /\ caps_on' <=> Odd(n + 1)
      /\ extended' <=> accepted[n] = "prefix"
  <2>1. CASE Prefix
    BY <1>2, <1>3, <1>4, <1>5, <2>1 DEF Prefix, Flags
  <2>2. CASE Extended
    BY <1>2, <1>3, <1>4, <1>5, <2>2 DEF Extended, Flags
  <2>3. CASE Modifier
    <3>1. /\ ~extended /\ extended' = extended
          /\ scan_code \in {"shift", "shift release", "caps"}
          /\ ~IsExtended(n)
      BY <1>2, <2>3 DEF Modifier
    <3>2. caps_on' = (caps_on # (scan_code = "caps"))
      BY <2>3 DEF Modifier
    <3>3. shift_pressed' = CASE scan_code = "shift" -> TRUE
                             [] scan_code = "shift release" -> FALSE
                             [] OTHER -> shift_pressed
      BY <2>3 DEF Modifier
    <3>4. CASE scan_code = "shift"
      BY <1>2, <1>3, <1>4, <1>5, <3>1, <3>2, <3>3, <3>4 DEF Flags
    <3>5. CASE scan_code = "shift release"
      BY <1>2, <1>3, <1>4, <1>5, <3>1, <3>2, <3>3, <3>5 DEF Flags
    <3>6. CASE scan_code = "caps"
      BY <1>2, <1>3, <1>4, <1>5, <3>1, <3>2, <3>3, <3>6 DEF Flags
    <3> QED
      BY <3>1, <3>4, <3>5, <3>6
  <2>4. CASE Plain
    BY <1>2, <1>3, <1>4, <1>5, <2>4 DEF Plain, Flags
  <2> QED
    BY <2>1, <2>2, <2>3, <2>4 DEF HandlerEnds
<1>7. InHand'
  BY <1>2 DEF InHand
<1>8. PrefixSeen'
  <2>1. n \in Nat \ {0} /\ Done' = n /\ accepted' = accepted
    BY <1>2
  <2>2. Done' >= 1 /\ accepted'[Done'] = accepted[n]
    BY <2>1, SMT
  <2> QED
    BY <1>6, <2>2 DEF PrefixSeen
<1>9. (Shifted(n + 1)' <=> Shifted(n + 1)) /\ (Odd(n + 1)' <=> Odd(n + 1))
  BY <1>2 DEF Shifted, Odd, Before, IsExtended
<1>10. ShiftSeen' /\ CapsSeen'
  <2>1. Shifted(Done + 1)' <=> Shifted(n + 1)'
    BY <1>2 DEF Shifted, Before, IsExtended
  <2>2. Before(Done + 1, {"caps"})' = Before(n + 1, {"caps"})'
    BY <1>2 DEF Before, IsExtended
  <2> QED
    BY <1>6, <1>9, <2>1, <2>2 DEF ShiftSeen, CapsSeen, Odd
<1> QED
  BY <1>6, <1>7, <1>8, <1>10 DEF Remembered
(* The branches of the handler push what Decode says, or nothing.          *)
LEMMA HandlerPushes ==
  ASSUME KeyTyped, DecodeInv, HandlerEnds, NEW n, n = Len(accepted)
  PROVE  \/ UNCHANGED bufVars /\ Decode(n) = "none"
         \/ \E c \in {"arrow", "K", "k"} : Push(c) /\ Decode(n) = c
<1>1. /\ scan_code = accepted[n]
      /\ scan_code \in {"key", "key release", "shift", "shift release",
                        "caps", "prefix", "arrow"}
      /\ IsExtended(n) <=> extended /\ scan_code # "prefix"
      /\ shift_pressed <=> Shifted(n)
      /\ caps_on <=> Odd(n)
  BY HandlerAt
<1>2. Capital(n) <=> shift_pressed \/ caps_on
  BY <1>1 DEF Capital, Odd
<1>3. CASE Prefix
  <2>1. Decode(n) = "none"
    BY <1>1, <1>3 DEF Prefix, Decode
  <2> QED
    BY <1>3, <2>1 DEF Prefix
<1>4. CASE Extended
  <2>1. IsExtended(n)
    BY <1>1, <1>4 DEF Extended
  <2>2. Decode(n) = IF scan_code = "arrow" THEN "arrow" ELSE "none"
    BY <1>1, <2>1 DEF Decode
  <2>3. IF scan_code = "arrow" THEN Push("arrow") ELSE UNCHANGED bufVars
    BY <1>4 DEF Extended
  <2> QED
    BY <2>2, <2>3
<1>5. CASE Modifier
  <2>1. Decode(n) = "none"
    BY <1>1, <1>5 DEF Modifier, Decode
  <2> QED
    BY <1>5, <2>1 DEF Modifier
<1>6. CASE Plain
  <2>1. ~IsExtended(n)
    BY <1>1, <1>6 DEF Plain
  <2>2. Decode(n) = IF scan_code = "key"
                    THEN IF Capital(n) THEN "K" ELSE "k" ELSE "none"
    BY <1>1, <2>1 DEF Decode
  <2>3. IF scan_code = "key"
        THEN Push(IF shift_pressed \/ caps_on THEN "K" ELSE "k")
        ELSE UNCHANGED bufVars
    BY <1>6 DEF Plain
  <2>4. CASE scan_code = "key" /\ Capital(n)
    <3>1. (IF shift_pressed \/ caps_on THEN "K" ELSE "k") = "K"
      BY <1>2, <2>4
    <3> QED
      BY <2>2, <2>3, <2>4, <3>1
  <2>5. CASE scan_code = "key" /\ ~Capital(n)
    <3>1. (IF shift_pressed \/ caps_on THEN "K" ELSE "k") = "k"
      BY <1>2, <2>5
    <3> QED
      BY <2>2, <2>3, <2>5, <3>1
  <2>6. CASE scan_code # "key"
    BY <2>2, <2>3, <2>6
  <2> QED
    BY <2>4, <2>5, <2>6
<1> QED
  BY <1>3, <1>4, <1>5, <1>6 DEF HandlerEnds

LEMMA HandlerDecodes ==
  ASSUME KeyTyped, BufTyped, DecodeInv, HandlerEnds
  PROVE  DecodedSoFar'
<1>1. PICK n : n = Len(accepted)
  OBVIOUS
<1>2. n \in Nat \ {0} /\ Done = n - 1 /\ Done' = n /\ accepted' = accepted
  BY <1>1, HandlerAt
<1>3. 1..Done' = (1..Done) \cup {n} /\ n \notin 1..Done
  BY <1>2, SMT
<1>4. \A k : Decode(k)' = Decode(k)
  BY <1>2, SMT DEF Decode, Capital, Shifted, Before, IsExtended
<1>5. /\ dropped \subseteq 1..Done
      /\ \A i \in 1..Len(stored) :
           stored[i].n \in 1..Done /\ stored[i].c = Decode(stored[i].n)
      /\ \A k \in 1..Done : Decode(k) # "none" <=> k \in dropped \cup Numbers
  BY DEF DecodeInv, DecodedSoFar
<1>6. Numbers \subseteq 1..Done
  BY <1>5 DEF Numbers
<1>7. CASE UNCHANGED bufVars /\ Decode(n) = "none"
  <2>1. UNCHANGED <<stored, dropped>> /\ Numbers' = Numbers
    BY <1>7 DEF bufVars, Numbers
  <2>2. \A k \in 1..Done' : Decode(k) # "none" <=> k \in dropped \cup Numbers
    BY <1>3, <1>5, <1>6, <1>7
  <2> QED
    BY <1>3, <1>4, <1>5, <2>1, <2>2 DEF DecodedSoFar
<1>8. ASSUME NEW c \in {"arrow", "K", "k"}, Push(c), Decode(n) = c
      PROVE  DecodedSoFar'
  <2> DEFINE e == [n |-> n, c |-> c]
  <2>1. e \in Key /\ e.n = n /\ e.c = Decode(n) /\ Decode(n) # "none"
    BY <1>2, <1>8 DEF Key
  <2>2. CASE HasRoom
    <3>1. stored' = Append(stored, e) /\ dropped' = dropped
      BY <1>1, <1>8, <2>2 DEF Push
    <3> HIDE DEF e
    <3>2. /\ Len(stored) \in Nat /\ Len(stored') = Len(stored) + 1
          /\ \A i \in 1..Len(stored) : stored'[i] = stored[i]
          /\ stored'[Len(stored) + 1] = e
      BY <2>1, <3>1, AppendProperties, SMT DEF BufTyped
    <3>3. 1..Len(stored') = (1..Len(stored)) \cup {Len(stored) + 1}
      BY <3>2, SMT
    <3>4. Numbers' = Numbers \cup {n}
      BY <2>1, <3>2, <3>3, SMT DEF Numbers
    <3>5. \A i \in 1..Len(stored') :
            stored'[i].n \in 1..Done' /\ stored'[i].c = Decode(stored'[i].n)
      BY <1>3, <1>5, <2>1, <3>2, <3>3
    <3>6. \A k \in 1..Done' :
            Decode(k) # "none" <=> k \in dropped' \cup Numbers'
      BY <1>3, <1>5, <2>1, <3>1, <3>4
    <3> QED
      BY <1>3, <1>4, <1>5, <3>1, <3>5, <3>6 DEF DecodedSoFar
  <2>3. CASE ~HasRoom
    <3>1. stored' = stored /\ dropped' = dropped \cup {n}
      BY <1>1, <1>8, <2>3 DEF Push
    <3>2. Numbers' = Numbers
      BY <3>1 DEF Numbers
    <3>3. \A k \in 1..Done' :
            Decode(k) # "none" <=> k \in dropped' \cup Numbers'
      BY <1>3, <1>5, <2>1, <3>1, <3>2
    <3> QED
      BY <1>3, <1>4, <1>5, <3>1, <3>3 DEF DecodedSoFar
  <2> QED
    BY <2>2, <2>3
<1> QED
  BY <1>1, <1>7, <1>8, HandlerPushes
LEMMA DecodeInit ==
  ASSUME Init
  PROVE  DecodeInv
<1>1. Len(accepted) = 0 /\ Len(stored) = 0 /\ Done = 0 /\ kb_lock # Handler
  BY EmptySeq, NotACpu DEF Init, Done
<1>2. \A kinds : Before(1, kinds) = {}
  BY SMT DEF Before
<1>3. ~Shifted(1) /\ ~Odd(1)
  <2>1. Cardinality(Before(1, {"caps"})) = 0
    BY <1>2, FS_EmptySet
  <2>2. 0 % 2 = 0
    BY SMT
  <2>3. ~Odd(1)
    BY <2>1, <2>2, SMT DEF Odd
  <2>4. ~Shifted(1)
    BY <1>2 DEF Shifted
  <2> QED
    BY <2>3, <2>4
<1>4. Flags /\ InHand /\ PrefixSeen
  <2>1. ~(Done >= 1)
    BY <1>1, SMT
  <2>2. Flags
    BY DEF Init, Flags
  <2>3. InHand
    BY <1>1 DEF InHand
  <2>4. PrefixSeen
    BY <2>1 DEF Init, PrefixSeen
  <2> QED
    BY <2>2, <2>3, <2>4
<1>5. Done + 1 = 1
  BY <1>1, SMT
<1>6. ShiftSeen /\ CapsSeen
  BY <1>3, <1>5 DEF Init, ShiftSeen, CapsSeen, Odd
<1>7. DecodedSoFar
  BY <1>1, SMT DEF Init, DecodedSoFar, Numbers
<1> QED
  BY <1>4, <1>6, <1>7 DEF DecodeInv, Remembered

LEMMA DecodeNext ==
  ASSUME Inv, DecodeInv, [Next]_vars
  PROVE  DecodeInv'
<1>1. KeyTyped /\ BufTyped /\ Len(accepted) \in Nat
  BY LenProperties DEF Inv, KeyTyped
<1>2. CASE HandlerEnds
  BY <1>1, <1>2, HandlerRemembers, HandlerDecodes DEF DecodeInv
<1>3. CASE KeyIsLost
  <2>1. /\ kb_lock # Handler /\ kb_lock' # Handler
        /\ UNCHANGED <<accepted, shift_pressed, caps_on, extended, stored,
                       dropped>>
    BY <1>3, NotACpu DEF KeyIsLost, bufVars
  <2>2. Done' = Done /\ InHand'
    BY <2>1 DEF Done, InHand
  <2>3. "key" \in Code \cup {"key"}
    OBVIOUS
  <2> QED
    BY <1>1, <2>1, <2>2, <2>3, DecodeKept
<1>4. CASE KeyIsTaken
  <2>1. /\ kb_lock # Handler /\ kb_lock' = Handler
        /\ UNCHANGED <<shift_pressed, caps_on, extended, stored, dropped>>
    BY <1>4, NotACpu DEF KeyIsTaken, bufVars
  <2>2. PICK code \in Code :
          scan_code' = code /\ accepted' = Append(accepted, code)
    BY <1>4 DEF KeyIsTaken
  <2>3. code \in Code \cup {"key"}
    OBVIOUS
  <2>4. /\ Len(accepted') = Len(accepted) + 1
        /\ accepted'[Len(accepted) + 1] = code
    BY <1>1, <2>2, <2>3, AppendProperties, SMT DEF KeyTyped
  <2>5. Done' = Done /\ InHand'
    BY <1>1, <2>1, <2>2, <2>4, SMT DEF Done, InHand
  <2> QED
    BY <1>1, <2>1, <2>2, <2>3, <2>5, DecodeKept
<1>5. ASSUME NEW p \in CPU, Lock(p) \/ Read(p) \/ Take(p) \/ Nothing(p)
      PROVE  DecodeInv'
  <2>1. UNCHANGED <<scan_code, accepted, shift_pressed, caps_on, extended,
                    stored, dropped>>
    BY <1>5 DEF Lock, Read, Take, Nothing, keyVars, bufVars
  <2>2. kb_lock # Handler /\ kb_lock' # Handler
    BY <1>5, NotACpu, SMT DEF Lock, Read, Take, Nothing, Inv, Locked
  <2>3. Done' = Done /\ InHand'
    BY <2>1, <2>2 DEF Done, InHand
  <2>4. "key" \in Code \cup {"key"}
    OBVIOUS
  <2> QED
    BY <1>1, <2>1, <2>3, <2>4, DecodeKept
<1>6. CASE UNCHANGED vars
  <2>1. UNCHANGED <<scan_code, accepted, shift_pressed, caps_on, extended,
                    stored, dropped, kb_lock>>
    BY <1>6 DEF vars, keyVars, bufVars
  <2>2. Done' = Done /\ InHand'
    BY <2>1 DEF Done, InHand, DecodeInv, Remembered
  <2>3. "key" \in Code \cup {"key"}
    OBVIOUS
  <2> QED
    BY <1>1, <2>1, <2>2, <2>3, DecodeKept
<1> QED
  BY <1>2, <1>3, <1>4, <1>5, <1>6 DEF Next

(* keyboard_handler, whose memory is two flags and the prefix, stores for  *)
(* every code it is given the character that the whole sequence of codes   *)
(* before it determines, for any number of codes and readers, and forgets  *)
(* one only when key_buffer is full.                                       *)
THEOREM CodesDecoded == Spec => []Decoded
<1>1. Init => DecodeInv
  BY DecodeInit
<1>2. Inv /\ DecodeInv /\ [Next]_vars => DecodeInv'
  BY DecodeNext
<1>3. ASSUME Inv, DecodeInv PROVE Decoded
  <2>1. Done \in Nat /\ Len(accepted) \in Nat
    BY <1>3, DoneType DEF Inv, DecodeInv, Remembered
  <2>2. Handled = 1..Done
    BY <2>1, SMT DEF Handled, Done
  <2>3. {k \in Handled : Decode(k) # "none"} = dropped \cup Numbers
    <3>1. Numbers \subseteq 1..Done
      BY <1>3 DEF DecodeInv, DecodedSoFar, Numbers
    <3> QED
      BY <1>3, <2>2, <3>1 DEF DecodeInv, DecodedSoFar
  <2> QED
    BY <1>3, <2>3 DEF DecodeInv, DecodedSoFar, Decoded, Numbers
<1> QED
  BY <1>1, <1>2, <1>3, Safety, PTL DEF Spec
=============================================================================
