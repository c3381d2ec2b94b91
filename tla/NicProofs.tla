----------------------------- MODULE NicProofs -----------------------------
(***************************************************************************)
(* The network card driver and the card, for any ring size, any number of  *)
(* descriptors and any frames smaller than the ring.                       *)
(***************************************************************************)
EXTENDS Rtl8139, SequenceTheorems, TLAPS

Offset == 0..RX_BUF_SIZE - 1
Frame == [id : Nat, size : Sizes, at : Offset]

(* How far a lies behind o in the ring.                                    *)
Dist(o, a) == IF a >= o THEN a - o ELSE a - o + RX_BUF_SIZE

(* The frames u lie back to back from o to c, one round of the ring.       *)
Laid(o, c, u) ==
  /\ \A k \in 1..Len(u) :
       Dist(o, u[k].at) + Entry(u[k].size)
         = IF k = Len(u) THEN Dist(o, c) ELSE Dist(o, u[k + 1].at)
  /\ \A k \in 1..Len(u) : Dist(o, u[k].at) + Entry(u[k].size) <= Dist(o, c)
  /\ \A j, k \in 1..Len(u) :
       j < k => Dist(o, u[j].at) + Entry(u[j].size) <= Dist(o, u[k].at)
  /\ o = IF u = <<>> THEN c ELSE u[1].at

(* The part of f before the end of the ring is in the buffer b.            *)
Intact(b, f) ==
  \A i \in 0..f.size :
    f.at + i < RX_BUF_SIZE => b[f.at + i] = Word(f.id, i, f.size)

RxTyped ==
  /\ rx_offset \in Offset /\ cbr \in Offset /\ capr \in Offset
  /\ capr = Capr(rx_offset)
  /\ unread \in Seq(Frame)
  /\ received \in 0..MaxFrames
  /\ pc \in {"idle", "header", "copied", "send"}

(* What rtl8139_recv has read is the oldest frame.                         *)
Reading ==
  /\ pc \in {"header", "copied"} => unread # <<>>
  /\ pc = "header" => got = [len |-> unread[1].size, data |-> <<>>]
  /\ pc = "copied" => got.len = unread[1].size
  /\ DeliveredIntact

(* The driver and the card at the descriptors: the card owns at most the   *)
(* one that the driver uses next, and what it holds is younger than all    *)
(* that was transmitted.                                                   *)
TxTyped ==
  /\ tx_next_idx \in Desc /\ currTxDesc \in Desc
  /\ tx_buf \in [Desc -> Nat]
  /\ tx_status \in [Desc -> {"host", "card", "sent"}]
  /\ calls \in 0..MaxSends
  /\ wire \in Seq(Nat)

OnWire(n) == \E k \in 1..Len(wire) : wire[k] = n

Queued ==
  /\ \A d \in Desc : tx_status[d] = "card" => d = tx_next_idx
  /\ \A k \in 1..Len(wire) : wire[k] <= calls
  /\ tx_status[tx_next_idx] = "card" =>
       /\ tx_buf[tx_next_idx] <= calls
       /\ \A k \in 1..Len(wire) : wire[k] < tx_buf[tx_next_idx]

Sending ==
  pc = "send" =>
    /\ tx_buf[tx_next_idx] = calls
    /\ \/ tx_status[tx_next_idx] = "card"
       \/ tx_status[tx_next_idx] = "sent" /\ OnWire(calls)

Together ==
  ~late =>
    \/ /\ tx_next_idx = currTxDesc
       /\ pc = "send" <=> tx_status[tx_next_idx] = "card"
    \/ /\ currTxDesc = NextDesc(tx_next_idx)
       /\ pc = "send" /\ tx_status[tx_next_idx] = "sent"

TxInv == TxTyped /\ SendHonest /\ Queued /\ Sending /\ Together

RxInv ==
  /\ RxTyped
  /\ Laid(rx_offset, cbr, unread)
  /\ \A k \in 1..Len(unread) : Intact(rx_buf, unread[k])
  /\ Reading
-----------------------------------------------------------------------------
(* The leaves are for Zenon, unless they cite SMT.                         *)
USE Zenon

LEMMA Wraps ==
  ASSUME NEW a \in Int, 0 <= a, a < 2 * RX_BUF_SIZE
  PROVE  Ring(a) = IF a < RX_BUF_SIZE THEN a ELSE a - RX_BUF_SIZE
<1>1. RX_BUF_SIZE \in Nat \ {0}
  BY NicAssumption, SMT
<1>2. CASE a < RX_BUF_SIZE
  <2>1. a % RX_BUF_SIZE = a
    BY <1>1, <1>2, SMT
  <2> QED
    BY <1>2, <2>1 DEF Ring
<1>3. CASE ~(a < RX_BUF_SIZE)
  <2>1. a \in RX_BUF_SIZE..2 * RX_BUF_SIZE - 1
    BY <1>1, <1>3, SMT
  <2>2. a % RX_BUF_SIZE = a - RX_BUF_SIZE
    BY <1>1, <2>1, SMT
  <2> QED
    BY <1>3, <2>2 DEF Ring
<1> QED
  BY <1>2, <1>3

(* The card reads from CAPR, less the 16 bytes, where the driver is.       *)
LEMMA CaprRoundTrip ==
  ASSUME NEW o \in Offset
  PROVE  Capr(o) \in Offset /\ Ring(Capr(o) + 4) = o
<1>1. Capr(o) = IF o < 4 THEN o + RX_BUF_SIZE - 4 ELSE o - 4
  BY Wraps, NicAssumption, SMT DEF Capr, Offset
<1>2. Capr(o) + 4 >= 0 /\ Capr(o) + 4 < 2 * RX_BUF_SIZE
  BY <1>1, NicAssumption, SMT DEF Offset
<1> QED
  BY <1>1, <1>2, Wraps, NicAssumption, SMT DEF Offset

(* A step of e < RX_BUF_SIZE words through the ring.                       *)
LEMMA Moves ==
  ASSUME NEW o \in Offset, NEW a \in Offset, NEW e \in Nat,
         Dist(o, a) + e < RX_BUF_SIZE
  PROVE  /\ Ring(a + e) \in Offset
         /\ Dist(o, Ring(a + e)) = Dist(o, a) + e
<1>1. a + e < 2 * RX_BUF_SIZE
  BY NicAssumption, SMT DEF Dist, Offset
<1>2. Ring(a + e) = IF a + e < RX_BUF_SIZE THEN a + e ELSE a + e - RX_BUF_SIZE
  BY <1>1, Wraps, NicAssumption, SMT DEF Offset
<1> QED
  BY <1>1, <1>2, NicAssumption, SMT DEF Dist, Offset

LEMMA OffsetIs ==
  ASSUME NEW d \in Offset
  PROVE  d \in Nat /\ d < RX_BUF_SIZE
BY NicAssumption, SMT DEF Offset

LEMMA DistType ==
  ASSUME NEW o \in Offset, NEW a \in Offset
  PROVE  /\ Dist(o, a) \in Offset
         /\ Dist(o, a) = 0 <=> a = o
         /\ \A b \in Offset : Dist(o, a) = Dist(o, b) => a = b
BY NicAssumption, SMT DEF Dist, Offset

(* From another origin, not beyond a.                                      *)
LEMMA Rebase ==
  ASSUME NEW o \in Offset, NEW p \in Offset, NEW a \in Offset,
         Dist(o, p) <= Dist(o, a)
  PROVE  Dist(p, a) = Dist(o, a) - Dist(o, p)
BY NicAssumption, SMT DEF Dist, Offset

LEMMA EntryType ==
  ASSUME NEW size \in Sizes
  PROVE  Entry(size) \in Nat /\ Entry(size) = size + 2 /\ size \in Nat
         /\ size > 0 /\ Entry(size) < RX_BUF_SIZE
BY NicAssumption, SMT DEF Entry

LEMMA FrameType ==
  ASSUME NEW u \in Seq(Frame), NEW k \in 1..Len(u), NEW o \in Offset
  PROVE  /\ u[k].at \in Offset /\ u[k].size \in Sizes
         /\ Dist(o, u[k].at) \in Nat /\ Entry(u[k].size) \in Nat
<1>1. u[k] \in Frame
  BY ElementOfSeq
<1>2. u[k].at \in Offset /\ u[k].size \in Sizes
  BY <1>1 DEF Frame
<1>3. Dist(o, u[k].at) \in Offset /\ Entry(u[k].size) \in Nat
  BY <1>2, DistType, EntryType
<1> QED
  BY <1>2, <1>3, SMT DEF Offset
-----------------------------------------------------------------------------
(* The card's view of the room that is left.                               *)
LEMMA RoomLeft ==
  ASSUME RxTyped
  PROVE  /\ RxBufPtr = rx_offset
         /\ Avail = IF rx_offset = cbr THEN 0
                    ELSE RX_BUF_SIZE - Dist(rx_offset, cbr)
<1>1. RxBufPtr = rx_offset
  BY CaprRoundTrip DEF RxTyped, RxBufPtr
<1>2. /\ RX_BUF_SIZE + rx_offset - cbr >= 0
      /\ RX_BUF_SIZE + rx_offset - cbr < 2 * RX_BUF_SIZE
      /\ RX_BUF_SIZE + rx_offset - cbr \in Int
  BY NicAssumption, SMT DEF RxTyped, Offset
<1>3. Avail = IF RX_BUF_SIZE + rx_offset - cbr < RX_BUF_SIZE
              THEN RX_BUF_SIZE + rx_offset - cbr ELSE rx_offset - cbr
  BY <1>1, <1>2, Wraps, NicAssumption, SMT DEF Avail, RxTyped, Offset
<1> QED
  BY <1>1, <1>3, NicAssumption, SMT DEF RxTyped, Offset, Dist

(* One more frame behind the others.                                       *)
LEMMA LaidAppend ==
  ASSUME NEW o \in Offset, NEW c \in Offset, NEW u \in Seq(Frame),
         Laid(o, c, u), NEW n \in Nat, NEW size \in Sizes,
         Dist(o, c) + Entry(size) < RX_BUF_SIZE
  PROVE  Laid(o, Ring(c + Entry(size)),
              Append(u, [id |-> n, size |-> size, at |-> c]))
<1> DEFINE f == [id |-> n, size |-> size, at |-> c]
           v == Append(u, f)
           d == Ring(c + Entry(size))
<1>1. Dist(o, d) = Dist(o, c) + Entry(size) /\ d \in Offset
  BY Moves, EntryType
<1>2. f \in Frame /\ f.at = c /\ f.size = size
  BY DEF Frame
<1> HIDE DEF f, d
<1>3. /\ Len(u) \in Nat /\ Len(v) = Len(u) + 1 /\ v[Len(v)] = f /\ v # <<>>
      /\ \A k \in 1..Len(u) : v[k] = u[k]
  BY <1>2, SMT
<1> HIDE DEF v
<1>4. /\ Dist(o, c) \in Nat /\ Entry(size) \in Nat
      /\ \A k \in 1..Len(u) :
           Dist(o, u[k].at) \in Nat /\ Entry(u[k].size) \in Nat
  <2>1. Dist(o, c) \in Nat /\ Entry(size) \in Nat
    BY DistType, EntryType, SMT DEF Offset
  <2> QED
    BY <2>1, FrameType
<1>5. \A k \in 1..Len(v) : Dist(o, v[k].at) + Entry(v[k].size)
         = IF k = Len(v) THEN Dist(o, d) ELSE Dist(o, v[k + 1].at)
  <2> SUFFICES ASSUME NEW k \in 1..Len(v)
               PROVE  Dist(o, v[k].at) + Entry(v[k].size)
                        = IF k = Len(v) THEN Dist(o, d) ELSE Dist(o, v[k + 1].at)
    OBVIOUS
  <2>1. CASE k = Len(v)
    BY <1>1, <1>2, <1>3, <2>1
  <2>2. CASE k = Len(u)
    BY <1>2, <1>3, <2>2, SMT DEF Laid
  <2>3. CASE k < Len(u)
    BY <1>3, <2>3, SMT DEF Laid
  <2> QED
    BY <1>3, <2>1, <2>2, <2>3, SMT
<1>6. \A k \in 1..Len(v) :
        Dist(o, v[k].at) + Entry(v[k].size) <= Dist(o, d)
  <2> SUFFICES ASSUME NEW k \in 1..Len(v)
               PROVE  Dist(o, v[k].at) + Entry(v[k].size) <= Dist(o, d)
    OBVIOUS
  <2>1. CASE k = Len(v)
    BY <1>1, <1>2, <1>3, <1>4, <2>1, SMT
  <2>2. CASE k \in 1..Len(u)
    <3>1. Dist(o, u[k].at) + Entry(u[k].size) <= Dist(o, c) /\ v[k] = u[k]
      BY <1>3, <2>2 DEF Laid
    <3> QED
      BY <1>1, <1>4, <2>2, <3>1, SMT
  <2> QED
    BY <1>3, <2>1, <2>2, SMT
<1>7. \A j, k \in 1..Len(v) :
        j < k => Dist(o, v[j].at) + Entry(v[j].size) <= Dist(o, v[k].at)
  <2> SUFFICES ASSUME NEW j \in 1..Len(v), NEW k \in 1..Len(v), j < k
               PROVE  Dist(o, v[j].at) + Entry(v[j].size) <= Dist(o, v[k].at)
    OBVIOUS
  <2>1. j \in 1..Len(u)
    BY <1>3, SMT
  <2>2. CASE k = Len(v)
    BY <1>2, <1>3, <2>1, <2>2 DEF Laid
  <2>3. CASE k \in 1..Len(u)
    BY <1>3, <2>1, <2>3 DEF Laid
  <2> QED
    BY <1>3, <2>2, <2>3, SMT
<1>8. o = v[1].at
  <2>1. CASE u = <<>>
    BY <1>2, <1>3, <2>1, SMT DEF Laid
  <2>2. CASE u # <<>>
    BY <1>3, <2>2, SMT DEF Laid
  <2> QED
    BY <2>1, <2>2
<1>9. Laid(o, d, v)
  BY <1>3, <1>5, <1>6, <1>7, <1>8 DEF Laid
<1> QED
  BY <1>9 DEF d, v, f

LEMMA TailSeq ==
  ASSUME NEW S, NEW u \in Seq(S), Len(u) > 0
  PROVE  LET v == SubSeq(u, 2, Len(u))
         IN  /\ v \in Seq(S) /\ Len(v) = Len(u) - 1
             /\ \A k \in 1..Len(v) : v[k] = u[k + 1]
<1>1. Len(u) \in Nat
  BY SMT
<1>2. \A i \in 2..Len(u) : u[i] \in S
  BY ElementOfSeq, <1>1, SMT
<1> DEFINE v == SubSeq(u, 2, Len(u))
<1>3. /\ v \in Seq(S)
      /\ Len(v) = IF 2 <= Len(u) THEN Len(u) - 2 + 1 ELSE 0
      /\ \A i \in 1..Len(u) - 2 + 1 : v[i] = u[2 + i - 1]
  BY <1>1, <1>2, SubSeqProperties, SMT
<1> HIDE DEF v
<1>4. Len(v) = Len(u) - 1
  <2>1. CASE Len(u) = 1
    BY <1>3, <2>1, SMT
  <2>2. CASE 2 <= Len(u)
    BY <1>1, <1>3, <2>2, SMT
  <2>3. \A m \in Nat : m > 0 => m = 1 \/ 2 <= m
    BY SMT
  <2> QED
    BY <1>1, <2>1, <2>2, <2>3
<1>5. \A k \in 1..Len(v) : v[k] = u[k + 1]
  <2> TAKE k \in 1..Len(v)
  <2>1. k \in 1..Len(u) - 2 + 1 /\ 2 + k - 1 = k + 1
    BY <1>1, <1>4, SMT
  <2> QED
    BY <1>3, <2>1
<1> QED
  BY <1>3, <1>4, <1>5 DEF v

(* The oldest frame is gone.                                               *)
LEMMA LaidTail ==
  ASSUME NEW o \in Offset, NEW c \in Offset, NEW u \in Seq(Frame),
         Laid(o, c, u), u # <<>>
  PROVE  /\ Ring(o + Entry(u[1].size)) \in Offset
         /\ Laid(Ring(o + Entry(u[1].size)), c, SubSeq(u, 2, Len(u)))
<1> DEFINE p == Ring(o + Entry(u[1].size))
           v == SubSeq(u, 2, Len(u))
<1>1. Len(u) \in Nat /\ Len(u) > 0
  BY SMT
<1>2. \A k \in 1..Len(u) :
        u[k].at \in Offset /\ u[k].size \in Sizes
  BY FrameType
<1>3. /\ Dist(o, c) \in Offset
      /\ \A k \in 1..Len(u) :
           Dist(o, u[k].at) \in Nat /\ Entry(u[k].size) \in Nat
  BY DistType, FrameType
<1>4. u[1].at = o /\ Dist(o, o) = 0
  BY DistType DEF Laid
<1>5. p \in Offset /\ Dist(o, p) = Entry(u[1].size)
  <2>1. 0 + Entry(u[1].size) <= Dist(o, c)
    BY <1>1, <1>4, SMT DEF Laid
  <2>2. Dist(o, o) + Entry(u[1].size) < RX_BUF_SIZE
    BY <1>1, <1>3, <1>4, <2>1, NicAssumption, SMT DEF Offset
  <2> QED
    BY <1>1, <1>3, <1>4, <2>2, Moves, SMT
<1> HIDE DEF p
<1>6. v \in Seq(Frame) /\ Len(v) = Len(u) - 1
      /\ \A k \in 1..Len(v) : v[k] = u[k + 1]
  BY <1>1, TailSeq
<1> HIDE DEF v
<1>7. v = <<>> <=> Len(u) = 1
  <2>1. Len(v) = 0 <=> Len(u) = 1
    BY <1>1, <1>6, SMT
  <2>2. v # <<>> => Len(v) # 0
    BY <1>6, EmptySeq
  <2>3. v = <<>> => Len(v) = 0
    BY EmptySeq
  <2> QED
    BY <2>1, <2>2, <2>3
<1>8. /\ Dist(o, p) <= Dist(o, c)
      /\ \A k \in 2..Len(u) : Dist(o, p) <= Dist(o, u[k].at)
  <2>1. Dist(o, u[1].at) = 0
    BY <1>4
  <2> QED
    BY <1>1, <1>3, <1>5, <2>1, SMT DEF Laid
<1>9. /\ Dist(p, c) = Dist(o, c) - Dist(o, p)
      /\ \A k \in 2..Len(u) : Dist(p, u[k].at) = Dist(o, u[k].at) - Dist(o, p)
  BY <1>1, <1>2, <1>5, <1>8, Rebase, SMT
<1>10. Dist(o, p) \in Nat /\ Dist(o, c) \in Nat
  BY <1>1, <1>3, <1>5, SMT DEF Offset
<1>11. \A k \in 1..Len(v) : Dist(p, v[k].at) + Entry(v[k].size)
         = IF k = Len(v) THEN Dist(p, c) ELSE Dist(p, v[k + 1].at)
  <2> SUFFICES ASSUME NEW k \in 1..Len(v)
               PROVE  Dist(p, v[k].at) + Entry(v[k].size)
                        = IF k = Len(v) THEN Dist(p, c) ELSE Dist(p, v[k + 1].at)
    OBVIOUS
  <2>1. k + 1 \in 2..Len(u) /\ v[k] = u[k + 1] /\ k + 1 \in 1..Len(u)
    BY <1>1, <1>6, SMT
  <2>2. Dist(o, u[k + 1].at) + Entry(u[k + 1].size)
          = IF k + 1 = Len(u) THEN Dist(o, c) ELSE Dist(o, u[k + 1 + 1].at)
    BY <2>1, SMT DEF Laid
  <2>3. CASE k = Len(v)
    <3>1. Dist(o, u[k + 1].at) + Entry(u[k + 1].size) = Dist(o, c)
      BY <1>1, <1>6, <2>2, <2>3, SMT
    <3>2. Dist(p, v[k].at) = Dist(o, u[k + 1].at) - Dist(o, p)
      BY <1>9, <2>1
    <3>3. Dist(o, u[k + 1].at) \in Nat /\ Entry(u[k + 1].size) \in Nat
      BY <1>3, <2>1
    <3> QED
      BY <1>9, <1>10, <2>1, <2>3, <3>1, <3>2, <3>3, SMT
  <2>4. CASE k # Len(v)
    <3>1. k + 1 \in 1..Len(v) /\ k + 1 + 1 \in 2..Len(u)
          /\ v[k + 1] = u[k + 1 + 1] /\ k + 1 + 1 \in 1..Len(u)
      BY <1>1, <1>6, <2>4, SMT
    <3>2. Dist(o, u[k + 1].at) + Entry(u[k + 1].size)
            = Dist(o, u[k + 1 + 1].at)
      BY <1>1, <1>6, <2>2, <2>4, SMT
    <3>3. /\ Dist(p, v[k].at) = Dist(o, u[k + 1].at) - Dist(o, p)
          /\ Dist(p, v[k + 1].at) = Dist(o, u[k + 1 + 1].at) - Dist(o, p)
      BY <1>9, <2>1, <3>1
    <3>4. /\ Dist(o, u[k + 1].at) \in Nat /\ Entry(u[k + 1].size) \in Nat
          /\ Dist(o, u[k + 1 + 1].at) \in Nat
      BY <1>3, <2>1, <3>1
    <3> QED
      BY <1>10, <2>1, <2>4, <3>2, <3>3, <3>4, SMT
  <2> QED
    BY <2>3, <2>4
<1>12. \A k \in 1..Len(v) :
         Dist(p, v[k].at) + Entry(v[k].size) <= Dist(p, c)
  <2> SUFFICES ASSUME NEW k \in 1..Len(v)
               PROVE  Dist(p, v[k].at) + Entry(v[k].size) <= Dist(p, c)
    OBVIOUS
  <2>1. k + 1 \in 2..Len(u) /\ v[k] = u[k + 1]
    BY <1>1, <1>6, SMT
  <2>2. Dist(o, u[k + 1].at) + Entry(u[k + 1].size) <= Dist(o, c)
    BY <2>1, SMT DEF Laid
  <2>3. Dist(p, v[k].at) = Dist(o, u[k + 1].at) - Dist(o, p)
    BY <1>9, <2>1
  <2>4. Dist(o, u[k + 1].at) \in Nat /\ Entry(u[k + 1].size) \in Nat
    BY <1>3, <2>1, SMT
  <2> QED
    BY <1>9, <1>10, <2>1, <2>2, <2>3, <2>4, SMT
<1>13. \A j, k \in 1..Len(v) :
         j < k => Dist(p, v[j].at) + Entry(v[j].size) <= Dist(p, v[k].at)
  <2> SUFFICES ASSUME NEW j \in 1..Len(v), NEW k \in 1..Len(v), j < k
               PROVE  Dist(p, v[j].at) + Entry(v[j].size) <= Dist(p, v[k].at)
    OBVIOUS
  <2>1. /\ k + 1 \in 2..Len(u) /\ v[k] = u[k + 1]
        /\ j + 1 \in 2..Len(u) /\ v[j] = u[j + 1]
        /\ j + 1 < k + 1
    BY <1>1, <1>6, SMT
  <2>2. Dist(o, u[j + 1].at) + Entry(u[j + 1].size) <= Dist(o, u[k + 1].at)
    BY <2>1, SMT DEF Laid
  <2>3. /\ Dist(p, v[j].at) = Dist(o, u[j + 1].at) - Dist(o, p)
        /\ Dist(p, v[k].at) = Dist(o, u[k + 1].at) - Dist(o, p)
    BY <1>9, <2>1
  <2>4. j + 1 \in 1..Len(u) /\ k + 1 \in 1..Len(u)
    BY <1>1, <2>1, SMT
  <2>5. Dist(o, u[j + 1].at) \in Nat /\ Entry(u[j + 1].size) \in Nat
    BY <1>3, <2>4
  <2>6. Dist(o, u[k + 1].at) \in Nat
    BY <1>3, <2>4
  <2> QED
    BY <1>10, <2>1, <2>2, <2>3, <2>5, <2>6, SMT
<1>14. p = IF v = <<>> THEN c ELSE v[1].at
  <2>1. Dist(o, u[1].at) + Entry(u[1].size)
          = IF 1 = Len(u) THEN Dist(o, c) ELSE Dist(o, u[2].at)
    <3>1. PICK i \in 1..Len(u) : i = 1
      BY <1>1, SMT
    <3>2. Dist(o, u[i].at) + Entry(u[i].size)
            = IF i = Len(u) THEN Dist(o, c) ELSE Dist(o, u[i + 1].at)
      BY DEF Laid
    <3> QED
      BY <3>1, <3>2, SMT
  <2>2. Dist(o, p) = IF 1 = Len(u) THEN Dist(o, c) ELSE Dist(o, u[2].at)
    BY <1>1, <1>3, <1>4, <1>5, <2>1, SMT
  <2>3. CASE Len(u) = 1
    BY <1>5, <1>7, <2>2, <2>3, DistType, SMT
  <2>4. CASE Len(u) # 1
    <3>1. v[1] = u[2] /\ u[2].at \in Offset
      BY <1>1, <1>2, <1>6, <2>4, SMT
    <3> QED
      BY <1>5, <1>7, <2>2, <2>4, <3>1, DistType, SMT
  <2> QED
    BY <2>3, <2>4
<1>15. Laid(p, c, v)
  BY <1>11, <1>12, <1>13, <1>14 DEF Laid
<1> QED
  BY <1>5, <1>15 DEF p, v
-----------------------------------------------------------------------------
(* A frame that ends before c does not reach what is stored from c on.     *)
LEMMA Apart ==
  ASSUME NEW o \in Offset, NEW c \in Offset, NEW b \in Offset,
         NEW s \in Nat, NEW i \in 0..s, NEW size \in Nat,
         b + i < RX_BUF_SIZE,
         Dist(o, b) + (s + 2) <= Dist(o, c),
         Dist(o, c) + (size + 2) < RX_BUF_SIZE
  PROVE  b + i \notin c..c + size
<1>1. CASE b >= o /\ c >= o
  BY <1>1, NicAssumption, SMT DEF Dist, Offset
<1>2. CASE b >= o /\ c < o
  BY <1>2, NicAssumption, SMT DEF Dist, Offset
<1>3. CASE b < o /\ c < o
  BY <1>3, NicAssumption, SMT DEF Dist, Offset
<1>4. CASE b < o /\ c >= o
  BY <1>4, NicAssumption, SMT DEF Dist, Offset
<1> QED
  BY <1>1, <1>2, <1>3, <1>4, SMT DEF Offset

(* The card stores a frame, over none that is unread.                      *)
LEMMA CardReceivesKeeps ==
  ASSUME RxInv, NEW size \in Sizes, CardReceives(size)
  PROVE  RxInv'
<1> DEFINE o == rx_offset
           c == cbr
           n == received + 1
           f == [id |-> n, size |-> size, at |-> c]
<1>1. /\ o \in Offset /\ c \in Offset /\ unread \in Seq(Frame)
      /\ Laid(o, c, unread) /\ received \in 0..MaxFrames
  BY DEF RxInv, RxTyped
<1>2. /\ received < MaxFrames /\ received' = n
      /\ Avail = 0 \/ Entry(size) < Avail
      /\ \A a \in Cell : rx_buf'[a] = IF a \in c..c + size
                                      THEN Word(n, a - c, size) ELSE rx_buf[a]
      /\ cbr' = Ring(c + Entry(size))
      /\ unread' = Append(unread, f)
      /\ UNCHANGED <<rx_offset, capr, got, pc>>
  BY DEF CardReceives
<1>3. n \in 0..MaxFrames /\ f \in Frame /\ n \in Nat
  BY <1>1, <1>2, NicAssumption, SMT DEF Frame
<1>4. /\ Dist(o, c) \in Nat /\ Entry(size) = size + 2
      /\ size \in Nat /\ Dist(o, c) + Entry(size) < RX_BUF_SIZE
  <2>1. Avail = IF o = c THEN 0 ELSE RX_BUF_SIZE - Dist(o, c)
    BY RoomLeft DEF RxInv
  <2>2. Dist(o, c) \in Nat /\ (Dist(o, c) = 0 <=> c = o)
        /\ Dist(o, c) < RX_BUF_SIZE
    <3>1. Dist(o, c) \in Offset /\ (Dist(o, c) = 0 <=> c = o)
      BY <1>1, DistType
    <3> QED
      BY <3>1, OffsetIs
  <2>3. Entry(size) = size + 2 /\ size \in Nat /\ Entry(size) < RX_BUF_SIZE
    BY EntryType
  <2> QED
    BY <1>2, <2>1, <2>2, <2>3, NicAssumption, SMT
<1>5. cbr' \in Offset /\ Laid(rx_offset, cbr, unread)'
  <2>1. Ring(c + Entry(size)) \in Offset
    BY <1>1, <1>4, Moves, SMT
  <2>2. Laid(o, Ring(c + Entry(size)), Append(unread, f))
    BY <1>1, <1>3, <1>4, LaidAppend
  <2> QED
    BY <1>2, <2>1, <2>2
<1>6. /\ unread' \in Seq(Frame) /\ Len(unread') = Len(unread) + 1
      /\ \A k \in 1..Len(unread) : unread'[k] = unread[k]
      /\ unread'[Len(unread) + 1] = f /\ unread' # <<>> /\ Len(unread) \in Nat
  BY <1>1, <1>2, <1>3, AppendProperties, SMT
<1>7. RxTyped'
  BY <1>2, <1>3, <1>5, <1>6 DEF RxInv, RxTyped, Capr, Ring
<1>8. Intact(rx_buf', f)
  <2> SUFFICES ASSUME NEW i \in 0..size, c + i < RX_BUF_SIZE
               PROVE  rx_buf'[c + i] = Word(n, i, size)
    BY DEF Intact
  <2>1. c + i \in Cell /\ c + i \in c..c + size /\ c + i - c = i
    BY <1>1, <1>4, NicAssumption, SMT DEF Cell, Offset
  <2>2. PICK a \in Cell : a = c + i
    BY <2>1
  <2>3. rx_buf'[a] = Word(n, a - c, size)
    BY <1>2, <2>1, <2>2
  <2>4. a - c = i
    BY <1>1, <2>2, NicAssumption, SMT DEF Offset
  <2> QED
    BY <2>2, <2>3, <2>4
<1>9. \A k \in 1..Len(unread) : Intact(rx_buf', unread[k])
  <2> SUFFICES ASSUME NEW k \in 1..Len(unread),
                      NEW i \in 0..unread[k].size,
                      unread[k].at + i < RX_BUF_SIZE
               PROVE  rx_buf'[unread[k].at + i]
                        = Word(unread[k].id, i, unread[k].size)
    BY DEF Intact
  <2> DEFINE a == unread[k].at + i
  <2>1. /\ unread[k].at \in Offset /\ unread[k].size \in Sizes
        /\ unread[k].size \in Nat
        /\ Entry(unread[k].size) = unread[k].size + 2
    BY <1>1, FrameType, EntryType
  <2>2. rx_buf[a] = Word(unread[k].id, i, unread[k].size)
    BY DEF RxInv, Intact
  <2>3. a \in Offset
    BY <2>1, NicAssumption, SMT DEF Offset
  <2>4. Dist(o, unread[k].at) + Entry(unread[k].size) <= Dist(o, c)
    BY <1>1 DEF Laid
  <2>5. a \notin c..c + size
    BY <1>1, <1>4, <2>1, <2>4, Apart
  <2>6. a \in Cell
    BY <2>3, NicAssumption, SMT DEF Cell, Offset
  <2> QED
    BY <1>2, <2>2, <2>5, <2>6
<1>10. \A k \in 1..Len(unread') : Intact(rx_buf', unread'[k])
  <2> TAKE k \in 1..Len(unread')
  <2>1. k \in 1..Len(unread) \/ k = Len(unread) + 1
    BY <1>6, SMT
  <2> QED
    BY <1>6, <1>8, <1>9, <2>1
<1>11. Reading'
  <2>1. unread # <<>> => unread'[1] = unread[1] /\ Head(unread') = Head(unread)
    <3>1. unread # <<>> => 1 \in 1..Len(unread)
      BY <1>1, EmptySeq, SMT
    <3>2. unread # <<>> => unread'[1] = unread[1]
      BY <1>6, <3>1
    <3>3. /\ Head(unread') = unread'[1]
          /\ unread # <<>> => Head(unread) = unread[1]
      BY <1>1, <1>6, SMT
    <3> QED
      BY <3>2, <3>3
  <2> QED
    BY <1>2, <1>6, <2>1 DEF RxInv, Reading, DeliveredIntact, Crosses
<1> QED
  BY <1>5, <1>7, <1>10, <1>11 DEF RxInv, Intact

(* The driver reads the header of the oldest frame,                        *)
LEMMA RecvReadsKeeps ==
  ASSUME RxInv, RecvReads
  PROVE  RxInv'
<1>1. /\ UNCHANGED <<rx_buf, rx_offset, cbr, capr, unread, received>>
      /\ pc' = "header" /\ rx_offset # cbr
      /\ got' = [len |-> rx_buf[rx_offset].len, data |-> <<>>]
  BY DEF RecvReads
<1>2. unread # <<>> /\ rx_offset = unread[1].at /\ 1 \in 1..Len(unread)
  <2>1. unread # <<>> /\ rx_offset = unread[1].at
    BY <1>1 DEF RxInv, Laid
  <2> QED
    BY <2>1, EmptySeq, SMT DEF RxInv, RxTyped
<1>3. rx_buf[rx_offset].len = unread[1].size
  <2>1. unread[1].at \in Offset /\ unread[1].size \in Nat
    BY <1>2, FrameType, EntryType DEF RxInv, RxTyped
  <2>2. Intact(rx_buf, unread[1])
    BY <1>2 DEF RxInv
  <2>3. 0 \in 0..unread[1].size /\ unread[1].at + 0 = unread[1].at
        /\ unread[1].at + 0 < RX_BUF_SIZE
    BY <2>1, NicAssumption, SMT DEF Offset
  <2>4. rx_buf[unread[1].at + 0] = Word(unread[1].id, 0, unread[1].size)
    BY <2>2, <2>3 DEF Intact
  <2> QED
    BY <1>2, <2>3, <2>4, SMT DEF Word
<1>4. Reading'
  BY <1>1, <1>2, <1>3 DEF Reading, DeliveredIntact
<1>5. RxTyped'
  BY <1>1 DEF RxInv, RxTyped, Capr, Ring
<1> QED
  BY <1>1, <1>4, <1>5 DEF RxInv

(* its data,                                                               *)
LEMMA RecvCopiesKeeps ==
  ASSUME RxInv, RecvCopies
  PROVE  RxInv'
<1> DEFINE f == unread[1]
<1>1. /\ UNCHANGED <<rx_buf, rx_offset, cbr, capr, unread, received>>
      /\ pc = "header" /\ pc' = "copied"
      /\ got' = [got EXCEPT !.data = Copy(rx_offset, got.len)]
  BY DEF RecvCopies
<1>2. unread # <<>> /\ got = [len |-> f.size, data |-> <<>>]
  BY <1>1 DEF RxInv, Reading
<1>3. rx_offset = f.at /\ 1 \in 1..Len(unread) /\ Head(unread) = f
  BY <1>2, EmptySeq, SMT DEF RxInv, RxTyped, Laid
<1>4. got'.len = f.size /\ got'.data = Copy(f.at, f.size)
  BY <1>1, <1>2, <1>3
<1>5. f.at \in Offset /\ f.size \in Nat /\ Intact(rx_buf, f)
  BY <1>3, FrameType, EntryType DEF RxInv, RxTyped
<1> HIDE DEF f
<1>6. ASSUME ~Crosses(f), NEW i \in 1..f.size
      PROVE  got'.data[i] = Word(f.id, i, f.size)
  <2>1. i \in 0..f.size /\ f.at + i < RX_BUF_SIZE /\ f.at + i >= 0
        /\ f.at + i \in Int
    BY <1>5, <1>6, NicAssumption, SMT DEF Crosses, Offset
  <2>2. Ring(f.at + i) = f.at + i
    BY <2>1, Wraps, NicAssumption, SMT
  <2>3. got'.data[i] = rx_buf[Ring(f.at + i)]
    BY <1>4 DEF Copy
  <2> QED
    BY <1>5, <2>1, <2>2, <2>3 DEF Intact
<1>7. Reading'
  <2>1. DeliveredIntact'
    BY <1>1, <1>2, <1>3, <1>4, <1>6 DEF DeliveredIntact, Crosses
  <2> QED
    BY <1>1, <1>2, <1>4, <2>1 DEF Reading, f
<1>8. RxTyped'
  BY <1>1 DEF RxInv, RxTyped, Capr, Ring
<1> QED
  BY <1>1, <1>7, <1>8, SMT DEF RxInv, Laid, Dist, Intact

(* and gives the room back.                                                *)
LEMMA RecvReturnsKeeps ==
  ASSUME RxInv, RecvReturns
  PROVE  RxInv'
<1>1. /\ UNCHANGED <<rx_buf, cbr, received>>
      /\ pc = "copied" /\ pc' = "idle"
      /\ rx_offset' = Advance(rx_offset, got.len)
      /\ capr' = Capr(rx_offset')
      /\ unread' = SubSeq(unread, 2, Len(unread))
  BY DEF RecvReturns
<1>2. unread # <<>> /\ got.len = unread[1].size /\ unread \in Seq(Frame)
      /\ rx_offset \in Offset /\ cbr \in Offset
  BY <1>1 DEF RxInv, RxTyped, Reading
<1>3. rx_offset' = Ring(rx_offset + Entry(unread[1].size))
  BY <1>1, <1>2 DEF Advance
<1>4. rx_offset' \in Offset /\ Laid(rx_offset', cbr, unread')
  BY <1>1, <1>2, <1>3, LaidTail DEF RxInv
<1>5. /\ unread' \in Seq(Frame) /\ Len(unread') = Len(unread) - 1
      /\ \A k \in 1..Len(unread') : unread'[k] = unread[k + 1]
      /\ Len(unread) \in Nat
  <2>1. Len(unread) > 0
    BY <1>2, EmptySeq, SMT
  <2> QED
    BY <1>1, <1>2, <2>1, TailSeq, SMT
<1>6. capr' \in Offset
  BY <1>1, <1>4, CaprRoundTrip
<1>7. RxTyped'
  BY <1>1, <1>4, <1>5, <1>6 DEF RxInv, RxTyped, Capr, Ring
<1>8. \A k \in 1..Len(unread') : Intact(rx_buf, unread'[k])
  <2> TAKE k \in 1..Len(unread')
  <2>1. k + 1 \in 1..Len(unread)
    BY <1>5, SMT
  <2> QED
    BY <1>5, <2>1 DEF RxInv
<1>9. Reading'
  BY <1>1 DEF Reading, DeliveredIntact
<1>10. Laid(rx_offset, cbr, unread)'
  BY <1>1, <1>4
<1>11. (\A k \in 1..Len(unread) : Intact(rx_buf, unread[k]))'
  BY <1>1, <1>8
<1> QED
  BY <1>7, <1>9, <1>10, <1>11 DEF RxInv

(* The steps that are not about the ring.                                  *)
LEMMA RxUnchanged ==
  ASSUME RxInv, UNCHANGED rxVars,
         \/ UNCHANGED pc
         \/ pc \in {"idle", "send"} /\ pc' \in {"idle", "send"}
  PROVE  RxInv'
<1>1. UNCHANGED <<rx_buf, rx_offset, cbr, capr, unread, received, got>>
  BY DEF rxVars
<1>2. RxTyped'
  BY <1>1 DEF RxInv, RxTyped, Capr, Ring
<1>3. Reading'
  BY <1>1 DEF RxInv, Reading, DeliveredIntact, Crosses
<1> QED
  BY <1>1, <1>2, <1>3 DEF RxInv

LEMMA RxInitHolds ==
  ASSUME Init
  PROVE  RxInv
<1>1. /\ rx_offset = 0 /\ cbr = 0 /\ capr = Ring(RX_BUF_SIZE - 4)
      /\ unread = <<>> /\ received = 0 /\ pc = "idle"
  BY DEF Init
<1>2. 0 \in Offset /\ Capr(0) = Ring(RX_BUF_SIZE - 4) /\ Capr(0) \in Offset
  <2>1. 0 \in Offset /\ 0 + RX_BUF_SIZE - 4 = RX_BUF_SIZE - 4
    BY NicAssumption, SMT DEF Offset
  <2> QED
    BY <2>1, CaprRoundTrip DEF Capr
<1>3. unread \in Seq(Frame) /\ Len(unread) = 0
  BY <1>1, EmptySeq
<1>4. RxTyped
  BY <1>1, <1>2, <1>3, NicAssumption, SMT DEF RxTyped
<1>5. Laid(rx_offset, cbr, unread)
  BY <1>1, <1>3, SMT DEF Laid
<1>6. Reading
  BY <1>1 DEF Reading, DeliveredIntact
<1> QED
  BY <1>3, <1>4, <1>5, <1>6, SMT DEF RxInv
-----------------------------------------------------------------------------
(* The descriptors.                                                        *)
LEMMA NextDescType ==
  ASSUME NEW d \in Desc
  PROVE  NextDesc(d) \in Desc /\ (d + 1) % TX_NUM = NextDesc(d)
BY NicAssumption, SMT DEF NextDesc, Desc

LEMMA CardTransmitsKeeps ==
  ASSUME TxInv, CardTransmits
  PROVE  TxInv'
<1> DEFINE d == tx_next_idx
<1>1. /\ tx_status[currTxDesc] = "card"
      /\ tx_status' = [tx_status EXCEPT ![currTxDesc] = "sent"]
      /\ wire' = Append(wire, tx_buf[currTxDesc])
      /\ currTxDesc' = (currTxDesc + 1) % TX_NUM
      /\ UNCHANGED <<pc, tx_next_idx, tx_buf, calls, ok, late>>
  BY DEF CardTransmits
<1>2. /\ currTxDesc = d /\ d \in Desc /\ tx_buf[d] \in Nat /\ calls \in Nat
      /\ wire \in Seq(Nat) /\ Len(wire) \in Nat
      /\ \A k \in 1..Len(wire) : wire[k] \in Nat
  BY <1>1, NicAssumption, SMT DEF TxInv, TxTyped, Queued
<1>3. /\ wire' \in Seq(Nat) /\ Len(wire') = Len(wire) + 1
      /\ \A k \in 1..Len(wire) : wire'[k] = wire[k]
      /\ wire'[Len(wire) + 1] = tx_buf[d]
  BY <1>1, <1>2, AppendProperties, SMT
<1>4. /\ currTxDesc' = NextDesc(d) /\ currTxDesc' \in Desc
  BY <1>1, <1>2, NextDescType
<1>5. TxTyped'
  BY <1>1, <1>2, <1>3, <1>4 DEF TxInv, TxTyped
<1>6. /\ tx_buf[d] <= calls
      /\ \A k \in 1..Len(wire) : wire[k] < tx_buf[d]
  BY <1>1, <1>2 DEF TxInv, Queued
<1>7. SendHonest'
  <2>1. \A n \in ok : OnWire(n)'
    <3> TAKE n \in ok
    <3>1. PICK k \in 1..Len(wire) : wire[k] = n
      BY DEF TxInv, SendHonest
    <3>2. k \in 1..Len(wire') /\ wire'[k] = n
      BY <1>2, <1>3, <3>1, SMT
    <3> QED
      BY <3>2 DEF OnWire
  <2>2. \A k \in 1..Len(wire') - 1 : wire'[k] < wire'[k + 1]
    <3> TAKE k \in 1..Len(wire') - 1
    <3>1. CASE k = Len(wire)
      BY <1>2, <1>3, <1>6, <3>1, SMT
    <3>2. CASE k \in 1..Len(wire) - 1
      <4>1. wire[k] < wire[k + 1]
        BY <3>2 DEF TxInv, SendHonest
      <4> QED
        BY <1>2, <1>3, <3>2, <4>1, SMT
    <3> QED
      BY <1>2, <1>3, <3>1, <3>2, SMT
  <2> QED
    BY <1>1, <2>1, <2>2 DEF SendHonest, OnWire
<1>8. Queued'
  <2>1. \A e \in Desc : tx_status'[e] # "card"
    BY <1>1, <1>2 DEF TxInv, TxTyped, Queued
  <2>2. \A k \in 1..Len(wire') : wire'[k] <= calls
    <3> TAKE k \in 1..Len(wire')
    <3>1. CASE k = Len(wire) + 1
      BY <1>3, <1>6, <3>1
    <3>2. CASE k \in 1..Len(wire)
      BY <1>3, <3>2 DEF TxInv, Queued
    <3> QED
      BY <1>2, <1>3, <3>1, <3>2, SMT
  <2> QED
    BY <1>1, <1>2, <2>1, <2>2 DEF Queued
<1>9. tx_status'[d] = "sent"
  BY <1>1, <1>2 DEF TxInv, TxTyped
<1>10. Sending'
  <2>1. pc = "send" => tx_buf[d] = calls
    BY DEF TxInv, Sending
  <2>2. OnWire(tx_buf[d])'
    BY <1>1, <1>2, <1>3, SMT DEF OnWire
  <2>3. pc = "send" => OnWire(calls)'
    BY <1>1, <2>1, <2>2
  <2> QED
    BY <1>1, <1>9, <2>1, <2>3 DEF Sending
<1>11. Together'
  BY <1>1, <1>2, <1>4, <1>9 DEF TxInv, Together, NextDesc
<1> QED
  BY <1>5, <1>7, <1>8, <1>10, <1>11 DEF TxInv

LEMMA SendStartsKeeps ==
  ASSUME TxInv, SendStarts
  PROVE  TxInv'
<1> DEFINE d == tx_next_idx
<1>1. /\ pc = "idle" /\ calls < MaxSends
      /\ calls' = calls + 1
      /\ tx_buf' = [tx_buf EXCEPT ![d] = calls']
      /\ tx_status' = [tx_status EXCEPT ![d] = "card"]
      /\ tx_status[d] \in {"host", "sent"}
      /\ pc' = "send"
      /\ UNCHANGED <<tx_next_idx, currTxDesc, ok, wire, late>>
  BY DEF SendStarts
<1>2. d \in Desc /\ calls \in Nat /\ calls' \in 0..MaxSends /\ calls' \in Nat
  BY <1>1, NicAssumption, SMT DEF TxInv, TxTyped
<1>3. TxTyped'
  BY <1>1, <1>2 DEF TxInv, TxTyped
<1>4. tx_status'[d] = "card" /\ tx_buf'[d] = calls + 1
  BY <1>1, <1>2 DEF TxInv, TxTyped
<1>5. Queued'
  <2>1. \A e \in Desc : tx_status'[e] = "card" => e = d
    BY <1>1, <1>2 DEF TxInv, TxTyped, Queued
  <2>2. \A k \in 1..Len(wire) : wire[k] <= calls + 1 /\ wire[k] < calls + 1
    <3> TAKE k \in 1..Len(wire)
    <3>1. wire[k] \in Nat /\ wire[k] <= calls
      BY SMT DEF TxInv, TxTyped, Queued
    <3> QED
      BY <1>2, <3>1, SMT
  <2> QED
    BY <1>1, <1>2, <1>4, <2>1, <2>2, SMT DEF Queued
<1>6. SendHonest'
  BY <1>1 DEF TxInv, SendHonest
<1>7. Sending' /\ Together'
  BY <1>1, <1>4 DEF TxInv, Sending, Together
<1> QED
  BY <1>3, <1>5, <1>6, <1>7 DEF TxInv

LEMMA SendRefusedKeeps ==
  ASSUME TxInv, SendRefused
  PROVE  TxInv'
<1>1. /\ pc = "idle" /\ calls < MaxSends /\ calls' = calls + 1
      /\ UNCHANGED <<pc, tx_next_idx, tx_buf, tx_status, currTxDesc, ok, wire,
                     late>>
  BY DEF SendRefused
<1>2. TxTyped'
  BY <1>1, NicAssumption, SMT DEF TxInv, TxTyped
<1>3. SendHonest' /\ Sending' /\ Together'
  BY <1>1 DEF TxInv, SendHonest, Sending, Together, NextDesc
<1>4. Queued'
  <2>1. calls \in Nat /\ tx_buf[tx_next_idx] \in Nat
        /\ \A k \in 1..Len(wire) : wire[k] \in Nat
    BY NicAssumption, SMT DEF TxInv, TxTyped
  <2> QED
    BY <1>1, <2>1, SMT DEF TxInv, Queued
<1> QED
  BY <1>2, <1>3, <1>4 DEF TxInv

LEMMA SendReturnsKeeps ==
  ASSUME TxInv, SendReturns
  PROVE  TxInv'
<1>1. /\ pc = "send" /\ tx_status[tx_next_idx] = "sent"
      /\ ok' = ok \cup {calls} /\ tx_next_idx' = NextDesc(tx_next_idx)
      /\ pc' = "idle"
      /\ UNCHANGED <<tx_buf, tx_status, currTxDesc, calls, wire, late>>
  BY DEF SendReturns
<1>2. tx_next_idx' \in Desc
  BY <1>1, NextDescType DEF TxInv, TxTyped
<1>3. TxTyped'
  BY <1>1, <1>2 DEF TxInv, TxTyped
<1>4. SendHonest'
  <2>1. OnWire(calls)
    BY <1>1 DEF TxInv, Sending
  <2> QED
    BY <1>1, <2>1 DEF TxInv, SendHonest, OnWire
<1>5. \A d \in Desc : tx_status[d] # "card"
  BY <1>1 DEF TxInv, Queued
<1>6. Queued' /\ Sending'
  BY <1>1, <1>2, <1>5 DEF TxInv, Queued, Sending
<1>7. Together'
  BY <1>1, <1>2, <1>5 DEF TxInv, Together
<1> QED
  BY <1>3, <1>4, <1>6, <1>7 DEF TxInv

LEMMA SendTimesOutKeeps ==
  ASSUME TxInv, SendTimesOut
  PROVE  TxInv'
<1>1. /\ late' = TRUE /\ pc' = "idle"
      /\ UNCHANGED <<tx_next_idx, tx_buf, tx_status, currTxDesc, calls, ok,
                     wire>>
  BY DEF SendTimesOut
<1> QED
  BY <1>1 DEF TxInv, TxTyped, SendHonest, Queued, Sending, Together

(* The receiving side leaves the descriptors alone.                        *)
LEMMA TxUnchanged ==
  ASSUME TxInv, UNCHANGED txVars,
         UNCHANGED pc \/ (pc # "send" /\ pc' # "send")
  PROVE  TxInv'
<1>1. UNCHANGED <<tx_next_idx, tx_buf, tx_status, currTxDesc, calls, ok, wire,
                  late>>
  BY DEF txVars
<1>2. TxTyped' /\ SendHonest' /\ Queued'
  BY <1>1 DEF TxInv, TxTyped, SendHonest, Queued
<1>3. Sending' /\ Together'
  BY <1>1 DEF TxInv, Sending, OnWire, Together, NextDesc
<1> QED
  BY <1>2, <1>3 DEF TxInv

LEMMA TxInitHolds ==
  ASSUME Init
  PROVE  TxInv
<1>1. /\ tx_next_idx = 0 /\ currTxDesc = 0 /\ 0 \in Desc
      /\ tx_buf = [d \in Desc |-> 0]
      /\ tx_status = [d \in Desc |-> "host"]
      /\ calls = 0 /\ ok = {} /\ wire = <<>> /\ pc = "idle"
  BY NicAssumption, SMT DEF Init, Desc
<1>2. wire \in Seq(Nat) /\ Len(wire) = 0
  BY <1>1, EmptySeq
<1>3. TxTyped
  BY <1>1, <1>2, NicAssumption, SMT DEF TxTyped
<1> QED
  BY <1>1, <1>2, <1>3, SMT DEF TxInv, SendHonest, Queued, Sending, Together
-----------------------------------------------------------------------------
Inv == RxInv /\ TxInv

LEMMA NextKeeps ==
  ASSUME Inv, [Next]_vars
  PROVE  Inv'
<1> USE DEF Inv
<1>1. ASSUME NEW size \in Sizes, CardReceives(size)
      PROVE  Inv'
  BY <1>1, CardReceivesKeeps, TxUnchanged DEF CardReceives
<1>2. CASE CardTransmits
  BY <1>2, CardTransmitsKeeps, RxUnchanged DEF CardTransmits
<1>3. CASE RecvReads
  BY <1>3, RecvReadsKeeps, TxUnchanged DEF RecvReads
<1>4. CASE RecvCopies
  BY <1>4, RecvCopiesKeeps, TxUnchanged DEF RecvCopies
<1>5. CASE RecvReturns
  BY <1>5, RecvReturnsKeeps, TxUnchanged DEF RecvReturns
<1>6. CASE SendStarts
  BY <1>6, SendStartsKeeps, RxUnchanged DEF SendStarts
<1>7. CASE SendRefused
  BY <1>7, SendRefusedKeeps, RxUnchanged DEF SendRefused
<1>8. CASE SendReturns
  BY <1>8, SendReturnsKeeps, RxUnchanged DEF SendReturns
<1>9. CASE SendTimesOut
  BY <1>9, SendTimesOutKeeps, RxUnchanged DEF SendTimesOut
<1>10. CASE UNCHANGED vars
  BY <1>10, RxUnchanged, TxUnchanged DEF vars
<1> QED
  BY <1>1, <1>2, <1>3, <1>4, <1>5, <1>6, <1>7, <1>8, <1>9, <1>10 DEF Next

(* The inductive invariant: the unread frames lie back to back from        *)
(* rx_offset to CBR and are whole; the card owns at most the descriptor    *)
(* that rtl8139_send uses.                                                 *)
THEOREM Safety == Spec => []Inv
<1>1. Init => Inv
  BY RxInitHolds, TxInitHolds DEF Inv
<1>2. Inv /\ [Next]_vars => Inv'
  BY NextKeeps
<1> QED
  BY <1>1, <1>2, PTL DEF Spec

(* rtl8139_recv and the card wrap their offsets into the ring, and         *)
(* rtl8139_send its index into the descriptors, for any sizes.             *)
THEOREM TypeCorrect == Spec => []TypeOK
<1>1. Inv => TypeOK
  BY DEF Inv, RxInv, RxTyped, TxInv, TxTyped, TypeOK, Offset
<1> QED
  BY <1>1, Safety, PTL

(* The compensated CAPR that rtl8139_recv writes tells the card exactly    *)
(* how far it has read: for any ring size, the card's free space ends      *)
(* where the unread frames begin.                                          *)
THEOREM RingAgrees == Spec => []RingInSync
<1>1. ASSUME Inv PROVE RingInSync
  <2>1. RxBufPtr = rx_offset
    BY <1>1, RoomLeft DEF Inv, RxInv
  <2>2. ASSUME NEW k \in 1..Len(unread)
        PROVE  Ring(unread[k].at + Entry(unread[k].size))
                 = IF k = Len(unread) THEN cbr ELSE unread[k + 1].at
    <3> DEFINE a == unread[k].at
               e == Entry(unread[k].size)
               b == IF k = Len(unread) THEN cbr ELSE unread[k + 1].at
               o == rx_offset
    <3>1. o \in Offset /\ cbr \in Offset /\ unread \in Seq(Frame)
          /\ Len(unread) \in Nat
      BY <1>1, SMT DEF Inv, RxInv, RxTyped
    <3>2. a \in Offset /\ e \in Nat
      BY <2>2, <3>1, FrameType
    <3>3. b \in Offset
      <4>1. k # Len(unread) => k + 1 \in 1..Len(unread)
        BY <3>1, SMT
      <4> QED
        BY <3>1, <4>1, FrameType
    <3>4. Dist(o, a) + e = Dist(o, b)
      BY <1>1 DEF Inv, RxInv, Laid
    <3> HIDE DEF a, e, b, o
    <3>5. Dist(o, a) + e < RX_BUF_SIZE
      <4>1. Dist(o, b) \in Offset
        BY <3>1, <3>3, DistType DEF o
      <4> QED
        BY <3>4, <4>1, OffsetIs
    <3>6. Ring(a + e) \in Offset /\ Dist(o, Ring(a + e)) = Dist(o, b)
      BY <3>1, <3>2, <3>4, <3>5, Moves
    <3>7. Ring(a + e) = b
      BY <3>1, <3>3, <3>6, DistType
    <3> QED
      BY <3>7 DEF a, e, b
  <2>3. rx_offset = IF unread = <<>> THEN cbr ELSE unread[1].at
    BY <1>1 DEF Inv, RxInv, Laid
  <2> QED
    BY <2>1, <2>2, <2>3 DEF RingInSync
<1> QED
  BY <1>1, Safety, PTL

(* rtl8139_recv returns the oldest frame whole, unless it crosses the end  *)
(* of the ring, whatever the card stores while it copies.                  *)
THEOREM FramesIntact == Spec => []DeliveredIntact
<1>1. Inv => DeliveredIntact
  BY DEF Inv, RxInv, Reading
<1> QED
  BY <1>1, Safety, PTL

(* A call of rtl8139_send that returned 0 has been transmitted; no frame   *)
(* goes out twice or late, for any number of descriptors and timeouts.     *)
THEOREM SendsHonest == Spec => []SendHonest
<1>1. Inv => SendHonest
  BY DEF Inv, TxInv
<1> QED
  BY <1>1, Safety, PTL

(* As long as rtl8139_send has not timed out, the driver and the card use  *)
(* the same descriptor between calls.                                      *)
THEOREM DescriptorsInStep == Spec => []InStep
<1>1. Inv => InStep
  BY DEF Inv, TxInv, Together, InStep
<1> QED
  BY <1>1, Safety, PTL
=============================================================================
