------------------------------ MODULE Rtl8139 ------------------------------
(***************************************************************************)
(* The network card driver (kernel/drivers/rtl8139.c) and the card, which  *)
(* works beside it: it stores frames in the receive ring and transmits     *)
(* from its current descriptor at any time between the driver's register   *)
(* accesses.  Lengths and offsets are in words of 4 bytes.                 *)
(***************************************************************************)
EXTENDS Integers, Sequences

CONSTANTS RX_BUF_SIZE, TX_NUM,
          Sizes,      \* lengths of received frames
          MaxFrames,  \* bound: frames received
          MaxSends    \* bound: calls of rtl8139_send

(* A frame is smaller than the ring, as Ethernet frames are.               *)
ASSUME NicAssumption ==
  /\ RX_BUF_SIZE \in Nat /\ RX_BUF_SIZE > 8 /\ TX_NUM \in Nat \ {0}
  /\ Sizes \subseteq Nat \ {0} /\ \A size \in Sizes : size + 2 < RX_BUF_SIZE
  /\ MaxFrames \in Nat /\ MaxSends \in Nat

VARIABLES rx_buf, rx_offset, tx_next_idx, tx_buf, \* the driver
          cbr, capr, tx_status, currTxDesc,       \* the card
          pc,        \* where rtl8139_send or rtl8139_recv is
          unread,    \* frames in the ring, oldest first
          received,  \* frames stored so far
          got,       \* what rtl8139_recv has read: length and data
          calls,     \* calls of rtl8139_send so far
          ok,        \* those that returned 0
          wire,      \* what the card transmitted, in order
          late       \* some send has timed out

rxVars == <<rx_buf, rx_offset, cbr, capr, unread, received, got>>
txVars == <<tx_next_idx, tx_buf, tx_status, currTxDesc, calls, ok, wire, late>>
vars == <<rxVars, txVars, pc>>

Desc == 0..TX_NUM - 1
(* The ring and the room behind it that rtl8139_init allocates.            *)
Cell == 0..RX_BUF_SIZE + 8

(* Word i of frame n; word 0 is the header, which holds the length.        *)
Word(n, i, size) == [id |-> n, i |-> i, len |-> IF i = 0 THEN size ELSE 0]
Ring(a) == a % RX_BUF_SIZE
-----------------------------------------------------------------------------
(* The card.  It knows from CAPR how far the driver has read, and drops a  *)
(* frame that does not fit.  RX_CFG_NO_WRAP: a frame that starts before    *)
(* the end of the ring is stored in one piece, past the end if need be.    *)
RxBufPtr == Ring(capr + 4)
Avail == Ring(RX_BUF_SIZE + RxBufPtr - cbr)
Entry(size) == size + 2    \* header, data, CRC

CardReceives(size) ==
  LET n == received + 1
  IN  /\ received < MaxFrames
      /\ Avail = 0 \/ Entry(size) < Avail
      /\ received' = n
      /\ rx_buf' = [a \in Cell |-> IF a \in cbr..cbr + size
                                   THEN Word(n, a - cbr, size) ELSE rx_buf[a]]
      /\ cbr' = Ring(cbr + Entry(size))
      /\ unread' = Append(unread, [id |-> n, size |-> size, at |-> cbr])
      /\ UNCHANGED <<rx_offset, capr, got, txVars, pc>>

(* It transmits only from its current descriptor, and only when it owns    *)
(* that one.                                                               *)
CardTransmits ==
  /\ tx_status[currTxDesc] = "card"
  /\ tx_status' = [tx_status EXCEPT ![currTxDesc] = "sent"]
  /\ wire' = Append(wire, tx_buf[currTxDesc])
  /\ currTxDesc' = (currTxDesc + 1) % TX_NUM
  /\ UNCHANGED <<rxVars, pc, tx_next_idx, tx_buf, calls, ok, late>>
-----------------------------------------------------------------------------
(* The data of the frame whose header is at a: what would cross the end of *)
(* the ring is read from its start.                                        *)
Copy(a, size) == [i \in 1..size |-> rx_buf[Ring(a + i)]]

Advance(a, size) == Ring(a + Entry(size))

Capr_Uncompensated(off) == off
Capr(off) == Ring(off + RX_BUF_SIZE - 4)

Nothing == [len |-> 0, data |-> <<>>]

RecvReads_EarlyCapr ==
  /\ pc = "idle"
  /\ rx_offset # cbr
  /\ got' = [len |-> rx_buf[rx_offset].len, data |-> <<>>]
  /\ capr' = Capr(Advance(rx_offset, got'.len))
  /\ pc' = "header"
  /\ UNCHANGED <<rx_buf, rx_offset, cbr, unread, received, txVars>>

(* rtl8139_recv finds an entry and reads its header, *)
RecvReads ==
  /\ pc = "idle"
  /\ rx_offset # cbr
  /\ got' = [len |-> rx_buf[rx_offset].len, data |-> <<>>]
  /\ pc' = "header"
  /\ UNCHANGED <<rx_buf, rx_offset, cbr, capr, unread, received, txVars>>

(* copies the frame, *)
RecvCopies ==
  /\ pc = "header"
  /\ got' = [got EXCEPT !.data = Copy(rx_offset, got.len)]
  /\ pc' = "copied"
  /\ UNCHANGED <<rx_buf, rx_offset, cbr, capr, unread, received, txVars>>

(* gives the room back to the card and returns.                            *)
RecvReturns ==
  /\ pc = "copied"
  /\ rx_offset' = Advance(rx_offset, got.len)
  /\ capr' = Capr(rx_offset')
  /\ unread' = SubSeq(unread, 2, Len(unread))
  /\ got' = Nothing
  /\ pc' = "idle"
  /\ UNCHANGED <<rx_buf, cbr, received, txVars>>
-----------------------------------------------------------------------------
(* rtl8139_send writes the frame into its next descriptor, once the host   *)
(* owns that one, and hands it to the card.                                *)
SendStarts ==
  /\ pc = "idle"
  /\ calls < MaxSends
  /\ tx_status[tx_next_idx] \in {"host", "sent"}
  /\ calls' = calls + 1
  /\ tx_buf' = [tx_buf EXCEPT ![tx_next_idx] = calls']
  /\ tx_status' = [tx_status EXCEPT ![tx_next_idx] = "card"]
  /\ pc' = "send"
  /\ UNCHANGED <<rxVars, tx_next_idx, currTxDesc, ok, wire, late>>

(* The card kept the descriptor for the whole wait: -1.                    *)
SendRefused ==
  /\ pc = "idle"
  /\ calls < MaxSends
  /\ tx_status[tx_next_idx] = "card"
  /\ calls' = calls + 1
  /\ UNCHANGED <<rxVars, pc, tx_next_idx, tx_buf, tx_status, currTxDesc, ok,
                 wire, late>>

NextDesc_Same(d) == d
NextDesc(d) == (d + 1) % TX_NUM

SendReturns_Unpolled ==
  /\ pc = "send"
  /\ ok' = ok \cup {calls}
  /\ tx_next_idx' = NextDesc(tx_next_idx)
  /\ pc' = "idle"
  /\ UNCHANGED <<rxVars, tx_buf, tx_status, currTxDesc, calls, wire, late>>

SendReturns ==
  /\ pc = "send"
  /\ tx_status[tx_next_idx] = "sent"
  /\ ok' = ok \cup {calls}
  /\ tx_next_idx' = NextDesc(tx_next_idx)
  /\ pc' = "idle"
  /\ UNCHANGED <<rxVars, tx_buf, tx_status, currTxDesc, calls, wire, late>>

(* The card took too long: -2, and tx_next_idx stays.                      *)
SendTimesOut ==
  /\ pc = "send"
  /\ late' = TRUE
  /\ pc' = "idle"
  /\ UNCHANGED <<rxVars, tx_next_idx, tx_buf, tx_status, currTxDesc, calls, ok,
                 wire>>

Init ==
  /\ rx_buf = [a \in Cell |-> Word(0, 1, 0)]
  /\ rx_offset = 0 /\ cbr = 0 /\ capr = Ring(RX_BUF_SIZE - 4)
  /\ unread = <<>> /\ received = 0 /\ got = Nothing
  /\ tx_next_idx = 0 /\ currTxDesc = 0
  /\ tx_buf = [d \in Desc |-> 0]
  /\ tx_status = [d \in Desc |-> "host"]
  /\ calls = 0 /\ ok = {} /\ wire = <<>> /\ late = FALSE
  /\ pc = "idle"

Next ==
  \/ \E size \in Sizes : CardReceives(size)
  \/ CardTransmits
  \/ RecvReads \/ RecvCopies \/ RecvReturns
  \/ SendStarts \/ SendRefused \/ SendReturns \/ SendTimesOut

Spec == Init /\ [][Next]_vars
-----------------------------------------------------------------------------
(* The offsets that the driver and the card compute stay inside the ring,  *)
(* and the descriptor numbers inside the descriptors.                      *)
TypeOK ==
  /\ {rx_offset, cbr, capr} \subseteq 0..RX_BUF_SIZE - 1
  /\ {tx_next_idx, currTxDesc} \subseteq Desc
  /\ tx_status \in [Desc -> {"host", "card", "sent"}]
  /\ pc \in {"idle", "header", "copied", "send"}
  /\ received \in 0..MaxFrames /\ calls \in 0..MaxSends

(* The driver and the card agree about the ring: the unread frames lie     *)
(* back to back from rx_offset to CBR, and the card counts as free exactly *)
(* the rest, so that it never stores a frame over an unread one.           *)
RingInSync ==
  /\ RxBufPtr = rx_offset
  /\ \A k \in 1..Len(unread) :
       LET next == Ring(unread[k].at + Entry(unread[k].size))
       IN  next = IF k = Len(unread) THEN cbr ELSE unread[k + 1].at
  /\ rx_offset = IF unread = <<>> THEN cbr ELSE unread[1].at

Crosses(f) == f.at + f.size >= RX_BUF_SIZE

(* rtl8139_recv returns the frames in the order the card stored them, each *)
(* once and intact, unless its data cross the end of the ring.             *)
DeliveredIntact ==
  pc = "copied" =>
    /\ unread # <<>>
    /\ got.len = Head(unread).size
    /\ \/ Crosses(Head(unread))
       \/ \A i \in 1..got.len :
            got.data[i] = Word(Head(unread).id, i, got.len)

(* A call of rtl8139_send that returned 0 has put its frame on the wire,   *)
(* and no frame is ever transmitted twice or after a later one, although a *)
(* send that timed out may still go out.                                   *)
SendHonest ==
  /\ \A n \in ok : \E k \in 1..Len(wire) : wire[k] = n
  /\ \A k \in 1..Len(wire) - 1 : wire[k] < wire[k + 1]

(* As long as no send has timed out, between calls tx_next_idx is the only *)
(* descriptor that the card looks at.                                      *)
InStep == pc = "idle" /\ ~late => tx_next_idx = currTxDesc
=============================================================================
