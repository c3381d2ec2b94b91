----------------------------- MODULE TcpProofs -----------------------------
(***************************************************************************)
(* The ping and tcp commands of the shell, for any hosts, any number of    *)
(* socket slots and commands, and any width of the sequence numbers: every *)
(* frame is addressed to the right next hop, no send waits for ARP inside  *)
(* a polling loop, no socket slot leaks and ping reports fresh replies.    *)
(* While the ephemeral ports do not come around again, a send is confirmed *)
(* only when the peer has the message, and what is stored is the peer's    *)
(* stream, in order and once.                                              *)
(***************************************************************************)
EXTENDS Tcp, TLAPS

SeqNo == 0..SeqMod - 1

Sock == [used : BOOLEAN, state : CLOSED..CLOSE_WAIT, dst : Host, port : Nat,
         conn : Nat, snd_nxt : SeqNo, snd_una : SeqNo, rcv_nxt : SeqNo,
         isn : SeqNo, rcv : Seq(Nat \X Nat)]

Peer == [open : BOOLEAN, up : BOOLEAN, port : Nat, iss : SeqNo, snd : SeqNo,
         rcv : SeqNo, left : Int]

PingPc == {"arp1", "arp2", "echo"}
TcpPc == {"resolve", "syn", "open", "send", "recv", "close", "fin", "ends"}

(* A frame as the card sends or receives it.                               *)
IsFrame(f) ==
  /\ f.kind = "segment" =>
       f.port \in Nat /\ f.conn \in Nat /\ f.seq \in SeqNo /\ f.ack \in SeqNo
       /\ f.len \in Nat
  /\ f.kind = "tcp" => f.port \in Nat /\ f.conn \in Nat /\ f.seq \in SeqNo
                       /\ f.len \in Nat
  /\ f.kind \in {"echo", "tcp"} => f.mac = NextHop(f.ip)

Typed ==
  /\ TypeOK
  /\ sockets \in [Slot -> Sock]
  /\ next_ephemeral \in Nat
  /\ peer \in [Conn -> Peer]

Frames == \A f \in net : IsFrame(f)

(* Only replies of local hosts are cached, and ping stores under the       *)
(* address that it resolved.                                               *)
Sound(c) == c.valid => c.ip \in Local /\ c.mac = c.ip

(* The slot in use is that of the running tcp command, and leads to its    *)
(* destination.                                                            *)
OneSlot ==
  /\ \A i \in Slot : sockets[i].used => pc \in TcpPc /\ i = cur
  /\ pc \in TcpPc => sockets[cur].dst = dst /\ sockets[cur].conn \in Conn

(* No reply is counted before the request it is counted for.               *)
Fresh ==
  /\ PingFresh
  /\ pc = "echo" => (pong => heard)
  /\ pc \in PingPc => ~answered

Inv ==
  Typed /\ Frames /\ Sound(cache) /\ OneSlot /\ NoNestedPoll /\ Fresh
-----------------------------------------------------------------------------
(* The leaves are for Zenon, unless they cite SMT.                         *)
USE Zenon

LEMMA PlusType ==
  ASSUME NEW a \in Nat, NEW b \in Nat
  PROVE  Plus(a, b) \in SeqNo
BY TcpAssumption, SMT DEF Plus, SeqNo

LEMMA SeqNoNat ==
  SeqNo \subseteq Nat /\ 0 \in SeqNo
BY TcpAssumption, SMT DEF SeqNo

LEMMA UnusedType ==
  Unused \in Sock /\ ~Unused.used
BY SeqNoNat, NetAssumption, SMT DEF Unused, Sock, CLOSED, CLOSE_WAIT

LEMMA NoPeerType ==
  NoPeer \in Peer
BY SeqNoNat, SMT DEF NoPeer, Peer

(* What tcp_handle_packet leaves alone in the socket.                      *)
Kept(s, t) == t.used = s.used /\ t.dst = s.dst /\ t.conn = s.conn

(* One field of a socket at a time.                                        *)
LEMMA SetState ==
  ASSUME NEW s \in Sock, NEW v \in CLOSED..CLOSE_WAIT
  PROVE  [s EXCEPT !.state = v] \in Sock /\ Kept(s, [s EXCEPT !.state = v])
         /\ [s EXCEPT !.state = v].rcv = s.rcv
BY DEF Sock, Kept

LEMMA SetSeq ==
  ASSUME NEW s \in Sock, NEW v \in SeqNo
  PROVE  /\ [s EXCEPT !.snd_nxt = v] \in Sock
         /\ Kept(s, [s EXCEPT !.snd_nxt = v])
         /\ [s EXCEPT !.snd_nxt = v].rcv = s.rcv
         /\ [s EXCEPT !.snd_una = v] \in Sock
         /\ Kept(s, [s EXCEPT !.snd_una = v])
         /\ [s EXCEPT !.snd_una = v].rcv = s.rcv
         /\ [s EXCEPT !.snd_una = v].state = s.state
         /\ [s EXCEPT !.rcv_nxt = v] \in Sock
         /\ Kept(s, [s EXCEPT !.rcv_nxt = v])
         /\ [s EXCEPT !.rcv_nxt = v].rcv = s.rcv
BY DEF Sock, Kept

LEMMA SetRcv ==
  ASSUME NEW s \in Sock, NEW v \in Seq(Nat \X Nat)
  PROVE  [s EXCEPT !.rcv = v] \in Sock /\ Kept(s, [s EXCEPT !.rcv = v])
         /\ [s EXCEPT !.rcv = v].rcv = v
BY DEF Sock, Kept

LEMMA AckedType ==
  ASSUME NEW s \in Sock, NEW f, IsFrame(f), f.kind = "segment"
  PROVE  Acked(s, f) \in Sock /\ Kept(s, Acked(s, f))
         /\ Acked(s, f).rcv = s.rcv /\ Acked(s, f).state = s.state
<1>1. f.ack \in SeqNo /\ Kept(s, s)
  BY DEF IsFrame, Kept
<1> QED
  BY <1>1, SetSeq DEF Acked

LEMMA HandleType ==
  ASSUME NEW s \in Sock, NEW f, IsFrame(f), f.kind = "segment",
         Len(s.rcv) <= 1
  PROVE  Handle(s, f) \in Sock /\ Kept(s, Handle(s, f))
         /\ Len(Handle(s, f).rcv) <= 1
<1> DEFINE a == Acked(s, f)
           p == Plus(f.seq, 1)
           q == Plus(f.seq, f.len)
           b == <<<<f.conn, f.seq>>>>
<1>1. a \in Sock /\ Kept(s, a) /\ a.rcv = s.rcv
  BY AckedType
<1>2. p \in SeqNo /\ q \in SeqNo /\ f.ack \in SeqNo
  BY PlusType, SeqNoNat DEF IsFrame
<1>3. b \in Seq(Nat \X Nat) /\ Len(b) = 1
  <2>1. <<f.conn, f.seq>> \in Nat \X Nat
    BY SeqNoNat DEF IsFrame
  <2> QED
    BY <2>1, SMT
<1>4. /\ CLOSED \in CLOSED..CLOSE_WAIT /\ ESTABLISHED \in CLOSED..CLOSE_WAIT
      /\ TIME_WAIT \in CLOSED..CLOSE_WAIT
      /\ CLOSE_WAIT \in CLOSED..CLOSE_WAIT
  BY SMT DEF CLOSED, ESTABLISHED, TIME_WAIT, CLOSE_WAIT
<1> HIDE DEF a, p, q, b
<1>5. CASE "RST" \in f.flags
  <2>1. Handle(s, f) = [s EXCEPT !.state = CLOSED]
    BY <1>5 DEF Handle, Answers, Stores
  <2> QED
    BY <2>1, <1>4, SetState, SMT
<1>6. CASE Answers(s, f) /\ s.state = SYN_SENT
  <2> DEFINE s1 == [s EXCEPT !.rcv_nxt = p]
             s2 == [s1 EXCEPT !.snd_una = f.ack]
  <2>1. Handle(s, f) = [s2 EXCEPT !.state = ESTABLISHED]
    BY <1>6 DEF Handle, Answers, Stores, p
  <2>2. s1 \in Sock /\ Kept(s, s1) /\ s1.rcv = s.rcv
    BY <1>2, SetSeq
  <2> HIDE DEF s1
  <2>3. s2 \in Sock /\ Kept(s1, s2) /\ s2.rcv = s1.rcv
    BY <1>2, <2>2, SetSeq
  <2> HIDE DEF s2
  <2> QED
    BY <2>1, <2>2, <2>3, <1>4, SetState, SMT DEF Kept
<1>7. CASE Answers(s, f) /\ s.state # SYN_SENT /\ "FIN" \in f.flags
  <2> DEFINE s1 == [a EXCEPT !.rcv_nxt = p]
             v == IF a.state = FIN_WAIT_2 THEN TIME_WAIT ELSE CLOSE_WAIT
  <2>1. Handle(s, f) = [s1 EXCEPT !.state = v]
    BY <1>7, <1>1, <1>2 DEF Handle, Answers, Stores, p, a, Sock
  <2>2. s1 \in Sock /\ Kept(a, s1) /\ s1.rcv = a.rcv
    BY <1>1, <1>2, SetSeq
  <2>3. v \in CLOSED..CLOSE_WAIT
    BY <1>4
  <2> HIDE DEF s1, v
  <2> QED
    BY <2>1, <2>2, <2>3, <1>1, SetState, SMT DEF Kept
<1>8. CASE Stores(s, f)
  <2> DEFINE s1 == [a EXCEPT !.rcv = b]
  <2>1. Handle(s, f) = [s1 EXCEPT !.rcv_nxt = q]
    BY <1>8 DEF Handle, Answers, Stores, Buffered, a, b, q
  <2>2. s1 \in Sock /\ Kept(a, s1) /\ s1.rcv = b
    BY <1>1, <1>3, SetRcv
  <2> HIDE DEF s1
  <2> DEFINE s2 == [s1 EXCEPT !.rcv_nxt = q]
  <2>3. s2 \in Sock /\ Kept(s1, s2) /\ s2.rcv = s1.rcv
    BY <2>2, <1>2, SetSeq
  <2>4. Handle(s, f) = s2
    BY <2>1
  <2> HIDE DEF s2
  <2>5. Kept(s, s2)
    BY <2>2, <2>3, <1>1 DEF Kept
  <2>6. Len(s2.rcv) <= 1
    BY <2>2, <2>3, <1>3, SMT
  <2> QED
    BY <2>3, <2>4, <2>5, <2>6
<1>9. CASE /\ "RST" \notin f.flags /\ ~Stores(s, f)
           /\ ~(Answers(s, f) /\ s.state = SYN_SENT)
           /\ ~(Answers(s, f) /\ s.state # SYN_SENT /\ "FIN" \in f.flags)
  <2>1. Handle(s, f) = s \/ Handle(s, f) = a
    BY <1>9 DEF Handle, a
  <2> QED
    BY <2>1, <1>1 DEF Kept
<1> QED
  BY <1>5, <1>6, <1>7, <1>8, <1>9
-----------------------------------------------------------------------------
(* What a poll can find.                                                   *)
LEMMA InboundType ==
  ASSUME Frames, NEW f \in Inbound
  PROVE  /\ IsFrame(f)
         /\ f.kind \in {"arp reply", "echo reply", "segment"}
         /\ f.kind = "arp reply" => f.ip \in Local /\ f.mac = f.ip
<1>1. CASE \E h \in Local : f = ArpReply(h)
  <2>1. PICK h \in Local : f = ArpReply(h)
    BY <1>1
  <2>2. f.kind = "arp reply" /\ f.ip = h /\ f.mac = h
    BY <2>1 DEF ArpReply
  <2> QED
    BY <2>2 DEF IsFrame
<1>2. CASE \E h \in Host : f = EchoReply(h)
  <2>1. PICK h \in Host : f = EchoReply(h)
    BY <1>2
  <2>2. f.kind = "echo reply"
    BY <2>1 DEF EchoReply
  <2> QED
    BY <2>2 DEF IsFrame
<1>3. CASE f \in net /\ f.kind = "segment"
  BY <1>3 DEF Frames
<1> QED
  BY <1>1, <1>2, <1>3 DEF Inbound

LEMMA CacheAfterSound ==
  ASSUME Frames, cache \in Entry, Sound(cache), NEW f \in Inbound
  PROVE  CacheAfter(f) \in Entry /\ Sound(CacheAfter(f))
<1>1. f.kind = "arp reply" => f.ip \in Local /\ f.mac = f.ip
  BY InboundType
<1> QED
  BY <1>1, NetAssumption DEF CacheAfter, Entry, Sound

(* A resolved address is local and mapped to itself.                       *)
LEMMA ResolvedHop ==
  ASSUME NEW c, Sound(c), NEW ip, Resolved(c, ip)
  PROVE  c.mac = NextHop(ip)
BY DEF Sound, Resolved, NextHop

LEMMA HopLocal ==
  ASSUME NEW ip
  PROVE  NextHop(ip) \in Local /\ NextHop(NextHop(ip)) = NextHop(ip)
BY NetAssumption DEF NextHop
-----------------------------------------------------------------------------
(* The parts of Inv about a socket.                                        *)
LEMMA SockType ==
  ASSUME NEW S, S \in [Slot -> Sock], \A i \in Slot : Len(S[i].rcv) <= 1
  PROVE  \A i \in Slot :
           /\ S[i].state \in CLOSED..CLOSE_WAIT
           /\ {S[i].snd_nxt, S[i].snd_una, S[i].rcv_nxt} \subseteq 0..SeqMod - 1
           /\ Len(S[i].rcv) <= 1
BY DEF Sock, SeqNo

(* The command goes on with its socket, whose address is resolved.         *)
Stays ==
  /\ pc \in TcpPc \ {"resolve", "ends"} /\ pc' \in TcpPc \ {"resolve"}
  /\ sockets' \in [Slot -> Sock]
  /\ \A i \in Slot : i # cur => sockets'[i] = sockets[i]
  /\ Kept(sockets[cur], sockets'[cur]) /\ Len(sockets'[cur].rcv) <= 1
  /\ Frames'
  /\ UNCHANGED <<cache, pong, heard, dst, answered, commands, next_ephemeral,
                 cur, peer>>

LEMMA StaysKeeps ==
  ASSUME Inv, Stays
  PROVE  Inv'
<1>1. Typed'
  <2>1. \A i \in Slot : Len(sockets'[i].rcv) <= 1
    BY DEF Inv, Typed, TypeOK, Stays
  <2>2. \A i \in Slot :
          /\ sockets'[i].state \in CLOSED..CLOSE_WAIT
          /\ {sockets'[i].snd_nxt, sockets'[i].snd_una, sockets'[i].rcv_nxt}
               \subseteq 0..SeqMod - 1
          /\ Len(sockets'[i].rcv) <= 1
    BY <2>1, SockType DEF Stays
  <2> QED
    BY <2>2 DEF Inv, Typed, TypeOK, Stays, TcpPc
<1>2. cur \in Slot
  BY DEF Inv, Typed, TypeOK
<1>3. OneSlot'
  BY <1>2 DEF Inv, OneSlot, Stays, Kept
<1>4. NoNestedPoll'
  BY DEF Inv, NoNestedPoll, Stays, Kept, TcpPc
<1>5. Fresh'
  BY DEF Inv, Fresh, PingFresh, Stays, TcpPc, PingPc
<1> QED
  BY <1>1, <1>3, <1>4, <1>5 DEF Inv, Stays

(* The command is over and every slot free.                                *)
Leaves ==
  /\ pc' = "idle" /\ answered' = FALSE
  /\ sockets' \in [Slot -> Sock]
  /\ \A i \in Slot : ~sockets'[i].used /\ Len(sockets'[i].rcv) <= 1
  /\ Frames'
  /\ cache' \in Entry /\ Sound(cache')
  /\ pong' \in BOOLEAN
  /\ dst' \in Host /\ commands' \in 0..MaxCommands
  /\ cur' \in Slot /\ next_ephemeral' \in Nat
  /\ peer' \in [Conn -> Peer]
  /\ UNCHANGED heard

LEMMA LeavesKeeps ==
  ASSUME Inv, Leaves
  PROVE  Inv'
<1>1. Typed'
  <2>1. \A i \in Slot :
          /\ sockets'[i].state \in CLOSED..CLOSE_WAIT
          /\ {sockets'[i].snd_nxt, sockets'[i].snd_una, sockets'[i].rcv_nxt}
               \subseteq 0..SeqMod - 1
          /\ Len(sockets'[i].rcv) <= 1
    BY SockType DEF Leaves
  <2> QED
    BY <2>1 DEF Inv, Typed, TypeOK, Leaves
<1>2. OneSlot'
  BY DEF OneSlot, Leaves, TcpPc
<1>3. NoNestedPoll'
  BY DEF NoNestedPoll, Leaves
<1>4. Fresh'
  BY DEF Fresh, PingFresh, Leaves, PingPc
<1> QED
  BY <1>1, <1>2, <1>3, <1>4 DEF Inv, Leaves

(* The command has taken a slot and resolves the address or sent its SYN.  *)
Starts ==
  /\ pc' \in {"resolve", "syn"}
  /\ sockets' \in [Slot -> Sock]
  /\ \A i \in Slot : /\ sockets'[i].used => i = cur'
                     /\ Len(sockets'[i].rcv) <= 1
  /\ sockets'[cur'].dst = dst' /\ sockets'[cur'].conn \in Conn
  /\ pc' = "syn" => Resolved(cache', dst')
  /\ Frames'
  /\ cache' \in Entry /\ Sound(cache')
  /\ pong' \in BOOLEAN
  /\ dst' \in Host /\ commands' \in 0..MaxCommands
  /\ cur' \in Slot /\ next_ephemeral' \in Nat
  /\ UNCHANGED <<heard, answered, peer>>

LEMMA StartsKeeps ==
  ASSUME Inv, Starts
  PROVE  Inv'
<1>1. Typed'
  <2>1. \A i \in Slot :
          /\ sockets'[i].state \in CLOSED..CLOSE_WAIT
          /\ {sockets'[i].snd_nxt, sockets'[i].snd_una, sockets'[i].rcv_nxt}
               \subseteq 0..SeqMod - 1
          /\ Len(sockets'[i].rcv) <= 1
    BY SockType DEF Starts
  <2> QED
    <3>1. heard' \in BOOLEAN /\ peer' \in [Conn -> Peer]
      BY DEF Inv, Typed, TypeOK, Starts
    <3>2. TypeOK'
      BY <2>1, <3>1 DEF TypeOK, Starts
    <3> QED
      BY <3>1, <3>2 DEF Typed, Starts
<1>2. OneSlot'
  BY DEF OneSlot, Starts, TcpPc
<1>3. NoNestedPoll'
  BY DEF NoNestedPoll, Starts
<1>4. Fresh'
  BY DEF Inv, Fresh, PingFresh, Starts, PingPc
<1> QED
  BY <1>1, <1>2, <1>3, <1>4 DEF Inv, Starts
-----------------------------------------------------------------------------
(* A new segment to the peer, once its address is resolved.                *)
LEMMA SegmentFrame ==
  ASSUME NEW s \in Sock, NEW c, Sound(c), Resolved(c, s.dst),
         NEW flags, NEW len \in Nat
  PROVE  IsFrame(Segment(s, c, flags, len))
<1>1. c.mac = NextHop(s.dst)
  BY ResolvedHop
<1> QED
  BY <1>1 DEF Segment, IsFrame, Sock

LEMMA RequestFrame ==
  ASSUME NEW ip
  PROVE  IsFrame(ArpRequest(ip))
BY DEF ArpRequest, IsFrame

LEMMA TcpPollKeeps ==
  ASSUME Inv, pc \in {"syn", "send", "recv", "fin"}, NEW f \in Inbound,
         TcpPoll(f)
  PROVE  /\ sockets' \in [Slot -> Sock]
         /\ \A i \in Slot : i # cur => sockets'[i] = sockets[i]
         /\ Kept(sockets[cur], sockets'[cur])
         /\ Len(sockets'[cur].rcv) <= 1
         /\ Frames'
         /\ UNCHANGED <<cache, pong, heard, dst, commands, next_ephemeral,
                        cur, peer>>
<1> DEFINE s == sockets[cur]
           t == IF Matches(s, f) THEN Handle(s, f) ELSE s
<1>1. s \in Sock /\ Len(s.rcv) <= 1 /\ cur \in Slot
  BY DEF Inv, Typed, TypeOK
<1>2. IsFrame(f)
  BY InboundType DEF Inv
<1>3. Resolved(cache, s.dst)
  BY DEF Inv, NoNestedPoll
<1> HIDE DEF s
<1>4. t \in Sock /\ Kept(s, t) /\ Len(t.rcv) <= 1
  <2>1. CASE Matches(s, f)
    BY <1>1, <1>2, <2>1, HandleType DEF Matches
  <2>2. CASE ~Matches(s, f)
    BY <1>1, <2>2 DEF Kept
  <2> QED
    BY <2>1, <2>2
<1>5. /\ sockets' = [sockets EXCEPT ![cur] = t]
      /\ net' = IF Matches(s, f) /\ Answers(s, f)
                THEN net \cup {Segment(t, cache, {"ACK"}, 0)} ELSE net
  BY DEF TcpPoll, s
<1>6. UNCHANGED <<cache, pong, heard, dst, commands, next_ephemeral, cur, peer>>
  BY DEF TcpPoll, CacheInPoll
<1> HIDE DEF t
<1>7. IsFrame(Segment(t, cache, {"ACK"}, 0))
  <2>1. Resolved(cache, t.dst)
    BY <1>3, <1>4 DEF Kept
  <2> QED
    BY <2>1, <1>4, SegmentFrame DEF Inv
<1>8. Frames'
  BY <1>5, <1>7 DEF Frames, Inv
<1>9. sockets \in [Slot -> Sock]
  BY DEF Inv, Typed
<1> QED
  BY <1>1, <1>4, <1>5, <1>6, <1>8, <1>9 DEF s

LEMMA PollsKeep ==
  ASSUME Inv, ConnectPoll \/ SendPoll \/ RecvPoll \/ ClosePoll
  PROVE  Inv'
<1>1. PICK f \in Inbound : TcpPoll(f)
  BY DEF ConnectPoll, SendPoll, RecvPoll, ClosePoll
<1>2. /\ pc \in {"syn", "send", "recv", "fin"}
      /\ pc' \in {pc, "open", "recv", "close", "ends"}
      /\ UNCHANGED answered
  BY DEF ConnectPoll, SendPoll, RecvPoll, ClosePoll
<1>3. pc \in TcpPc \ {"resolve", "ends"} /\ pc' \in TcpPc \ {"resolve"}
  BY <1>2 DEF TcpPc
<1>4. Stays
  BY <1>1, <1>2, <1>3, TcpPollKeeps DEF Stays
<1> QED
  BY <1>4, StaysKeeps

(* tcp_send and tcp_recv outside their loops, and the FIN of tcp_close.    *)
LEMMA SendKeeps ==
  ASSUME Inv, Send
  PROVE  Inv'
<1> DEFINE s == [sockets[cur] EXCEPT !.snd_nxt = sockets[cur].snd_una]
<1>1. sockets[cur] \in Sock /\ Len(sockets[cur].rcv) <= 1 /\ cur \in Slot
      /\ sockets \in [Slot -> Sock] /\ sockets[cur].snd_una \in SeqNo
  BY DEF Inv, Typed, TypeOK, Sock
<1>2. s \in Sock /\ Kept(sockets[cur], s) /\ s.rcv = sockets[cur].rcv
  BY <1>1, SetSeq
<1>3. /\ pc \in TcpPc \ {"resolve", "ends"} /\ pc' \in TcpPc \ {"resolve"}
      /\ UNCHANGED <<cache, pong, heard, dst, answered, commands,
                     next_ephemeral, cur, peer>>
  BY DEF Send, TcpPc
<1>4. CASE UNCHANGED <<net, sockets>>
  BY <1>1, <1>3, <1>4, StaysKeeps DEF Stays, Kept, Inv, Frames
<1>5. CASE \E len \in MsgLens :
             /\ net' = net \cup {Segment(s, cache, {"PSH", "ACK"}, len)}
             /\ \/ sockets' = [sockets EXCEPT ![cur] =
                                 [s EXCEPT !.snd_nxt = SendTarget(s, len)]]
                \/ sockets' = [sockets EXCEPT ![cur] = s]
  <2>1. PICK len \in MsgLens :
          /\ net' = net \cup {Segment(s, cache, {"PSH", "ACK"}, len)}
          /\ \/ sockets' = [sockets EXCEPT ![cur] =
                              [s EXCEPT !.snd_nxt = SendTarget(s, len)]]
             \/ sockets' = [sockets EXCEPT ![cur] = s]
    BY <1>5
  <2>2. len \in Nat /\ s.snd_una \in SeqNo
    BY <1>2, TcpAssumption DEF Sock
  <2> DEFINE t == [s EXCEPT !.snd_nxt = SendTarget(s, len)]
  <2> HIDE DEF s
  <2>3. t \in Sock /\ Kept(s, t) /\ t.rcv = s.rcv
    <3>1. SendTarget(s, len) \in SeqNo
      BY <2>2, PlusType, SeqNoNat DEF SendTarget
    <3> QED
      BY <3>1, <1>2, SetSeq
  <2>4. IsFrame(Segment(s, cache, {"PSH", "ACK"}, len))
    <3>1. Resolved(cache, s.dst)
      BY <1>2 DEF Send, Inv, NoNestedPoll, Kept
    <3> QED
      BY <3>1, <2>2, <1>2, SegmentFrame DEF Inv
  <2>5. Frames'
    BY <2>1, <2>4 DEF Frames, Inv
  <2>6. sockets' = [sockets EXCEPT ![cur] = t]
        \/ sockets' = [sockets EXCEPT ![cur] = s]
    BY <2>1
  <2> HIDE DEF t
  <2>7. Stays
    BY <1>1, <1>2, <1>3, <2>3, <2>5, <2>6 DEF Stays, Kept
  <2> QED
    BY <2>7, StaysKeeps
<1> QED
  BY <1>4, <1>5 DEF Send

LEMMA RecvKeeps ==
  ASSUME Inv, Recv \/ SendRecvTimeout
  PROVE  Inv'
<1>1. sockets[cur] \in Sock /\ Len(sockets[cur].rcv) <= 1 /\ cur \in Slot
      /\ sockets \in [Slot -> Sock]
  BY DEF Inv, Typed, TypeOK
<1>2. /\ pc \in TcpPc \ {"resolve", "ends"} /\ pc' \in TcpPc \ {"resolve"}
      /\ UNCHANGED <<net, cache, pong, heard, dst, answered, commands,
                     next_ephemeral, cur, peer>>
  BY DEF Recv, SendRecvTimeout, TcpPc, netVars, tcpVars
<1>3. Frames'
  BY <1>2 DEF Inv, Frames
<1>4. CASE Recv
  <2> DEFINE t == [sockets[cur] EXCEPT !.rcv = <<>>]
  <2>1. t \in Sock /\ Kept(sockets[cur], t) /\ t.rcv = <<>>
    <3>1. <<>> \in Seq(Nat \X Nat)
      BY SMT
    <3> QED
      BY <1>1, <3>1, SetRcv
  <2>2. sockets' = [sockets EXCEPT ![cur] = t]
    BY <1>4 DEF Recv
  <2> HIDE DEF t
  <2>3. Stays
    BY <1>1, <1>2, <1>3, <2>1, <2>2, SMT DEF Stays
  <2> QED
    BY <2>3, StaysKeeps
<1>5. CASE SendRecvTimeout
  BY <1>1, <1>2, <1>3, <1>5, StaysKeeps
     DEF Stays, Kept, SendRecvTimeout, tcpVars
<1> QED
  BY <1>4, <1>5
-----------------------------------------------------------------------------
(* The ends of a command.                                                  *)
LEMMA ForgetKeeps ==
  ASSUME Inv, Forget
  PROVE  Frames' /\ peer' \in [Conn -> Peer]
<1>1. \A f \in net' : f \in net
  BY DEF Forget
<1>2. peer' \in [Conn -> Peer]
  BY NoPeerType DEF Forget
<1> QED
  BY <1>1, <1>2 DEF Inv, Frames

LEMMA ReleaseKeeps ==
  ASSUME Inv, pc \in TcpPc, Release
  PROVE  /\ sockets' \in [Slot -> Sock]
         /\ \A i \in Slot : ~sockets'[i].used /\ Len(sockets'[i].rcv) <= 1
         /\ Frames' /\ peer' \in [Conn -> Peer]
<1>1. sockets \in [Slot -> Sock] /\ cur \in Slot
      /\ \A i \in Slot : Len(sockets[i].rcv) <= 1
                         /\ (sockets[i].used => i = cur)
  BY DEF Inv, Typed, TypeOK, OneSlot
<1>2. sockets' = [sockets EXCEPT ![cur] = Unused] /\ Forget
  BY DEF Release
<1>3. Len(Unused.rcv) <= 1
  BY SMT DEF Unused
<1> QED
  BY <1>1, <1>2, <1>3, UnusedType, ForgetKeeps

LEMMA EndsKeep ==
  ASSUME Inv, pc \in TcpPc, Return(FALSE), Release,
         UNCHANGED <<cache, pong, heard, dst, commands, next_ephemeral, cur>>
  PROVE  Inv'
<1>1. Leaves
  BY ReleaseKeeps DEF Leaves, Return, Inv, Typed, TypeOK
<1> QED
  BY <1>1, LeavesKeeps

LEMMA TimeoutsKeep ==
  ASSUME Inv, ConnectTimeout \/ CloseEnds
  PROVE  Inv'
BY EndsKeep DEF ConnectTimeout, CloseEnds, TcpPc

LEMMA CloseKeeps ==
  ASSUME Inv, Close
  PROVE  Inv'
<1>1. sockets[cur] \in Sock /\ Len(sockets[cur].rcv) <= 1 /\ cur \in Slot
      /\ sockets \in [Slot -> Sock] /\ sockets[cur].snd_nxt \in SeqNo
  BY DEF Inv, Typed, TypeOK, Sock
<1>2. /\ pc \in TcpPc \ {"resolve", "ends"} /\ pc = "close"
      /\ UNCHANGED <<cache, pong, heard, dst, commands, next_ephemeral, cur>>
  BY DEF Close, TcpPc
<1>3. CASE sockets[cur].state = ESTABLISHED
  <2> DEFINE n == Plus(sockets[cur].snd_nxt, 1)
             s == [sockets[cur] EXCEPT !.snd_nxt = n]
             t == [s EXCEPT !.state = FIN_WAIT_1]
  <2>1. n \in SeqNo
    BY <1>1, PlusType, SeqNoNat
  <2>2. sockets' = [sockets EXCEPT ![cur] = t]
    BY <1>1, <1>3 DEF Close, Sock
  <2> HIDE DEF n
  <2>3. s \in Sock /\ Kept(sockets[cur], s) /\ s.rcv = sockets[cur].rcv
    BY <1>1, <2>1, SetSeq
  <2> HIDE DEF s
  <2>4. t \in Sock /\ Kept(s, t) /\ t.rcv = s.rcv
    <3>1. FIN_WAIT_1 \in CLOSED..CLOSE_WAIT
      BY SMT DEF FIN_WAIT_1, CLOSED, CLOSE_WAIT
    <3> QED
      BY <3>1, <2>3, SetState
  <2>5. IsFrame(Segment(sockets[cur], cache, {"FIN", "ACK"}, 0))
    BY <1>1, <1>2, SegmentFrame DEF Inv, NoNestedPoll
  <2>6. net' = net \cup {Segment(sockets[cur], cache, {"FIN", "ACK"}, 0)}
        /\ pc' = "fin" /\ UNCHANGED <<answered, peer>>
    BY <1>3 DEF Close
  <2>7. Frames'
    BY <2>5, <2>6 DEF Frames, Inv
  <2>8. pc' \in TcpPc \ {"resolve"}
    BY <2>6 DEF TcpPc
  <2> HIDE DEF t
  <2>9. Stays
    BY <1>1, <1>2, <2>2, <2>3, <2>4, <2>6, <2>7, <2>8 DEF Stays, Kept
  <2> QED
    BY <2>9, StaysKeeps
<1>4. CASE sockets[cur].state # ESTABLISHED
  BY <1>2, <1>4, EndsKeep DEF Close, TcpPc
<1> QED
  BY <1>3, <1>4
-----------------------------------------------------------------------------
(* The beginning of a tcp command.                                         *)
LEMMA SetUsed ==
  ASSUME NEW s \in Sock, NEW v \in BOOLEAN
  PROVE  LET t == [s EXCEPT !.used = v]
         IN  t \in Sock /\ t.used = v /\ t.rcv = s.rcv
BY DEF Sock

(* The SYN left, or the card refused it; c is the cache after the step.    *)
LEMMA SendSynKeeps ==
  ASSUME Inv, NEW s \in Sock, NEW slot \in Slot, cur' = slot, NEW c, c \in Entry,
         Sound(c), cache' = c, Resolved(c, s.dst), s.dst = dst', s.conn \in Conn,
         Len(s.rcv) <= 1, \A i \in Slot : sockets[i].used => i = slot,
         SendSyn(s, slot, c, net),
         dst' \in Host, commands' \in 0..MaxCommands, next_ephemeral' \in Nat,
         pong' \in BOOLEAN, UNCHANGED <<heard, peer>>
  PROVE  Inv'
<1>1. sockets \in [Slot -> Sock] /\ \A i \in Slot : Len(sockets[i].rcv) <= 1
  BY DEF Inv, Typed, TypeOK
<1>2. peer' \in [Conn -> Peer]
  BY DEF Inv, Typed
<1>3. IsFrame(Segment(s, c, {"SYN"}, 0))
  BY SegmentFrame
<1>4. net' = net \cup {Segment(s, c, {"SYN"}, 0)}
  BY DEF SendSyn
<1>5. Frames'
  BY <1>3, <1>4 DEF Inv, Frames
<1> DEFINE n == Plus(s.snd_nxt, 1)
           t == [s EXCEPT !.snd_nxt = n]
           u == [s EXCEPT !.used = FALSE]
<1>6. t \in Sock /\ Kept(s, t) /\ t.rcv = s.rcv
  <2>1. n \in SeqNo
    BY PlusType, SeqNoNat DEF Sock
  <2> HIDE DEF n
  <2> QED
    BY <2>1, SetSeq
<1>7. u \in Sock /\ ~u.used /\ u.rcv = s.rcv
  BY SetUsed
<1>8. \/ /\ pc' = "syn" /\ UNCHANGED answered
         /\ sockets' = [sockets EXCEPT ![slot] = t]
      \/ /\ pc' = "idle" /\ answered' = FALSE
         /\ sockets' = [sockets EXCEPT ![slot] = u]
  BY DEF SendSyn, Return
<1> HIDE DEF n, t, u
<1>9. CASE pc' = "syn" /\ UNCHANGED answered
           /\ sockets' = [sockets EXCEPT ![slot] = t]
  <2>1. Starts
    BY <1>1, <1>5, <1>6, <1>9 DEF Starts, Kept
  <2> QED
    BY <2>1, StartsKeeps
<1>10. CASE pc' = "idle" /\ answered' = FALSE
            /\ sockets' = [sockets EXCEPT ![slot] = u]
  <2>1. Leaves
    BY <1>1, <1>2, <1>5, <1>7, <1>10 DEF Leaves
  <2> QED
    BY <2>1, LeavesKeeps
<1> QED
  BY <1>8, <1>9, <1>10

LEMMA ConnectKeeps ==
  ASSUME Inv, NEW ip \in Server, NEW isn \in Isn, Connect(ip, isn)
  PROVE  Inv'
<1> DEFINE free == {i \in Slot : ~sockets[i].used}
           slot == CHOOSE i \in free : \A j \in free : i <= j
           s == [used |-> TRUE, state |-> SYN_SENT, dst |-> ip,
                 port |-> next_ephemeral, conn |-> commands, snd_nxt |-> isn,
                 snd_una |-> isn, rcv_nxt |-> 0, isn |-> isn, rcv |-> <<>>]
<1>1. /\ pc = "idle" /\ commands < MaxCommands /\ commands' = commands + 1
      /\ dst' = ip /\ UNCHANGED <<cache, pong, heard, peer>>
  BY DEF Connect, Begin
<1>2. /\ \A i \in Slot : ~sockets[i].used
      /\ sockets \in [Slot -> Sock] /\ next_ephemeral \in Nat
      /\ commands \in 0..MaxCommands /\ cur \in Slot
      /\ cache \in Entry /\ Sound(cache) /\ pong \in BOOLEAN
      /\ \A i \in Slot : Len(sockets[i].rcv) <= 1
  BY <1>1 DEF Inv, OneSlot, TcpPc, Typed, TypeOK
<1>3. /\ dst' \in Host /\ commands' \in 0..MaxCommands /\ commands \in Conn
      /\ commands \in Nat /\ isn \in SeqNo
  BY <1>1, <1>2, NetAssumption, TcpAssumption, SMT DEF Conn, SeqNo
<1>4. slot \in Slot /\ free # {}
  <2>1. 0 \in free /\ \A j \in free : 0 <= j
    BY <1>2, TcpAssumption, SMT DEF Slot
  <2>2. slot \in free
    BY <2>1
  <2> QED
    BY <2>1, <2>2
<1>5. s \in Sock /\ s.dst = ip /\ s.conn = commands /\ s.rcv = <<>>
  <2>1. ip \in Host /\ SYN_SENT \in CLOSED..CLOSE_WAIT
        /\ <<>> \in Seq(Nat \X Nat)
    BY TcpAssumption, SMT DEF SYN_SENT, CLOSED, CLOSE_WAIT
  <2> QED
    BY <2>1, <1>2, <1>3, SeqNoNat DEF Sock
<1>6. /\ cur' = slot
      /\ next_ephemeral' = NextPort(next_ephemeral)
      /\ IF Resolved(cache, ip)
         THEN SendSyn(s, slot, cache, net)
         ELSE /\ net' = net \cup {ArpRequest(ip)}
              /\ sockets' = [sockets EXCEPT ![slot] = s]
              /\ pc' = "resolve"
              /\ UNCHANGED answered
  BY <1>4 DEF Connect
<1>7. next_ephemeral' \in Nat
  BY <1>2, <1>6, SMT DEF NextPort
<1> HIDE DEF free, slot, s
<1>8. Len(s.rcv) <= 1
  BY <1>5, SMT
<1>9. CASE Resolved(cache, ip)
  BY <1>1, <1>2, <1>3, <1>4, <1>5, <1>6, <1>7, <1>8, <1>9, SendSynKeeps
<1>10. CASE ~Resolved(cache, ip)
  <2>1. Frames'
    BY <1>6, <1>10, RequestFrame DEF Frames, Inv
  <2>2. Starts
    BY <1>1, <1>2, <1>3, <1>4, <1>5, <1>6, <1>7, <1>8, <1>10, <2>1 DEF Starts
  <2> QED
    BY <2>2, StartsKeeps
<1> QED
  BY <1>9, <1>10

LEMMA ConnectArpPollKeeps ==
  ASSUME Inv, ConnectArpPoll
  PROVE  Inv'
<1>1. PICK f \in Inbound :
        LET s == sockets[cur]
            t == IF Matches(s, f) THEN Handle(s, f) ELSE s
        IN  /\ cache' = CacheAfter(f)
            /\ pong' = PongAfter(f)
            /\ IF Resolved(cache', dst)
               THEN SendSyn(t, cur, cache', net)
               ELSE /\ sockets' = [sockets EXCEPT ![cur] = t]
                    /\ UNCHANGED <<net, pc, answered>>
  BY DEF ConnectArpPoll
<1> DEFINE s == sockets[cur]
           t == IF Matches(s, f) THEN Handle(s, f) ELSE s
<1>2. /\ pc = "resolve"
      /\ UNCHANGED <<heard, dst, commands, next_ephemeral, cur, peer>>
  BY DEF ConnectArpPoll
<1>3. /\ s \in Sock /\ Len(s.rcv) <= 1 /\ cur \in Slot /\ s.dst = dst
      /\ sockets \in [Slot -> Sock] /\ next_ephemeral \in Nat
      /\ commands \in 0..MaxCommands /\ dst \in Host /\ pong \in BOOLEAN
      /\ \A i \in Slot : /\ sockets[i].used => i = cur
                         /\ Len(sockets[i].rcv) <= 1
  BY <1>2 DEF Inv, Typed, TypeOK, OneSlot, TcpPc
<1>4. s.conn \in Conn
  BY <1>2 DEF Inv, OneSlot, TcpPc
<1>5. IsFrame(f) /\ cache' \in Entry /\ Sound(cache') /\ pong' \in BOOLEAN
  BY <1>1, <1>3, InboundType, CacheAfterSound DEF Inv, Typed, TypeOK, PongAfter
<1> HIDE DEF s
<1>6. t \in Sock /\ Kept(s, t) /\ Len(t.rcv) <= 1
  <2>1. CASE Matches(s, f)
    BY <1>3, <1>5, <2>1, HandleType DEF Matches
  <2>2. CASE ~Matches(s, f)
    BY <1>3, <2>2 DEF Kept
  <2> QED
    BY <2>1, <2>2
<1>7. IF Resolved(cache', dst)
      THEN SendSyn(t, cur, cache', net)
      ELSE /\ sockets' = [sockets EXCEPT ![cur] = t]
           /\ UNCHANGED <<net, pc, answered>>
  BY <1>1 DEF s
<1> HIDE DEF t
<1>8. t.dst = dst /\ t.conn \in Conn
  BY <1>3, <1>4, <1>6 DEF Kept
<1>9. CASE Resolved(cache', dst)
  BY <1>2, <1>3, <1>5, <1>6, <1>7, <1>8, <1>9, SendSynKeeps
<1>10. CASE ~Resolved(cache', dst)
  <2>1. Frames'
    BY <1>7, <1>10 DEF Frames, Inv
  <2>2. Starts
    BY <1>2, <1>3, <1>5, <1>6, <1>7, <1>8, <1>10, <2>1 DEF Starts
  <2> QED
    BY <2>2, StartsKeeps
<1> QED
  BY <1>9, <1>10
-----------------------------------------------------------------------------
(* The peer.                                                               *)
LEMMA SetPeer ==
  ASSUME NEW p \in Peer
  PROVE  /\ \A v \in SeqNo : [p EXCEPT !.snd = v] \in Peer
         /\ \A v \in SeqNo : [p EXCEPT !.rcv = v] \in Peer
         /\ \A v \in Nat : [p EXCEPT !.port = v] \in Peer
         /\ \A v \in Int : [p EXCEPT !.left = v] \in Peer
         /\ [p EXCEPT !.up = TRUE] \in Peer
BY DEF Peer

LEMMA ReplyFrame ==
  ASSUME NEW c \in Nat, NEW p \in Peer, NEW flags, NEW len \in Nat
  PROVE  IsFrame(Reply(c, flags, p, len))
BY DEF IsFrame, Reply, Peer

(* The peer acts for the connection of the running command.                *)
LEMMA PeerConn ==
  ASSUME Inv, NEW c, NEW p, NEW F, PeerActs(c, p, F)
  PROVE  c \in Conn /\ c \in Nat /\ peer[c] \in Peer
<1>1. c \in Conn
  BY DEF Inv, Typed, TypeOK, OneSlot, PeerActs
<1>2. c \in Nat
  BY <1>1, NetAssumption, SMT DEF Conn
<1> QED
  BY <1>1, <1>2 DEF Inv, Typed

LEMMA PeerKeeps ==
  ASSUME Inv, NEW c, NEW p \in Peer, NEW F, PeerActs(c, p, F),
         \A f \in F : IsFrame(f)
  PROVE  Inv'
<1>1. UNCHANGED <<cache, pong, heard, pc, dst, answered, commands, sockets,
                  next_ephemeral, cur>>
  BY DEF PeerActs, shellVars
<1>2. peer' \in [Conn -> Peer]
  BY DEF PeerActs, Inv, Typed
<1>3. Typed'
  BY <1>1, <1>2 DEF Inv, Typed, TypeOK
<1>4. Frames'
  BY DEF PeerActs, Inv, Frames
<1> QED
  BY <1>1, <1>3, <1>4
     DEF Inv, OneSlot, NoNestedPoll, Fresh, PingFresh

LEMMA PeerStepKeeps ==
  ASSUME Inv, PeerStep
  PROVE  Inv'
<1>1. CASE PeerAccepts
  <2>1. PICK f \in FromUs, i \in PeerIsn :
          LET p == [open |-> TRUE, up |-> FALSE, port |-> f.port, iss |-> i,
                    snd |-> i, rcv |-> Plus(f.seq, 1), left |-> MaxSegs]
          IN  PeerActs(f.conn, [p EXCEPT !.snd = Plus(i, 1)],
                       {Reply(f.conn, {"SYN", "ACK"}, p, 0)})
    BY <1>1 DEF PeerAccepts
  <2> DEFINE n == Plus(f.seq, 1)
             p == [open |-> TRUE, up |-> FALSE, port |-> f.port, iss |-> i,
                   snd |-> i, rcv |-> n, left |-> MaxSegs]
             q == [p EXCEPT !.snd = Plus(i, 1)]
  <2>2. f.port \in Nat /\ f.seq \in Nat /\ i \in SeqNo /\ i \in Nat
    BY SeqNoNat, TcpAssumption DEF FromUs, Inv, Frames, IsFrame, SeqNo
  <2>3. p \in Peer
    <3>1. n \in SeqNo /\ MaxSegs \in Int
      BY <2>2, PlusType, TcpAssumption, SMT
    <3> HIDE DEF n
    <3> QED
      BY <2>2, <3>1 DEF Peer
  <2>4. PeerActs(f.conn, q, {Reply(f.conn, {"SYN", "ACK"}, p, 0)})
    BY <2>1
  <2> HIDE DEF p
  <2>5. q \in Peer
    BY <2>2, <2>3, PlusType, SetPeer
  <2> HIDE DEF q
  <2>6. f.conn \in Nat
    BY <2>4, PeerConn
  <2>7. IsFrame(Reply(f.conn, {"SYN", "ACK"}, p, 0))
    BY <2>3, <2>6, ReplyFrame
  <2> QED
    BY <2>4, <2>5, <2>7, PeerKeeps
<1>2. CASE PeerRefuses
  <2>1. PICK f \in FromUs :
          PeerActs(f.conn, peer[f.conn],
                   {Reply(f.conn, {"RST", "ACK"},
                          [NoPeer EXCEPT !.port = f.port,
                                         !.rcv = Plus(f.seq, 1)], 0)})
    BY <1>2 DEF PeerRefuses
  <2> DEFINE p == [NoPeer EXCEPT !.port = f.port]
             q == [p EXCEPT !.rcv = Plus(f.seq, 1)]
  <2>2. f.port \in Nat /\ f.seq \in Nat
    BY SeqNoNat DEF FromUs, Inv, Frames, IsFrame
  <2>3. p \in Peer
    BY <2>2, NoPeerType, SetPeer
  <2>4. PeerActs(f.conn, peer[f.conn], {Reply(f.conn, {"RST", "ACK"}, q, 0)})
    BY <2>1
  <2> HIDE DEF p
  <2>5. q \in Peer
    BY <2>2, <2>3, PlusType, SetPeer
  <2> HIDE DEF q
  <2>6. f.conn \in Nat /\ peer[f.conn] \in Peer
    BY <2>4, PeerConn
  <2>7. IsFrame(Reply(f.conn, {"RST", "ACK"}, q, 0))
    BY <2>5, <2>6, ReplyFrame
  <2> QED
    BY <2>4, <2>6, <2>7, PeerKeeps
<1>3. CASE PeerGets
  <2>1. PICK f \in FromUs :
          LET p == peer[f.conn]
              q == [p EXCEPT !.up = TRUE,
                             !.rcv = IF f.seq = @ THEN Plus(@, f.len) ELSE @]
          IN  PeerActs(f.conn, q,
                       IF f.len > 0 THEN {Reply(f.conn, {"ACK"}, q, 0)} ELSE {})
    BY <1>3 DEF PeerGets
  <2>2. f.conn \in Nat /\ peer[f.conn] \in Peer
    BY <2>1, PeerConn
  <2> DEFINE p == [peer[f.conn] EXCEPT !.up = TRUE]
             n == IF f.seq = p.rcv THEN Plus(p.rcv, f.len) ELSE p.rcv
             q == [p EXCEPT !.rcv = n]
             F == IF f.len > 0 THEN {Reply(f.conn, {"ACK"}, q, 0)} ELSE {}
  <2>3. p \in Peer /\ p.rcv \in SeqNo /\ f.len \in Nat
    <3>1. p \in Peer
      BY <2>2, SetPeer
    <3>2. f.len \in Nat
      BY DEF FromUs, Inv, Frames, IsFrame
    <3> HIDE DEF p
    <3> QED
      BY <3>1, <3>2 DEF Peer
  <2>4. PeerActs(f.conn, q, F)
    BY <2>1, <2>2 DEF Peer
  <2> HIDE DEF p
  <2>5. n \in SeqNo
    BY <2>3, PlusType, SeqNoNat
  <2> HIDE DEF n
  <2>6. q \in Peer
    BY <2>3, <2>5, SetPeer
  <2> HIDE DEF q
  <2>7. \A g \in F : IsFrame(g)
    BY <2>2, <2>6, ReplyFrame
  <2> QED
    BY <2>4, <2>6, <2>7, PeerKeeps, SMT
<1>4. CASE PeerSends
  <2>1. PICK c \in Conn :
          PeerActs(c, [peer[c] EXCEPT !.snd = Plus(@, 1), !.left = @ - 1],
                   {Reply(c, {"PSH", "ACK"}, peer[c], 1)})
    BY <1>4 DEF PeerSends
  <2>2. c \in Nat /\ peer[c] \in Peer
    BY <2>1, PeerConn
  <2> DEFINE n == Plus(peer[c].snd, 1)
             p == [peer[c] EXCEPT !.snd = n]
             q == [p EXCEPT !.left = p.left - 1]
  <2>3. n \in SeqNo
    BY <2>2, PlusType, SeqNoNat DEF Peer
  <2>4. PeerActs(c, q, {Reply(c, {"PSH", "ACK"}, peer[c], 1)})
    BY <2>1, <2>2 DEF Peer
  <2> HIDE DEF n
  <2>5. p \in Peer
    BY <2>2, <2>3, SetPeer
  <2> HIDE DEF p
  <2>6. p.left - 1 \in Int
    BY <2>5, SMT DEF Peer
  <2>7. q \in Peer
    BY <2>5, <2>6, SetPeer
  <2> HIDE DEF q
  <2>8. IsFrame(Reply(c, {"PSH", "ACK"}, peer[c], 1))
    BY <2>2, ReplyFrame
  <2> QED
    BY <2>4, <2>7, <2>8, PeerKeeps
<1>5. CASE PeerEnds
  <2>1. PICK c \in Conn :
          \E f \in {Reply(c, {"FIN", "ACK"}, peer[c], 0),
                    Reply(c, {"FIN", "ACK"}, peer[c], 1),
                    Reply(c, {"RST", "ACK"}, peer[c], 0)} :
            PeerActs(c, [peer[c] EXCEPT !.left = 0], {f})
    BY <1>5 DEF PeerEnds
  <2> DEFINE q == [peer[c] EXCEPT !.left = 0]
  <2>2. c \in Nat /\ peer[c] \in Peer
    BY <2>1, NetAssumption, SMT DEF Conn, Inv, Typed
  <2>3. q \in Peer
    BY <2>2, SMT DEF Peer
  <2>4. PICK f : PeerActs(c, q, {f}) /\ IsFrame(f)
    BY <2>1, <2>2, ReplyFrame
  <2> HIDE DEF q
  <2> QED
    BY <2>3, <2>4, PeerKeeps
<1> QED
  BY <1>1, <1>2, <1>3, <1>4, <1>5 DEF PeerStep
-----------------------------------------------------------------------------
(* The ping command, which leaves the sockets alone.                       *)
LEMMA PingKeeps ==
  ASSUME Inv, UNCHANGED tcpVars, pc \notin TcpPc,
         pc' \in {"idle"} \cup PingPc,
         cache' \in Entry, Sound(cache'), Frames', pong' \in BOOLEAN,
         heard' \in BOOLEAN, dst' \in Host, commands' \in 0..MaxCommands,
         Fresh'
  PROVE  Inv'
<1>1. UNCHANGED <<sockets, next_ephemeral, cur, peer>>
  BY DEF tcpVars
<1>2. Typed'
  BY <1>1 DEF Inv, Typed, TypeOK, PingPc
<1>3. OneSlot' /\ NoNestedPoll'
  BY <1>1 DEF Inv, OneSlot, NoNestedPoll, PingPc, TcpPc
<1>4. Sound(cache)'
  BY DEF Sound
<1> QED
  BY <1>2, <1>3, <1>4 DEF Inv

LEMMA SendEchoKeeps ==
  ASSUME Inv, UNCHANGED tcpVars, pc \notin TcpPc, ~answered',
         dst' \in Host, commands' \in 0..MaxCommands,
         NEW c \in Entry, Sound(c), Resolved(c, NextHop(dst')),
         SendEcho(dst', c, net)
  PROVE  Inv'
<1>1. c.mac = NextHop(dst')
  BY ResolvedHop, HopLocal
<1>2. cache' = c
  BY DEF Resolved, SendEcho, Entry
<1>3. IsFrame(Echo(dst', c.mac))
  BY <1>1 DEF IsFrame, Echo
<1>4. Frames'
  BY <1>3 DEF SendEcho, Inv, Frames
<1>5. pc' = "echo" /\ pong' = FALSE /\ heard' = FALSE
  BY DEF SendEcho
<1>6. Fresh'
  BY <1>5 DEF Fresh, PingFresh
<1> QED
  BY <1>2, <1>4, <1>5, <1>6, PingKeeps DEF PingPc

LEMMA PingBegins ==
  ASSUME Inv, UNCHANGED tcpVars, NEW ip \in Pinged, Ping(ip)
  PROVE  Inv'
<1>1. /\ pc = "idle" /\ pc \notin TcpPc /\ dst' = ip /\ dst' \in Host
      /\ commands' \in 0..MaxCommands /\ ~answered'
  BY NetAssumption, SMT DEF Ping, Begin, Inv, Typed, TypeOK, TcpPc
<1>2. cache \in Entry /\ Sound(cache) /\ pong \in BOOLEAN /\ heard \in BOOLEAN
  BY DEF Inv, Typed, TypeOK
<1>3. CASE Resolved(cache, NextHop(ip))
  BY <1>1, <1>2, <1>3, SendEchoKeeps DEF Ping
<1>4. CASE ~Resolved(cache, NextHop(ip))
  <2>1. /\ net' = net \cup {ArpRequest(NextHop(ip))}
        /\ pc' = "arp1"
        /\ UNCHANGED <<cache, pong, heard>>
    BY <1>4 DEF Ping
  <2>2. IsFrame(ArpRequest(NextHop(ip)))
    BY DEF IsFrame, ArpRequest
  <2>3. Frames'
    BY <2>1, <2>2 DEF Inv, Frames
  <2>4. Fresh'
    BY <1>1, <2>1 DEF Fresh, PingFresh
  <2> QED
    BY <1>1, <1>2, <2>1, <2>3, <2>4, PingKeeps DEF PingPc
<1> QED
  BY <1>3, <1>4

LEMMA PingArpPollKeeps ==
  ASSUME Inv, UNCHANGED tcpVars, PingArpPoll
  PROVE  Inv'
<1>1. /\ pc \in PingPc /\ pc \notin TcpPc /\ pc # "echo"
      /\ UNCHANGED <<dst, answered, commands>>
      /\ dst \in Host /\ commands \in 0..MaxCommands /\ ~answered
      /\ pong \in BOOLEAN /\ heard \in BOOLEAN
  BY DEF PingArpPoll, Inv, Typed, TypeOK, Fresh, PingPc, TcpPc
<1>2. PICK f \in Inbound :
        IF Resolved(CacheAfter(f), NextHop(dst))
        THEN SendEcho(dst, CacheAfter(f), net)
        ELSE /\ cache' = CacheAfter(f)
             /\ pong' = PongAfter(f)
             /\ UNCHANGED <<net, pc, heard>>
  BY DEF PingArpPoll
<1> DEFINE c == CacheAfter(f)
<1>3. c \in Entry /\ Sound(c)
  BY CacheAfterSound DEF Inv, Typed, TypeOK
<1>4. CASE Resolved(c, NextHop(dst))
  <2>1. SendEcho(dst', c, net) /\ Resolved(c, NextHop(dst'))
    BY <1>1, <1>2, <1>4
  <2> HIDE DEF c
  <2> QED
    BY <1>1, <1>3, <2>1, SendEchoKeeps
<1>5. CASE ~Resolved(c, NextHop(dst))
  <2>1. cache' = c /\ pong' \in BOOLEAN /\ UNCHANGED <<net, pc, heard>>
    BY <1>1, <1>2, <1>5 DEF PongAfter
  <2> HIDE DEF c
  <2>2. Frames'
    BY <2>1 DEF Inv, Frames
  <2>3. Fresh'
    BY <1>1, <2>1 DEF Fresh, PingFresh
  <2> QED
    BY <1>1, <1>3, <2>1, <2>2, <2>3, PingKeeps
<1> QED
  BY <1>4, <1>5

LEMMA PingPollKeeps ==
  ASSUME Inv, UNCHANGED tcpVars, PingPoll
  PROVE  Inv'
<1>1. /\ pc = "echo" /\ pc \in PingPc /\ pc \notin TcpPc
      /\ UNCHANGED <<net, dst, commands>>
      /\ dst \in Host /\ commands \in 0..MaxCommands /\ ~answered
      /\ pong \in BOOLEAN /\ heard \in BOOLEAN /\ (pong => heard)
  BY DEF PingPoll, Inv, Typed, TypeOK, Fresh, PingPc, TcpPc
<1>2. PICK f \in Inbound :
        /\ cache' = CacheAfter(f)
        /\ pong' = PongAfter(f)
        /\ heard' = (heard \/ f.kind = "echo reply")
  BY DEF PingPoll
<1>3. cache' \in Entry /\ Sound(cache')
  BY <1>2, CacheAfterSound DEF Inv, Typed, TypeOK
<1>4. pong' \in BOOLEAN /\ heard' \in BOOLEAN /\ (pong' => heard')
  BY <1>1, <1>2 DEF PongAfter
<1>5. IF pong' THEN pc' = "idle" /\ answered' = TRUE
               ELSE UNCHANGED <<pc, answered>>
  BY DEF PingPoll, Return
<1>6. Fresh'
  BY <1>1, <1>4, <1>5 DEF Fresh, PingFresh, PingPc
<1>7. pc' \in {"idle"} \cup PingPc
  BY <1>1, <1>5
<1>8. Frames'
  BY <1>1 DEF Inv, Frames
<1> QED
  BY <1>1, <1>3, <1>4, <1>6, <1>7, <1>8, PingKeeps

LEMMA PingEndsKeep ==
  ASSUME Inv, UNCHANGED tcpVars, PingArpTimeout \/ PingTimeout
  PROVE  Inv'
<1>1. UNCHANGED <<net, cache, pong, heard, dst, commands>>
  BY DEF PingArpTimeout, PingTimeout, netVars
<1>2. pc \in PingPc /\ pc \notin TcpPc
  BY DEF PingArpTimeout, PingTimeout, PingPc, TcpPc
<1>3. ~answered
  BY <1>2 DEF Inv, Fresh
<1>4. ~answered' /\ pc' \in {"idle", "arp2"}
  BY <1>3, SMT DEF PingArpTimeout, PingTimeout, Return
<1>5. Fresh'
  BY <1>4 DEF Fresh, PingFresh
<1>6. Frames' /\ Sound(cache')
  BY <1>1 DEF Inv, Frames
<1> QED
  BY <1>1, <1>2, <1>4, <1>5, <1>6, PingKeeps DEF Inv, Typed, TypeOK, PingPc
-----------------------------------------------------------------------------
LEMMA InitHolds ==
  ASSUME Init
  PROVE  Inv
<1>1. /\ sockets = [i \in Slot |-> Unused] /\ pc = "idle" /\ net = {}
      /\ cache = NoEntry /\ ~answered /\ cur = 0 /\ 0 \in Slot
      /\ next_ephemeral = 40000 /\ commands = 0
      /\ pong = FALSE /\ heard = FALSE /\ dst = Gateway
      /\ peer = [c \in Conn |-> NoPeer]
  BY TcpAssumption, SMT DEF Init, NetInit, Slot
<1>2. \A i \in Slot : sockets[i] \in Sock /\ ~sockets[i].used
  BY <1>1, UnusedType, SMT
<1>3. \A i \in Slot : Len(sockets[i].rcv) <= 1
  <2>1. Len(Unused.rcv) <= 1
    BY SMT DEF Unused
  <2> QED
    BY <1>1, <2>1, SMT
<1>4. sockets \in [Slot -> Sock] /\ peer \in [Conn -> Peer]
  BY <1>1, <1>2, NoPeerType, SMT
<1>5. cache \in Entry /\ Sound(cache) /\ dst \in Host
  BY <1>1, NetAssumption, SMT DEF NoEntry, Entry, Sound
<1>6. Typed
  <2>1. commands \in 0..MaxCommands
    BY <1>1, NetAssumption, SMT
  <2>2. \A i \in Slot :
          /\ sockets[i].state \in CLOSED..CLOSE_WAIT
          /\ {sockets[i].snd_nxt, sockets[i].snd_una, sockets[i].rcv_nxt}
               \subseteq 0..SeqMod - 1
          /\ Len(sockets[i].rcv) <= 1
    BY <1>3, <1>4, SockType
  <2>3. cur \in Slot /\ pong \in BOOLEAN /\ heard \in BOOLEAN
    <3>1. cur \in Slot
      BY <1>1, SMT
    <3>2. pong = FALSE /\ heard = FALSE
      BY <1>1, SMT
    <3> QED
      BY <3>1, <3>2
  <2>4. TypeOK
    BY <1>1, <1>5, <2>1, <2>2, <2>3, SMT DEF TypeOK
  <2> QED
    BY <1>1, <1>4, <2>4, SMT DEF Typed
<1> QED
  BY <1>1, <1>2, <1>5, <1>6, SMT
     DEF Inv, Frames, OneSlot, NoNestedPoll, Fresh, PingFresh, PingPc, TcpPc

LEMMA NextKeeps ==
  ASSUME Inv, [Next]_vars
  PROVE  Inv'
<1>1. CASE UNCHANGED vars
  <2>1. UNCHANGED <<net, cache, pong, heard, pc, dst, answered, commands,
                    sockets, next_ephemeral, cur, peer>>
    BY <1>1 DEF vars, netVars, shellVars, tcpVars
  <2>2. Typed'
    BY <2>1 DEF Inv, Typed, TypeOK
  <2>3. Frames' /\ Sound(cache)' /\ OneSlot' /\ NoNestedPoll' /\ Fresh'
    BY <2>1 DEF Inv, Frames, Sound, OneSlot, NoNestedPoll, Resolved, Fresh,
                PingFresh
  <2> QED
    BY <2>2, <2>3 DEF Inv
<1>2. CASE NetNext /\ UNCHANGED tcpVars
  <2>1. PICK ip \in Pinged \cup {Gateway} :
          \/ ip \in Pinged /\ Ping(ip)
          \/ PingArpPoll \/ PingPoll \/ PingArpTimeout \/ PingTimeout
    BY <1>2 DEF NetNext
  <2> QED
    BY <1>2, <2>1, PingBegins, PingArpPollKeeps, PingPollKeeps, PingEndsKeep
<1>3. CASE TcpStep
  BY <1>3, ConnectKeeps, ConnectArpPollKeeps, PollsKeep, SendKeeps, RecvKeeps,
     TimeoutsKeep, CloseKeeps
     DEF TcpStep
<1>4. CASE PeerStep
  BY <1>4, PeerStepKeeps
<1> QED
  BY <1>1, <1>2, <1>3, <1>4 DEF Next

(* The inductive invariant: only the running command's slot is in use and  *)
(* its hop is resolved; what is cached is true; what was sent is addressed *)
(* to the next hop; a reply counts only after the request.                 *)
THEOREM Safety == Spec => []Inv
<1>1. Init => Inv
  BY InitHolds
<1>2. Inv /\ [Next]_vars => Inv'
  BY NextKeeps
<1> QED
  BY <1>1, <1>2, PTL DEF Spec

(* Whatever is received, sockets, cache entry and command keep their       *)
(* types, sequence numbers their width, and tcp_handle_packet's rcv_buf    *)
(* holds at most one segment.                                              *)
THEOREM TypeCorrect == Spec => []TypeOK
<1>1. Inv => TypeOK
  BY DEF Inv, Typed
<1> QED
  BY <1>1, Safety, PTL

(* net_send_ipv4 and send_tcp_segment take the hardware address from the   *)
(* only ARP entry, which any reply replaces: it is that of the next hop in *)
(* every frame sent.                                                       *)
THEOREM FramesAddressed == Spec => []FramesReachNextHop
<1>1. Inv => FramesReachNextHop
  BY DEF Inv, Frames, IsFrame, FramesReachNextHop
<1> QED
  BY <1>1, Safety, PTL

(* Every path out of the tcp commands, timeouts included, frees the slot   *)
(* that tcp_connect took, for any number of slots and commands.            *)
THEOREM NoSlotLost == Spec => []NoSlotLeak
<1>1. Inv => NoSlotLeak
  BY DEF Inv, OneSlot, NoSlotLeak, TcpPc
<1> QED
  BY <1>1, Safety, PTL

(* tcp_handle_packet, called while polling, finds the peer's address in    *)
(* the cache when it acknowledges: net_arp_resolve never polls inside a    *)
(* poll.                                                                   *)
THEOREM NoRecursivePoll == Spec => []NoNestedPoll
<1>1. Inv => NoNestedPoll
  BY DEF Inv
<1> QED
  BY <1>1, Safety, PTL

(* net_ping clears ping_reply_received after resolving the address, so a   *)
(* reply seen while it waited for ARP never counts for the new request.    *)
THEOREM FreshReplies == Spec => []PingFresh
<1>1. Inv => PingFresh
  BY DEF Inv, Fresh
<1> QED
  BY <1>1, Safety, PTL
-----------------------------------------------------------------------------
(* Sequence numbers.                                                       *)

LEMMA Division ==
  ASSUME NEW a \in Nat
  PROVE  \E q \in Nat : a = q * SeqMod + (a % SeqMod)
<1>1. SeqMod \in Nat \ {0}
  BY TcpAssumption
<1>2. PICK q \in Int : q = a \div SeqMod
  BY <1>1, SMT
<1>3. q >= 0 /\ a = q * SeqMod + (a % SeqMod)
  BY <1>1, <1>2, SMT
<1> QED
  BY <1>3, SMT

LEMMA Remainder ==
  ASSUME NEW q \in Int, NEW r \in SeqNo, q * SeqMod + r \in Nat
  PROVE  (q * SeqMod + r) % SeqMod = r
<1>1. SeqMod \in Nat \ {0}
  BY TcpAssumption
<1> QED
  BY <1>1, SMT DEF SeqNo

LEMMA PlusZero ==
  ASSUME NEW a \in SeqNo
  PROVE  Plus(a, 0) = a
<1>1. SeqMod \in Nat \ {0} /\ a \in Nat /\ a < SeqMod
  BY TcpAssumption, SMT DEF SeqNo
<1> QED
  BY <1>1, SMT DEF Plus

LEMMA PlusPlus ==
  ASSUME NEW a \in Nat, NEW b \in Nat, NEW c \in Nat
  PROVE  Plus(Plus(a, b), c) = Plus(a, b + c)
<1> DEFINE x == Plus(a, b)
           y == Plus(x, c)
<1>1. SeqMod \in Nat \ {0} /\ x \in SeqNo /\ x \in Nat
  BY TcpAssumption, PlusType, SeqNoNat
<1>2. y \in SeqNo /\ y \in Nat
  BY <1>1, PlusType, SeqNoNat
<1>3. PICK q \in Nat : a + b = q * SeqMod + x
  <2>1. a + b \in Nat
    BY SMT
  <2> QED
    BY <2>1, Division DEF Plus
<1> HIDE DEF x
<1>4. PICK k \in Nat : x + c = k * SeqMod + y
  <2>1. x + c \in Nat
    BY <1>1, SMT
  <2> QED
    BY <2>1, Division DEF Plus
<1> HIDE DEF y
<1>5. (q + k) * SeqMod = q * SeqMod + k * SeqMod
      /\ q * SeqMod \in Int /\ k * SeqMod \in Int /\ q + k \in Int
  BY <1>1, SMT
<1>6. a + (b + c) = (q + k) * SeqMod + y
  BY <1>1, <1>2, <1>3, <1>4, <1>5, SMT
<1>7. ((q + k) * SeqMod + y) % SeqMod = y
  <2>1. (q + k) * SeqMod + y \in Nat
    BY <1>6, SMT
  <2> QED
    BY <1>2, <1>5, <2>1, Remainder
<1>8. Plus(a, b + c) = y
  BY <1>6, <1>7 DEF Plus
<1> QED
  BY <1>8 DEF x, y

(* Numbers less than SeqMod apart are told apart.                          *)
LEMMA PlusInjective ==
  ASSUME NEW a \in Nat, NEW j \in Nat, NEW k \in Nat, j <= k, k - j < SeqMod,
         Plus(a, j) = Plus(a, k)
  PROVE  j = k
<1>1. SeqMod \in Nat \ {0}
  BY TcpAssumption
<1>2. PICK q \in Nat : a + j = q * SeqMod + Plus(a, j)
  <2>1. a + j \in Nat
    BY SMT
  <2> QED
    BY <2>1, Division DEF Plus
<1>3. PICK r \in Nat : a + k = r * SeqMod + Plus(a, k)
  <2>1. a + k \in Nat
    BY SMT
  <2> QED
    BY <2>1, Division DEF Plus
<1>4. Plus(a, j) \in Int /\ q * SeqMod \in Int /\ r * SeqMod \in Int
  <2>1. Plus(a, j) \in Nat
    BY PlusType, SeqNoNat
  <2>2. q * SeqMod \in Int /\ r * SeqMod \in Int
    BY <1>1, SMT
  <2> QED
    BY <2>1, <2>2, SMT
<1>5. k - j = r * SeqMod - q * SeqMod
  BY <1>2, <1>3, <1>4, SMT
<1>6. r * SeqMod - q * SeqMod = (r - q) * SeqMod
  BY <1>1, SMT
<1>7. r - q < 1
  <2> SUFFICES ASSUME r - q >= 1 PROVE FALSE
    BY SMT
  <2>1. (r - q) * SeqMod >= SeqMod
    BY <1>1, SMT
  <2> QED
    BY <1>1, <1>5, <1>6, <2>1, SMT
<1>8. r - q > -1
  <2> SUFFICES ASSUME r - q <= -1 PROVE FALSE
    BY SMT
  <2>1. (r - q) * SeqMod <= -SeqMod
    BY <1>1, SMT
  <2> QED
    BY <1>1, <1>5, <1>6, <2>1, SMT
<1>9. r = q
  BY <1>7, <1>8, SMT
<1> QED
  BY <1>5, <1>9, <1>4, SMT
-----------------------------------------------------------------------------
(* What tcp_handle_packet does to the numbers and the state of a socket.   *)
HandleDoes(s, f, t) ==
  /\ t.port = s.port /\ t.isn = s.isn /\ t.snd_nxt = s.snd_nxt
  /\ t.snd_una = s.snd_una \/ t.snd_una = f.ack
  /\ s.state # SYN_SENT => t.state # SYN_SENT
  /\ t.state = ESTABLISHED /\ s.state # ESTABLISHED =>
       /\ s.state = SYN_SENT /\ Opens(s, f)
       /\ t.snd_una = f.ack /\ t.rcv_nxt = Plus(f.seq, 1)
  /\ Stores(s, f) => t.rcv_nxt = Plus(f.seq, f.len)
  /\ ~Stores(s, f) /\ s.state # SYN_SENT =>
       \/ t.rcv_nxt = s.rcv_nxt
       \/ "FIN" \in f.flags /\ t.rcv_nxt = Plus(f.seq, 1)
  /\ Answers(s, f) =>
       \/ s.state = SYN_SENT /\ t.state = ESTABLISHED
       \/ s.state # SYN_SENT /\ ("FIN" \in f.flags \/ f.len > 0)

LEMMA AckedDoes ==
  ASSUME NEW s \in Sock, NEW f
  PROVE  LET t == Acked(s, f)
         IN  /\ t.port = s.port /\ t.isn = s.isn /\ t.snd_nxt = s.snd_nxt
             /\ t.snd_una = s.snd_una \/ t.snd_una = f.ack
             /\ t.state = s.state /\ t.rcv_nxt = s.rcv_nxt
BY DEF Acked, Sock

LEMMA StateValues ==
  /\ CLOSED # SYN_SENT /\ CLOSED # ESTABLISHED /\ ESTABLISHED # SYN_SENT
  /\ TIME_WAIT # SYN_SENT /\ TIME_WAIT # ESTABLISHED
  /\ CLOSE_WAIT # SYN_SENT /\ CLOSE_WAIT # ESTABLISHED
  /\ FIN_WAIT_1 # SYN_SENT /\ FIN_WAIT_1 # ESTABLISHED
BY SMT DEF CLOSED, SYN_SENT, ESTABLISHED, TIME_WAIT, CLOSE_WAIT, FIN_WAIT_1

LEMMA HandleEffect ==
  ASSUME NEW s \in Sock, NEW f, IsFrame(f), f.kind = "segment"
  PROVE  HandleDoes(s, f, Handle(s, f))
<1> DEFINE a == Acked(s, f)
           p == Plus(f.seq, 1)
           q == Plus(f.seq, f.len)
           b == <<<<f.conn, f.seq>>>>
<1>1. a \in Sock
  BY AckedType
<1>2. /\ a.port = s.port /\ a.isn = s.isn /\ a.snd_nxt = s.snd_nxt
      /\ a.snd_una = s.snd_una \/ a.snd_una = f.ack
      /\ a.state = s.state /\ a.rcv_nxt = s.rcv_nxt
  BY AckedDoes
<1>3. Answers(s, f) => s.state = SYN_SENT \/ "FIN" \in f.flags \/ f.len > 0
  BY DEF Answers, InOrder
<1> HIDE DEF a, p, q, b
<1>4. CASE "RST" \in f.flags
  <2>1. Handle(s, f) = [s EXCEPT !.state = CLOSED]
    BY <1>4 DEF Handle, Answers, Stores
  <2>2. ~Stores(s, f) /\ ~Answers(s, f)
    BY <1>4 DEF Stores, Answers
  <2> DEFINE t == [s EXCEPT !.state = CLOSED]
  <2>3. /\ t.port = s.port /\ t.isn = s.isn /\ t.snd_nxt = s.snd_nxt
        /\ t.snd_una = s.snd_una /\ t.state = CLOSED /\ t.rcv_nxt = s.rcv_nxt
    BY DEF Sock
  <2> HIDE DEF t
  <2> QED
    BY <2>1, <2>2, <2>3, StateValues DEF HandleDoes, t
<1>5. CASE Answers(s, f) /\ s.state = SYN_SENT
  <2> DEFINE t == [s EXCEPT !.rcv_nxt = p, !.snd_una = f.ack,
                            !.state = ESTABLISHED]
  <2>1. Handle(s, f) = t
    BY <1>5 DEF Handle, Answers, Stores, p
  <2>2. /\ t.port = s.port /\ t.isn = s.isn /\ t.snd_nxt = s.snd_nxt
        /\ t.snd_una = f.ack /\ t.state = ESTABLISHED /\ t.rcv_nxt = p
    BY DEF Sock
  <2>3. Opens(s, f) /\ ~Stores(s, f)
    BY <1>5 DEF Answers, Stores
  <2> HIDE DEF t
  <2> QED
    BY <1>5, <2>1, <2>2, <2>3 DEF HandleDoes, p
<1>6. CASE Answers(s, f) /\ s.state # SYN_SENT /\ "FIN" \in f.flags
  <2> DEFINE v == IF a.state = FIN_WAIT_2 THEN TIME_WAIT ELSE CLOSE_WAIT
             t == [a EXCEPT !.rcv_nxt = p, !.state = v]
  <2>1. Handle(s, f) = t
    BY <1>6, <1>1 DEF Handle, Answers, Stores, p, a, Sock
  <2>2. v # SYN_SENT /\ v # ESTABLISHED
    BY StateValues
  <2> HIDE DEF v
  <2>3. /\ t.port = a.port /\ t.isn = a.isn /\ t.snd_nxt = a.snd_nxt
        /\ t.snd_una = a.snd_una /\ t.state = v /\ t.rcv_nxt = p
    BY <1>1 DEF Sock
  <2>4. ~Stores(s, f)
    BY <1>6 DEF Stores
  <2> HIDE DEF t
  <2> QED
    BY <1>2, <1>6, <2>1, <2>2, <2>3, <2>4 DEF HandleDoes, p
<1>7. CASE Stores(s, f)
  <2> DEFINE t == [a EXCEPT !.rcv = b, !.rcv_nxt = q]
  <2>1. Handle(s, f) = t
    BY <1>7 DEF Handle, Answers, Stores, Buffered, a, b, q
  <2>2. /\ t.port = a.port /\ t.isn = a.isn /\ t.snd_nxt = a.snd_nxt
        /\ t.snd_una = a.snd_una /\ t.state = a.state /\ t.rcv_nxt = q
    BY <1>1 DEF Sock
  <2>3. s.state # SYN_SENT
    BY <1>7 DEF Stores
  <2> HIDE DEF t
  <2> QED
    BY <1>2, <1>3, <1>7, <2>1, <2>2, <2>3 DEF HandleDoes, q
<1>8. CASE /\ "RST" \notin f.flags /\ ~Stores(s, f)
           /\ ~(Answers(s, f) /\ s.state = SYN_SENT)
           /\ ~(Answers(s, f) /\ s.state # SYN_SENT /\ "FIN" \in f.flags)
  <2>1. Handle(s, f) = s \/ Handle(s, f) = a
    BY <1>8 DEF Handle, a
  <2>2. Answers(s, f) => s.state # SYN_SENT /\ f.len > 0
    BY <1>8 DEF Answers, InOrder
  <2>3. CASE Handle(s, f) = s
    BY <1>8, <2>2, <2>3 DEF HandleDoes
  <2>4. CASE Handle(s, f) = a
    BY <1>2, <1>8, <2>2, <2>4 DEF HandleDoes
  <2> QED
    BY <2>1, <2>3, <2>4
<1> QED
  BY <1>4, <1>5, <1>6, <1>7, <1>8
-----------------------------------------------------------------------------
(* The conversation with the peer.                                         *)

(* The number of ports, and the port of the n-th connection.               *)
NPorts == 65536
PortOf(n) == (40000 + n) % NPorts

(* Segments of the connection of socket s, to the peer and from it.        *)
Ours(f, s) == f.kind = "tcp" /\ f.conn = s.conn
Theirs(f, s) == f.kind = "segment" /\ f.conn = s.conn

(* The numbers after the SYN and after the message m.                      *)
AfterSyn(s) == Plus(s.isn, 1)
AfterMessage(s, m) == Plus(s.isn, 1 + m.len)

(* The peer p has acknowledged up to x.                                    *)
Heard(s, p, m, x) ==
  x = AfterSyn(s) \/ (x = AfterMessage(s, m) /\ p.rcv = AfterMessage(s, m))

SentOK(l, s, m, f) ==
  /\ f.port = s.port
  /\ "SYN" \in f.flags => f.seq = s.isn
  /\ "SYN" \notin f.flags => l # "syn"
  /\ f.len > 0 => f.seq = AfterSyn(s) /\ f.len = m.len

GotOK(s, p, m, f) ==
  /\ Heard(s, p, m, f.ack)
  /\ "SYN" \in f.flags => p.open
  /\ "FIN" \in f.flags \/ f.len > 0 => p.up

PeerOK(s, p, m) ==
  /\ p.up => p.open
  /\ p.open => p.port = s.port /\ Heard(s, p, m, p.rcv)

SockOK(l, s, p, m) ==
  /\ l = "syn" => s.snd_nxt = AfterSyn(s) /\ s.state # ESTABLISHED /\ ~p.up
  /\ l # "syn" => s.state # SYN_SENT /\ p.open /\ Heard(s, p, m, s.snd_una)
  /\ l = "syn" \/ l = "open" => m = Unsent
  /\ l = "send" => s.snd_nxt = AfterMessage(s, m)
  /\ m.ok => AfterSyn(s) >= AfterMessage(s, m) \/ p.rcv = AfterMessage(s, m)

(* At place l after the SYN, with the frames N: one message at most, and   *)
(* the peer acknowledges no more than it has.                              *)
Talk(l, s, p, m, N) ==
  /\ \A f \in N : /\ Ours(f, s) => SentOK(l, s, m, f)
                  /\ Theirs(f, s) => GotOK(s, p, m, f)
  /\ PeerOK(s, p, m)
  /\ SockOK(l, s, p, m)

Conversation ==
  pc \in TcpPc \ {"resolve"} =>
    Talk(pc, sockets[cur], peer[sockets[cur].conn], sent, net)

(* Before the SYN neither side has sent anything.                          *)
Silent ==
  /\ pc \notin TcpPc \/ pc = "resolve" =>
       /\ taken = <<>> /\ sent = Unsent
       /\ peer = [c \in Conn |-> NoPeer]
  /\ pc = "resolve" =>
       /\ \A f \in net : ~Ours(f, sockets[cur]) /\ ~Theirs(f, sockets[cur])
       /\ sockets[cur].state = SYN_SENT
       /\ sockets[cur].snd_nxt = sockets[cur].isn

(* The SYN is on its way and nothing has come back.                        *)
Opening ==
  /\ taken = <<>> /\ peer = [c \in Conn |-> NoPeer]
  /\ \A f \in net : ~Theirs(f, sockets[cur])

Wired(f) == f.kind = "tcp" \/ f.kind = "segment"

(* Segments of earlier connections, which the network may still hold, were *)
(* sent to earlier ports: n connections were made.                         *)
Ported(n) ==
  /\ next_ephemeral = PortOf(n)
  /\ pc \in TcpPc => n > 0 /\ sockets[cur].port = PortOf(n - 1)
  /\ \A f \in net : f.kind = "segment" =>
       \E k \in 0..n - 1 :
         /\ f.port = PortOf(k)
         /\ pc \in TcpPc /\ f.conn # sockets[cur].conn => k < n - 1

Numbered ==
  /\ \A f \in net : Wired(f) => f.conn < commands
  /\ pc \in TcpPc => sockets[cur].conn < commands
  /\ \E n \in 0..commands : Ported(n)

Message == [len : Nat, ok : BOOLEAN]

TalkInv == sent \in Message /\ Numbered /\ Silent /\ Conversation
-----------------------------------------------------------------------------
LEMMA SegmentIs ==
  ASSUME NEW s, NEW c, NEW flags, NEW len
  PROVE  LET g == Segment(s, c, flags, len)
         IN  /\ g.kind = "tcp" /\ g.port = s.port /\ g.conn = s.conn
             /\ g.flags = flags /\ g.seq = s.snd_nxt /\ g.len = len
BY DEF Segment

LEMMA ReplyIs ==
  ASSUME NEW c, NEW flags, NEW p, NEW len
  PROVE  LET g == Reply(c, flags, p, len)
         IN  /\ g.kind = "segment" /\ g.port = p.port /\ g.conn = c
             /\ g.flags = flags /\ g.seq = p.snd /\ g.ack = p.rcv /\ g.len = len
BY DEF Reply

LEMMA Flags ==
  /\ "SYN" \in {"SYN"} /\ "SYN" \notin {"ACK"} /\ "SYN" \notin {"PSH", "ACK"}
  /\ "SYN" \notin {"FIN", "ACK"} /\ "SYN" \notin {"RST", "ACK"}
  /\ "FIN" \notin {"SYN", "ACK"} /\ "FIN" \notin {"RST", "ACK"}
  /\ "FIN" \notin {"ACK"} /\ "FIN" \notin {"PSH", "ACK"} /\ "FIN" \in {"FIN", "ACK"}
  /\ "RST" \notin {"SYN", "ACK"} /\ "RST" \in {"RST", "ACK"}
  /\ "SYN" \in {"SYN", "ACK"}
OBVIOUS

LEMMA UnsentIs == Unsent \in Message /\ Unsent.len = 0 /\ Unsent.ok = FALSE
BY DEF Unsent, Message

LEMMA NoMessage ==
  ASSUME NEW s \in Sock, NEW m \in Message, m = Unsent
  PROVE  AfterMessage(s, m) = AfterSyn(s)
BY UnsentIs, SMT DEF AfterMessage, AfterSyn

(* A socket that agrees on what the conversation is about.                 *)
LEMMA TalkSame ==
  ASSUME NEW l, NEW s, NEW t, NEW p, NEW m, NEW N, Talk(l, s, p, m, N),
         t.port = s.port, t.conn = s.conn, t.isn = s.isn, t.state = s.state,
         t.snd_nxt = s.snd_nxt, t.snd_una = s.snd_una
  PROVE  Talk(l, t, p, m, N)
<1>1. AfterSyn(t) = AfterSyn(s) /\ AfterMessage(t, m) = AfterMessage(s, m)
  BY DEF AfterSyn, AfterMessage
<1>2. \A f : /\ Ours(f, t) <=> Ours(f, s)
             /\ Theirs(f, t) <=> Theirs(f, s)
  BY DEF Ours, Theirs
<1>3. \A f : /\ SentOK(l, t, m, f) <=> SentOK(l, s, m, f)
             /\ GotOK(t, p, m, f) <=> GotOK(s, p, m, f)
  BY <1>1 DEF SentOK, GotOK, Heard
<1>4. PeerOK(t, p, m)
  BY <1>1 DEF Talk, PeerOK, Heard
<1>5. SockOK(l, t, p, m)
  BY <1>1 DEF Talk, SockOK, Heard
<1> QED
  BY <1>2, <1>3, <1>4, <1>5 DEF Talk

LEMMA TalkMoves ==
  ASSUME NEW l, NEW s, NEW p, NEW m, NEW N, Talk(l, s, p, m, N), l # "syn",
         NEW k, k # "syn", k # "open", k # "send"
  PROVE  Talk(k, s, p, m, N)
<1>1. \A f \in N : SentOK(l, s, m, f) => SentOK(k, s, m, f)
  BY DEF SentOK
<1>2. SockOK(k, s, p, m)
  BY DEF Talk, SockOK
<1> QED
  BY <1>1, <1>2 DEF Talk

(* tcp_send found snd_una at snd_nxt.                                      *)
LEMMA TalkConfirms ==
  ASSUME NEW s, NEW p, NEW m \in Message, NEW N, Talk("send", s, p, m, N),
         s.snd_una >= s.snd_nxt
  PROVE  Talk("recv", s, p, [m EXCEPT !.ok = TRUE], N)
<1> DEFINE k == [m EXCEPT !.ok = TRUE]
<1>1. k.len = m.len
  BY DEF Message
<1>2. AfterMessage(s, k) = AfterMessage(s, m)
  BY <1>1 DEF AfterMessage
<1>3. Talk("recv", s, p, m, N)
  BY TalkMoves
<1>4. AfterSyn(s) >= AfterMessage(s, m) \/ p.rcv = AfterMessage(s, m)
  BY DEF Talk, SockOK, Heard
<1> HIDE DEF k
<1>5. \A f : /\ SentOK("recv", s, k, f) <=> SentOK("recv", s, m, f)
             /\ GotOK(s, p, k, f) <=> GotOK(s, p, m, f)
  BY <1>1, <1>2 DEF SentOK, GotOK, Heard
<1>6. PeerOK(s, p, k)
  BY <1>2, <1>3 DEF Talk, PeerOK, Heard
<1>7. SockOK("recv", s, p, k)
  BY <1>2, <1>3, <1>4 DEF Talk, SockOK, Heard
<1>8. Talk("recv", s, p, k, N)
  BY <1>3, <1>5, <1>6, <1>7 DEF Talk
<1> QED
  BY <1>8 DEF k

(* tcp_handle_packet with a segment f of the connection; M is the network  *)
(* after a possible ACK.                                                   *)
Handled(s, f, t, N, M) ==
  /\ HandleDoes(s, f, t) /\ t.conn = s.conn
  /\ \/ M = N
     \/ Answers(s, f) /\ \E c : M = N \cup {Segment(t, c, {"ACK"}, 0)}

LEMMA TalkHandles ==
  ASSUME NEW l, NEW s, NEW t, NEW p, NEW m, NEW N, NEW M, Talk(l, s, p, m, N),
         NEW f \in N, Theirs(f, s), Handled(s, f, t, N, M),
         l = "syn" => t.state # ESTABLISHED
  PROVE  Talk(l, t, p, m, M)
<1>1. /\ t.port = s.port /\ t.isn = s.isn /\ t.snd_nxt = s.snd_nxt
      /\ t.snd_una = s.snd_una \/ t.snd_una = f.ack
      /\ s.state # SYN_SENT => t.state # SYN_SENT
      /\ Answers(s, f) =>
           \/ s.state = SYN_SENT /\ t.state = ESTABLISHED
           \/ s.state # SYN_SENT /\ ("FIN" \in f.flags \/ f.len > 0)
      /\ t.conn = s.conn
  BY DEF Handled, HandleDoes
<1>2. AfterSyn(t) = AfterSyn(s) /\ AfterMessage(t, m) = AfterMessage(s, m)
  BY <1>1 DEF AfterSyn, AfterMessage
<1>3. GotOK(s, p, m, f)
  BY DEF Talk
<1>4. \A g : /\ Ours(g, t) <=> Ours(g, s)
             /\ Theirs(g, t) <=> Theirs(g, s)
  BY <1>1 DEF Ours, Theirs
<1>5. \A g : /\ SentOK(l, t, m, g) <=> SentOK(l, s, m, g)
             /\ GotOK(t, p, m, g) <=> GotOK(s, p, m, g)
  BY <1>1, <1>2 DEF SentOK, GotOK, Heard
<1>6. PeerOK(t, p, m)
  BY <1>1, <1>2 DEF Talk, PeerOK, Heard
<1>7. Heard(t, p, m, t.snd_una) \/ l = "syn"
  BY <1>1, <1>2, <1>3 DEF Talk, SockOK, GotOK, Heard
<1>8. SockOK(l, t, p, m)
  BY <1>1, <1>2, <1>7 DEF Talk, SockOK
<1>9. l = "syn" => ~Answers(s, f)
  BY <1>1, <1>3 DEF Talk, SockOK, GotOK
<1>10. ASSUME NEW c, M = N \cup {Segment(t, c, {"ACK"}, 0)}, Answers(s, f)
       PROVE  \A g \in M : /\ Ours(g, t) => SentOK(l, t, m, g)
                           /\ Theirs(g, t) => GotOK(t, p, m, g)
  <2> DEFINE a == Segment(t, c, {"ACK"}, 0)
  <2>1. a.kind = "tcp" /\ a.port = t.port /\ a.len = 0 /\ "SYN" \notin a.flags
    BY SegmentIs, Flags, SMT
  <2>2. SentOK(l, t, m, a) /\ ~Theirs(a, t)
    BY <1>9, <1>10, <2>1, SMT DEF SentOK, Theirs
  <2> HIDE DEF a
  <2>3. M = N \cup {a}
    BY <1>10 DEF a
  <2> QED
    BY <1>4, <1>5, <2>2, <2>3 DEF Talk
<1>11. \A g \in M : /\ Ours(g, t) => SentOK(l, t, m, g)
                    /\ Theirs(g, t) => GotOK(t, p, m, g)
  <2>1. CASE M = N
    BY <1>4, <1>5, <2>1 DEF Talk
  <2> QED
    BY <1>10, <2>1 DEF Handled
<1> QED
  BY <1>6, <1>8, <1>11 DEF Talk

(* The SYN-ACK opens the connection.                                       *)
LEMMA TalkOpens ==
  ASSUME NEW s \in Sock, NEW t, NEW p, NEW m \in Message, NEW N, NEW M,
         Talk("syn", s, p, m, N),
         NEW f \in N, Theirs(f, s), Handled(s, f, t, N, M),
         t.state = ESTABLISHED
  PROVE  Talk("open", t, p, m, M)
<1>1. s.state # ESTABLISHED /\ s.snd_nxt = AfterSyn(s) /\ m = Unsent
  BY DEF Talk, SockOK
<1>2. /\ t.port = s.port /\ t.isn = s.isn /\ t.conn = s.conn
      /\ Opens(s, f) /\ t.snd_una = f.ack
  BY <1>1 DEF Handled, HandleDoes
<1>3. f.ack = s.snd_nxt /\ "SYN" \in f.flags
  BY <1>2 DEF Opens
<1>4. AfterSyn(t) = AfterSyn(s) /\ AfterMessage(t, m) = AfterMessage(s, m)
  BY <1>2 DEF AfterSyn, AfterMessage
<1>5. GotOK(s, p, m, f)
  BY DEF Talk
<1>6. \A g : /\ Ours(g, t) <=> Ours(g, s)
             /\ Theirs(g, t) <=> Theirs(g, s)
  BY <1>2 DEF Ours, Theirs
<1>7. \A g : /\ SentOK("syn", s, m, g) => SentOK("open", t, m, g)
             /\ GotOK(t, p, m, g) <=> GotOK(s, p, m, g)
  BY <1>2, <1>4 DEF SentOK, GotOK, Heard
<1>8. PeerOK(t, p, m)
  BY <1>2, <1>4 DEF Talk, PeerOK, Heard
<1>9. SockOK("open", t, p, m)
  <2>1. Heard(t, p, m, t.snd_una) /\ p.open
    BY <1>1, <1>2, <1>3, <1>4, <1>5 DEF Heard, GotOK
  <2>2. m.ok = FALSE
    BY <1>1, UnsentIs
  <2> QED
    BY <1>1, <2>1, <2>2, StateValues DEF SockOK
<1>10. ASSUME NEW c, M = N \cup {Segment(t, c, {"ACK"}, 0)}
       PROVE  \A g \in M : /\ Ours(g, t) => SentOK("open", t, m, g)
                           /\ Theirs(g, t) => GotOK(t, p, m, g)
  <2> DEFINE a == Segment(t, c, {"ACK"}, 0)
  <2>1. a.kind = "tcp" /\ a.port = t.port /\ a.len = 0 /\ "SYN" \notin a.flags
    BY SegmentIs, Flags, SMT
  <2>2. SentOK("open", t, m, a) /\ ~Theirs(a, t)
    BY <2>1, SMT DEF SentOK, Theirs
  <2> HIDE DEF a
  <2>3. M = N \cup {a}
    BY <1>10 DEF a
  <2> QED
    BY <1>6, <1>7, <2>2, <2>3 DEF Talk
<1>11. \A g \in M : /\ Ours(g, t) => SentOK("open", t, m, g)
                    /\ Theirs(g, t) => GotOK(t, p, m, g)
  <2>1. CASE M = N
    BY <1>6, <1>7, <2>1 DEF Talk
  <2> QED
    BY <1>10, <2>1 DEF Handled
<1> QED
  BY <1>8, <1>9, <1>11 DEF Talk

(* The SYN leaves.                                                         *)
LEMMA TalkBegins ==
  ASSUME NEW s, NEW t, NEW c, NEW N, NEW M, s.snd_nxt = s.isn,
         s.state = SYN_SENT,
         \A f \in N : ~Ours(f, s) /\ ~Theirs(f, s),
         t.port = s.port, t.conn = s.conn, t.isn = s.isn, t.state = s.state,
         t.snd_nxt = Plus(s.isn, 1),
         M = N \cup {Segment(s, c, {"SYN"}, 0)}
  PROVE  Talk("syn", t, NoPeer, Unsent, M)
<1> DEFINE a == Segment(s, c, {"SYN"}, 0)
<1>1. a.kind = "tcp" /\ a.port = s.port /\ a.len = 0 /\ "SYN" \in a.flags
      /\ a.seq = s.snd_nxt
  BY SegmentIs, Flags, SMT
<1>2. SentOK("syn", t, Unsent, a) /\ ~Theirs(a, t)
  BY <1>1, SMT DEF SentOK, Theirs
<1> HIDE DEF a
<1>3. \A g \in M : /\ Ours(g, t) => SentOK("syn", t, Unsent, g)
                   /\ Theirs(g, t) => GotOK(t, NoPeer, Unsent, g)
  <2>1. \A g \in N : ~Ours(g, t) /\ ~Theirs(g, t)
    BY DEF Ours, Theirs
  <2>2. M = N \cup {a}
    BY DEF a
  <2> QED
    BY <1>2, <2>1, <2>2
<1>4. NoPeer.open = FALSE /\ NoPeer.up = FALSE
  BY DEF NoPeer
<1>5. PeerOK(t, NoPeer, Unsent)
  BY <1>4 DEF PeerOK
<1>6. SockOK("syn", t, NoPeer, Unsent)
  BY <1>4, UnsentIs, StateValues DEF SockOK, AfterSyn
<1> QED
  BY <1>3, <1>5, <1>6 DEF Talk

(* tcp_send: the message leaves, and snd_nxt moves past it if the card     *)
(* took it.                                                                *)
LEMMA TalkSends ==
  ASSUME NEW s \in Sock, NEW r, NEW t, NEW p, NEW m \in Message, NEW c, NEW N,
         NEW M, NEW k, NEW len \in Nat, Talk("open", s, p, m, N),
         r.port = s.port, r.conn = s.conn, r.snd_nxt = s.snd_una,
         t.port = s.port, t.conn = s.conn, t.isn = s.isn, t.state = s.state,
         t.snd_una = s.snd_una,
         \/ k = "send" /\ t.snd_nxt = Plus(s.snd_una, len)
         \/ k = "recv",
         M = N \cup {Segment(r, c, {"PSH", "ACK"}, len)}
  PROVE  Talk(k, t, p, [len |-> len, ok |-> FALSE], M)
<1> DEFINE a == Segment(r, c, {"PSH", "ACK"}, len)
           n == [len |-> len, ok |-> FALSE]
<1>1. /\ a.kind = "tcp" /\ a.port = s.port /\ a.conn = s.conn /\ a.len = len
      /\ a.seq = s.snd_una /\ "SYN" \notin a.flags
  BY SegmentIs, Flags, SMT
<1>2. n.len = len /\ ~n.ok
  OBVIOUS
<1>3. m = Unsent /\ m.len = 0 /\ AfterMessage(s, m) = AfterSyn(s)
  BY UnsentIs, NoMessage DEF Talk, SockOK
<1>4. \A x : Heard(s, p, m, x) => x = AfterSyn(s)
  BY <1>3 DEF Heard
<1>5. s.snd_una = AfterSyn(s) /\ p.open /\ s.state # SYN_SENT
  BY <1>4 DEF Talk, SockOK
<1>6. AfterSyn(t) = AfterSyn(s) /\ AfterMessage(t, n) = Plus(s.snd_una, len)
  <2>1. s.isn \in Nat
    BY SeqNoNat DEF Sock
  <2>2. Plus(Plus(s.isn, 1), len) = Plus(s.isn, 1 + len)
    BY <2>1, PlusPlus
  <2> QED
    BY <1>2, <1>5, <2>2 DEF AfterSyn, AfterMessage
<1> HIDE DEF a, n
<1>7. k # "syn" /\ k # "open"
  OBVIOUS
<1>8. SentOK(k, t, n, a) /\ ~Theirs(a, t)
  BY <1>1, <1>2, <1>5, <1>6, <1>7 DEF SentOK, Theirs
<1>9. ASSUME NEW g \in N
      PROVE  /\ Ours(g, t) => SentOK(k, t, n, g)
             /\ Theirs(g, t) => GotOK(t, p, n, g)
  <2>1. Ours(g, t) => SentOK("open", s, m, g)
    BY DEF Talk, Ours
  <2>2. Theirs(g, t) => GotOK(s, p, m, g)
    BY DEF Talk, Theirs
  <2>3. SentOK("open", s, m, g) => SentOK(k, t, n, g)
    BY <1>3, <1>7, SMT DEF SentOK
  <2>4. GotOK(s, p, m, g) => GotOK(t, p, n, g)
    BY <1>4, <1>6 DEF GotOK, Heard
  <2> QED
    BY <2>1, <2>2, <2>3, <2>4
<1>10. PeerOK(t, p, n)
  BY <1>4, <1>6 DEF Talk, PeerOK, Heard
<1>11. SockOK(k, t, p, n)
  BY <1>2, <1>5, <1>6, <1>7 DEF SockOK, Heard
<1>12. M = N \cup {a}
  BY DEF a
<1>13. Talk(k, t, p, n, M)
  BY <1>8, <1>9, <1>10, <1>11, <1>12 DEF Talk
<1> QED
  BY <1>13 DEF n

(* tcp_close sends its FIN.                                                *)
LEMMA TalkCloses ==
  ASSUME NEW s, NEW t, NEW p, NEW m, NEW c, NEW N, NEW M,
         Talk("close", s, p, m, N),
         t.port = s.port, t.conn = s.conn, t.isn = s.isn,
         t.state = FIN_WAIT_1, t.snd_una = s.snd_una,
         M = N \cup {Segment(s, c, {"FIN", "ACK"}, 0)}
  PROVE  Talk("fin", t, p, m, M)
<1> DEFINE a == Segment(s, c, {"FIN", "ACK"}, 0)
<1>1. /\ a.kind = "tcp" /\ a.port = s.port /\ a.conn = s.conn /\ a.len = 0
      /\ "SYN" \notin a.flags
  BY SegmentIs, Flags, SMT
<1> HIDE DEF a
<1>2. AfterSyn(t) = AfterSyn(s) /\ AfterMessage(t, m) = AfterMessage(s, m)
  BY DEF AfterSyn, AfterMessage
<1>3. SentOK("fin", t, m, a) /\ ~Theirs(a, t)
  BY <1>1, SMT DEF SentOK, Theirs
<1>4. ASSUME NEW g \in N
      PROVE  /\ Ours(g, t) => SentOK("fin", t, m, g)
             /\ Theirs(g, t) => GotOK(t, p, m, g)
  <2>1. Ours(g, t) => SentOK("close", s, m, g)
    BY DEF Talk, Ours
  <2>2. Theirs(g, t) => GotOK(s, p, m, g)
    BY DEF Talk, Theirs
  <2>3. SentOK("close", s, m, g) => SentOK("fin", t, m, g)
    BY <1>2 DEF SentOK
  <2>4. GotOK(s, p, m, g) => GotOK(t, p, m, g)
    BY <1>2 DEF GotOK, Heard
  <2> QED
    BY <2>1, <2>2, <2>3, <2>4
<1>5. PeerOK(t, p, m)
  BY <1>2 DEF Talk, PeerOK, Heard
<1>6. SockOK("fin", t, p, m)
  BY <1>2, StateValues DEF Talk, SockOK, Heard
<1>7. M = N \cup {a}
  BY DEF a
<1> QED
  BY <1>3, <1>4, <1>5, <1>6, <1>7 DEF Talk

(* The peer goes from p to q and sends at most one segment.                *)
LEMMA TalkPeer ==
  ASSUME NEW l, NEW s \in Sock, NEW p, NEW q, NEW m \in Message, NEW N, NEW M,
         Talk(l, s, p, m, N),
         \/ q.rcv = p.rcv
         \/ q.rcv = AfterMessage(s, m)
         \/ l = "syn",
         p.open => q.open, p.up => q.up, q.up => q.open,
         q.up => l # "syn",
         q.open => q.port = s.port /\ Heard(s, q, m, q.rcv),
         \A g \in M : g \in N \/ (g.kind = "segment" /\ GotOK(s, q, m, g))
  PROVE  Talk(l, s, q, m, M)
<1>1. l = "syn" => AfterMessage(s, m) = AfterSyn(s) /\ ~m.ok
  BY NoMessage, UnsentIs DEF Talk, SockOK
<1>2. \A x : Heard(s, p, m, x) => Heard(s, q, m, x)
  BY <1>1 DEF Heard
<1>3. \A g : GotOK(s, p, m, g) => GotOK(s, q, m, g)
  BY <1>2 DEF GotOK
<1>4. \A g \in M : /\ Ours(g, s) => SentOK(l, s, m, g)
                   /\ Theirs(g, s) => GotOK(s, q, m, g)
  BY <1>3 DEF Talk, Ours
<1>5. PeerOK(s, q, m)
  BY DEF PeerOK
<1>6. SockOK(l, s, q, m)
  BY <1>1, <1>2 DEF Talk, SockOK
<1> QED
  BY <1>4, <1>5, <1>6 DEF Talk
-----------------------------------------------------------------------------
(* Ports.                                                                  *)
LEMMA PortsDiffer ==
  ASSUME NEW k \in Nat, NEW n \in Nat, k < n, n - k < NPorts
  PROVE  PortOf(k) # PortOf(n)
BY SMT DEF PortOf, NPorts

LEMMA NextPortOf ==
  ASSUME NEW n \in Nat
  PROVE  NextPort(PortOf(n)) = PortOf(n + 1)
BY SMT DEF PortOf, NextPort, NPorts

(* A segment with the port of the socket is of its connection.             *)
LEMMA OwnSegment ==
  ASSUME Inv, Numbered, MaxCommands <= NPorts, pc \in TcpPc,
         NEW f \in Inbound, Matches(sockets[cur], f)
  PROVE  f \in net /\ Theirs(f, sockets[cur]) /\ IsFrame(f)
<1>1. f.kind = "segment" /\ sockets[cur].port = f.port
  BY DEF Matches
<1>2. f \in net
  <2>1. \A h : ArpReply(h).kind # "segment" /\ EchoReply(h).kind # "segment"
    BY DEF ArpReply, EchoReply
  <2> QED
    BY <1>1, <2>1 DEF Inbound
<1>3. commands \in Nat /\ commands <= NPorts /\ NPorts \in Nat
  BY NetAssumption, SMT DEF NPorts, Inv, Typed, TypeOK
<1>4. PICK n \in 0..commands : Ported(n)
  BY DEF Numbered
<1>5. n \in Nat /\ n > 0 /\ n <= NPorts /\ sockets[cur].port = PortOf(n - 1)
  BY <1>3, <1>4, SMT DEF Ported
<1>6. PICK k \in 0..n - 1 :
        /\ f.port = PortOf(k)
        /\ f.conn # sockets[cur].conn => k < n - 1
  BY <1>1, <1>2, <1>4 DEF Ported
<1>7. ~(k < n - 1)
  <2>1. n - 1 \in Nat /\ k \in Nat /\ (n - 1) - k < NPorts
    BY <1>3, <1>5, SMT
  <2>2. PortOf(k) = PortOf(n - 1)
    BY <1>1, <1>5, <1>6
  <2> QED
    BY <2>1, <2>2, PortsDiffer
<1>8. f.conn = sockets[cur].conn
  BY <1>6, <1>7
<1> QED
  BY <1>1, <1>2, <1>8 DEF Theirs, Inv, Frames

(* The command goes on or is over, and what is sent is of its connection.  *)
LEMMA NumberedGoesOn ==
  ASSUME Inv, Numbered, commands' \in Nat, commands' >= commands,
         next_ephemeral' = next_ephemeral,
         pc' \in TcpPc =>
           /\ pc \in TcpPc
           /\ sockets'[cur'].conn = sockets[cur].conn
           /\ sockets'[cur'].port = sockets[cur].port,
         \A f \in net' :
           \/ f \in net
           \/ ~Wired(f)
           \/ /\ pc \in TcpPc /\ f.conn = sockets[cur].conn
              /\ f.port = sockets[cur].port
  PROVE  Numbered'
<1>1. commands \in Nat
  BY NetAssumption, SMT DEF Inv, Typed, TypeOK
<1>2. PICK n \in 0..commands : Ported(n)
  BY DEF Numbered
<1>3. pc \in TcpPc => sockets[cur].conn \in Nat
  BY NetAssumption, SMT DEF Inv, OneSlot, Conn
<1>4. \A f \in net : Wired(f) => f.conn \in Nat
  BY DEF Inv, Frames, IsFrame, Wired
<1>5. \A f \in net' : Wired(f) => f.conn < commands'
  BY <1>1, <1>3, <1>4, SMT DEF Numbered
<1>6. pc' \in TcpPc => sockets'[cur'].conn < commands'
  BY <1>1, <1>3, SMT DEF Numbered
<1>7. n \in Nat /\ n \in 0..commands'
  BY <1>1, SMT
<1>8. next_ephemeral' = PortOf(n)
  BY <1>2 DEF Ported
<1>9. pc' \in TcpPc => n > 0 /\ sockets'[cur'].port = PortOf(n - 1)
  BY <1>2 DEF Ported
<1>10. ASSUME NEW f \in net', f.kind = "segment"
       PROVE  \E k \in 0..n - 1 :
                /\ f.port = PortOf(k)
                /\ pc' \in TcpPc /\ f.conn # sockets'[cur'].conn => k < n - 1
  <2>1. CASE f \in net
    BY <1>2, <1>10, <2>1 DEF Ported
  <2>2. CASE pc \in TcpPc /\ f.conn = sockets[cur].conn
             /\ f.port = sockets[cur].port
    <3>1. n > 0 /\ f.port = PortOf(n - 1)
      BY <1>2, <2>2 DEF Ported
    <3>2. n - 1 \in 0..n - 1
      BY <1>7, <3>1, SMT
    <3>3. pc' \in TcpPc => f.conn = sockets'[cur'].conn
      BY <2>2
    <3> QED
      BY <3>1, <3>2, <3>3
  <2>3. Wired(f)
    BY <1>10 DEF Wired
  <2> QED
    BY <2>1, <2>2, <2>3
<1>11. Ported(n)'
  BY <1>8, <1>9, <1>10 DEF Ported
<1> QED
  BY <1>5, <1>6, <1>7, <1>11 DEF Numbered

(* One turn of a polling loop of tcp.c.                                    *)
LEMMA PollDoes ==
  ASSUME Inv, TalkInv, MaxCommands <= NPorts,
         pc \in {"syn", "send", "recv", "fin"}, NEW f \in Inbound, TcpPoll(f)
  PROVE  /\ sockets[cur] \in Sock /\ sockets[cur].conn \in Conn
         /\ sockets'[cur].conn = sockets[cur].conn
         /\ UNCHANGED <<commands, next_ephemeral, cur, peer>>
         /\ \/ UNCHANGED <<sockets, net, taken>>
            \/ /\ f \in net /\ Theirs(f, sockets[cur]) /\ IsFrame(f)
               /\ Handled(sockets[cur], f, sockets'[cur], net, net')
               /\ taken' = IF Stores(sockets[cur], f)
                           THEN Append(taken, <<f.conn, f.seq>>) ELSE taken
<1> DEFINE s == sockets[cur]
           t == Handle(s, f)
<1>1. pc \in TcpPc
  BY DEF TcpPc
<1>2. cur \in Slot /\ sockets \in [Slot -> Sock] /\ s \in Sock /\ s.conn \in Conn
  BY <1>1 DEF Inv, Typed, TypeOK, OneSlot
<1>3. UNCHANGED <<commands, next_ephemeral, cur, peer>>
  BY DEF TcpPoll
<1>4. CASE ~Matches(s, f)
  <2>1. sockets' = [sockets EXCEPT ![cur] = s] /\ UNCHANGED <<net, taken>>
    BY <1>4 DEF TcpPoll
  <2>2. sockets' = sockets
    BY <1>2, <2>1
  <2> QED
    BY <1>2, <1>3, <2>1, <2>2
<1>5. CASE Matches(s, f)
  <2>1. f \in net /\ Theirs(f, s) /\ IsFrame(f)
    BY <1>1, <1>5, OwnSegment DEF TalkInv
  <2>2. Len(s.rcv) <= 1 /\ f.kind = "segment"
    BY <1>2, <2>1 DEF Inv, Typed, TypeOK, Theirs
  <2>3. HandleDoes(s, f, t) /\ t.conn = s.conn
    BY <1>2, <2>1, <2>2, HandleEffect, HandleType DEF Kept
  <2>4. sockets' = [sockets EXCEPT ![cur] = t]
    BY <1>5 DEF TcpPoll
  <2>5. net' = IF Answers(s, f)
               THEN net \cup {Segment(t, cache, {"ACK"}, 0)} ELSE net
    BY <1>5 DEF TcpPoll
  <2>6. taken' = IF Stores(s, f) THEN Append(taken, <<f.conn, f.seq>>) ELSE taken
    BY <1>5 DEF TcpPoll
  <2> HIDE DEF s, t
  <2>7. sockets'[cur] = t
    BY <1>2, <2>4
  <2>8. Handled(s, f, t, net, net')
    BY <2>3, <2>5 DEF Handled
  <2> QED
    BY <1>2, <1>3, <2>1, <2>3, <2>6, <2>7, <2>8 DEF s
<1> QED
  BY <1>4, <1>5
-----------------------------------------------------------------------------
LEMMA SilentLater ==
  ASSUME pc' \in TcpPc, pc' # "resolve"
  PROVE  Silent'
BY DEF Silent

(* The parts of TalkInv after a step in the middle of a command.           *)
LEMMA TalkGoesOn ==
  ASSUME Inv, TalkInv, pc \in TcpPc, pc' \in TcpPc, pc' # "resolve",
         UNCHANGED <<commands, next_ephemeral, cur>>, sent' \in Message,
         sockets'[cur].conn = sockets[cur].conn,
         sockets'[cur].port = sockets[cur].port,
         \A f \in net' :
           \/ f \in net
           \/ f.conn = sockets[cur].conn /\ f.port = sockets[cur].port,
         Talk(pc', sockets'[cur], peer'[sockets[cur].conn], sent', net')
  PROVE  TalkInv'
<1>1. commands \in Nat
  BY NetAssumption, SMT DEF Inv, Typed, TypeOK
<1>2. commands' \in Nat /\ commands' >= commands
  BY <1>1, SMT
<1>3. Numbered'
  BY <1>2, NumberedGoesOn DEF TalkInv
<1>4. Conversation'
  BY DEF Conversation
<1> QED
  BY <1>3, <1>4, SilentLater DEF TalkInv

LEMMA HandledNet ==
  ASSUME NEW s, NEW f, NEW t, NEW N, NEW M, Handled(s, f, t, N, M)
  PROVE  /\ t.conn = s.conn /\ t.port = s.port
         /\ \A g \in M : g \in N \/ (g.conn = s.conn /\ g.port = s.port)
<1>1. t.conn = s.conn /\ t.port = s.port
  BY DEF Handled, HandleDoes
<1>2. ASSUME NEW c, M = N \cup {Segment(t, c, {"ACK"}, 0)}
      PROVE  \A g \in M : g \in N \/ (g.conn = s.conn /\ g.port = s.port)
  <2> DEFINE a == Segment(t, c, {"ACK"}, 0)
  <2>1. a.conn = t.conn /\ a.port = t.port
    BY DEF Segment
  <2>2. M = N \cup {a}
    BY <1>2
  <2> HIDE DEF a
  <2> QED
    BY <1>1, <2>1, <2>2
<1> QED
  BY <1>1, <1>2 DEF Handled

LEMMA TalkPolls ==
  ASSUME Inv, TalkInv, MaxCommands <= NPorts,
         ConnectPoll \/ SendPoll \/ RecvPoll \/ ClosePoll
  PROVE  TalkInv'
<1> DEFINE s == sockets[cur]
           t == sockets'[cur]
           p == peer[sockets[cur].conn]
<1>1. PICK f \in Inbound : TcpPoll(f)
  BY DEF ConnectPoll, SendPoll, RecvPoll, ClosePoll
<1>2. /\ pc \in {"syn", "send", "recv", "fin"}
      /\ pc' \in {pc, "open", "recv", "close", "ends"}
  BY DEF ConnectPoll, SendPoll, RecvPoll, ClosePoll
<1>3. pc \in TcpPc \ {"resolve"} /\ pc' \in TcpPc /\ pc' # "resolve"
  BY <1>2 DEF TcpPc
<1>4. /\ s \in Sock /\ t.conn = s.conn
      /\ UNCHANGED <<commands, next_ephemeral, cur, peer>>
  BY <1>1, <1>2, PollDoes
<1>5. \/ t = s /\ net' = net
      \/ f \in net /\ Theirs(f, s) /\ Handled(s, f, t, net, net')
  BY <1>1, <1>2, PollDoes
<1>6. Talk(pc, s, p, sent, net) /\ sent \in Message
  BY <1>3 DEF TalkInv, Conversation
<1>7. t.port = s.port /\ \A g \in net' : g \in net \/ (g.conn = s.conn /\ g.port = s.port)
  BY <1>5, HandledNet, SMT
<1>8. \/ pc = "syn" /\ UNCHANGED sent
         /\ pc' = IF t.state = ESTABLISHED THEN "open" ELSE "syn"
      \/ pc = "send" /\ t.snd_una >= t.snd_nxt /\ pc' = "recv"
         /\ sent' = [sent EXCEPT !.ok = TRUE]
      \/ pc = "send" /\ UNCHANGED <<pc, sent>>
      \/ pc = "recv" /\ pc' \in {"recv", "close"} /\ UNCHANGED sent
      \/ pc = "fin" /\ pc' \in {"fin", "ends"} /\ UNCHANGED sent
  BY <1>4 DEF ConnectPoll, SendPoll, RecvPoll, ClosePoll
<1> HIDE DEF s, t, p
<1>9. pc = "syn" /\ t = s => t.state # ESTABLISHED
  BY <1>6 DEF Talk, SockOK
<1>10. pc # "syn" \/ t.state # ESTABLISHED => Talk(pc, t, p, sent, net')
  BY <1>5, <1>6, TalkHandles
<1>11. pc = "syn" /\ t.state = ESTABLISHED => Talk("open", t, p, sent, net')
  BY <1>4, <1>5, <1>6, <1>9, TalkOpens
<1>12. sent' \in Message /\ Talk(pc', t, p, sent', net')
  <2>1. CASE pc = "syn"
    BY <1>6, <1>8, <1>10, <1>11, <2>1
  <2>2. CASE pc = "send" /\ t.snd_una >= t.snd_nxt /\ pc' = "recv"
             /\ sent' = [sent EXCEPT !.ok = TRUE]
    <3>1. sent' \in Message
      BY <1>6, <2>2 DEF Message
    <3>2. Talk("send", t, p, sent, net')
      BY <1>10, <2>2
    <3> QED
      BY <1>6, <2>2, <3>1, <3>2, TalkConfirms
  <2>3. CASE pc = "send" /\ UNCHANGED <<pc, sent>>
    BY <1>6, <1>10, <2>3
  <2>4. CASE pc = "recv" /\ pc' \in {"recv", "close"} /\ UNCHANGED sent
    BY <1>6, <1>10, <2>4, TalkMoves
  <2>5. CASE pc = "fin" /\ pc' \in {"fin", "ends"} /\ UNCHANGED sent
    BY <1>6, <1>10, <2>5, TalkMoves
  <2> QED
    BY <1>8, <2>1, <2>2, <2>3, <2>4, <2>5
<1> QED
  BY <1>3, <1>4, <1>7, <1>12, TalkGoesOn DEF s, t, p

LEMMA SendTalks ==
  ASSUME Inv, TalkInv, Send
  PROVE  TalkInv'
<1> DEFINE s == sockets[cur]
           r == [s EXCEPT !.snd_nxt = s.snd_una]
           p == peer[s.conn]
<1>1. s \in Sock /\ cur \in Slot /\ sockets \in [Slot -> Sock]
  BY DEF Inv, Typed, TypeOK
<1>2. /\ pc = "open" /\ pc \in TcpPc /\ pc' \in TcpPc /\ pc' # "resolve"
      /\ UNCHANGED <<commands, next_ephemeral, cur, peer>>
  BY DEF Send, TcpPc
<1>3. Talk("open", s, p, sent, net) /\ sent \in Message
  BY <1>2 DEF TalkInv, Conversation
<1>4. CASE pc' = "recv" /\ UNCHANGED <<net, sockets, sent>>
  <2>1. Talk("recv", s, p, sent, net)
    BY <1>3, TalkMoves
  <2> QED
    BY <1>2, <1>3, <1>4, <2>1, TalkGoesOn
<1>5. ASSUME NEW len \in MsgLens,
             net' = net \cup {Segment(r, cache, {"PSH", "ACK"}, len)},
             sent' = [len |-> len, ok |-> FALSE],
             \/ /\ pc' = "send"
                /\ sockets' = [sockets EXCEPT ![cur] =
                                 [r EXCEPT !.snd_nxt = SendTarget(r, len)]]
             \/ /\ pc' = "recv"
                /\ sockets' = [sockets EXCEPT ![cur] = r]
      PROVE  TalkInv'
  <2> DEFINE t == sockets'[cur]
  <2>1. /\ r.port = s.port /\ r.conn = s.conn /\ r.snd_nxt = s.snd_una
        /\ r.isn = s.isn /\ r.state = s.state /\ r.snd_una = s.snd_una
        /\ r \in Sock
    BY <1>1 DEF Sock
  <2> HIDE DEF s, r
  <2>3. /\ t.port = s.port /\ t.conn = s.conn /\ t.isn = s.isn
        /\ t.state = s.state /\ t.snd_una = s.snd_una
        /\ \/ pc' = "send" /\ t.snd_nxt = Plus(s.snd_una, len)
           \/ pc' = "recv"
    <3>1. CASE pc' = "recv" /\ sockets' = [sockets EXCEPT ![cur] = r]
      <4>1. t = r
        BY <1>1, <3>1
      <4> QED
        BY <2>1, <3>1, <4>1
    <3>2. CASE /\ pc' = "send"
               /\ sockets' = [sockets EXCEPT ![cur] =
                                [r EXCEPT !.snd_nxt = SendTarget(r, len)]]
      <4> DEFINE v == SendTarget(r, len)
                 u == [r EXCEPT !.snd_nxt = v]
      <4>1. v = Plus(s.snd_una, len)
        BY <2>1 DEF SendTarget
      <4>2. t = u
        BY <1>1, <3>2
      <4> HIDE DEF v
      <4>3. /\ u.port = r.port /\ u.conn = r.conn /\ u.isn = r.isn
            /\ u.state = r.state /\ u.snd_una = r.snd_una /\ u.snd_nxt = v
        BY <2>1 DEF Sock
      <4> HIDE DEF u, t
      <4> QED
        BY <2>1, <3>2, <4>1, <4>2, <4>3
    <3> QED
      BY <1>5, <3>1, <3>2
  <2>4. len \in Nat /\ sent' \in Message
    BY <1>5, TcpAssumption DEF Message
  <2>5. s \in Sock
    BY <1>1 DEF s
  <2>6. \A g \in net' : g \in net \/ (g.conn = s.conn /\ g.port = s.port)
    <3> DEFINE a == Segment(r, cache, {"PSH", "ACK"}, len)
    <3>1. a.conn = s.conn /\ a.port = s.port
      BY <2>1, SegmentIs, SMT
    <3>2. net' = net \cup {a}
      BY <1>5
    <3> HIDE DEF a
    <3> QED
      BY <3>1, <3>2
  <2> HIDE DEF t, p
  <2>7. Talk(pc', t, p, sent', net')
    BY <1>3, <1>5, <2>1, <2>3, <2>4, <2>5, TalkSends, SMT
  <2> QED
    BY <1>2, <2>3, <2>4, <2>6, <2>7, TalkGoesOn DEF s, t, p
<1> QED
  BY <1>4, <1>5 DEF Send

LEMMA RecvTalks ==
  ASSUME Inv, TalkInv, Recv \/ SendRecvTimeout
  PROVE  TalkInv'
<1> DEFINE s == sockets[cur]
           p == peer[s.conn]
<1>1. s \in Sock /\ cur \in Slot /\ sockets \in [Slot -> Sock]
  BY DEF Inv, Typed, TypeOK
<1>2. /\ pc \in TcpPc \ {"resolve"} /\ pc' \in TcpPc /\ pc' # "resolve"
      /\ pc # "syn" /\ pc' # "syn" /\ pc' # "open" /\ pc' # "send"
      /\ UNCHANGED <<net, commands, next_ephemeral, cur, sent, peer>>
  BY DEF Recv, SendRecvTimeout, TcpPc, netVars, tcpVars
<1>3. Talk(pc, s, p, sent, net) /\ sent \in Message
  BY <1>2 DEF TalkInv, Conversation
<1>4. Talk(pc', s, p, sent, net)
  BY <1>2, <1>3, TalkMoves
<1>5. LET t == sockets'[cur]
      IN  /\ t.port = s.port /\ t.conn = s.conn /\ t.isn = s.isn
          /\ t.state = s.state /\ t.snd_nxt = s.snd_nxt
          /\ t.snd_una = s.snd_una
  <2>1. CASE Recv
    <3> DEFINE t == [s EXCEPT !.rcv = <<>>]
    <3>1. sockets'[cur] = t
      BY <1>1, <2>1 DEF Recv
    <3>2. /\ t.port = s.port /\ t.conn = s.conn /\ t.isn = s.isn
          /\ t.state = s.state /\ t.snd_nxt = s.snd_nxt
          /\ t.snd_una = s.snd_una
      BY <1>1 DEF Sock
    <3> HIDE DEF t
    <3> QED
      BY <3>1, <3>2
  <2>2. CASE SendRecvTimeout
    BY <2>2 DEF SendRecvTimeout, tcpVars
  <2> QED
    BY <2>1, <2>2
<1> HIDE DEF s, p
<1>6. Talk(pc', sockets'[cur], p, sent, net)
  BY <1>4, <1>5, TalkSame
<1> QED
  BY <1>2, <1>3, <1>5, <1>6, TalkGoesOn DEF s, p

(* No tcp command runs after the step.                                     *)
LEMMA TalkOver ==
  ASSUME Inv, TalkInv, pc' \notin TcpPc, pc' # "resolve",
         taken' = <<>>, sent' = Unsent, peer' = [c \in Conn |-> NoPeer],
         \A f \in net' : f \in net \/ ~Wired(f),
         commands' \in {commands, commands + 1}, UNCHANGED next_ephemeral
  PROVE  TalkInv'
<1>1. commands \in Nat
  BY NetAssumption, SMT DEF Inv, Typed, TypeOK
<1>2. commands' \in Nat /\ commands' >= commands
  BY <1>1, SMT
<1>3. Numbered'
  BY <1>2, NumberedGoesOn DEF TalkInv
<1>4. Silent'
  BY DEF Silent
<1>5. Conversation'
  BY DEF Conversation
<1> QED
  BY <1>3, <1>4, <1>5, UnsentIs DEF TalkInv

LEMMA EndsTalks ==
  ASSUME Inv, TalkInv, Return(FALSE), Release,
         UNCHANGED <<commands, next_ephemeral>>
  PROVE  TalkInv'
<1>1. pc' = "idle" /\ pc' \notin TcpPc
  BY DEF Return, TcpPc
<1>2. Forget
  BY DEF Release
<1>3. \A f \in net' : f \in net
  BY <1>2 DEF Forget
<1>4. taken' = <<>> /\ sent' = Unsent /\ peer' = [c \in Conn |-> NoPeer]
  BY <1>2 DEF Forget
<1> QED
  BY <1>1, <1>3, <1>4, TalkOver

LEMMA CloseTalks ==
  ASSUME Inv, TalkInv, Close
  PROVE  TalkInv'
<1> DEFINE s == sockets[cur]
           p == peer[s.conn]
<1>1. s \in Sock /\ cur \in Slot /\ sockets \in [Slot -> Sock]
  BY DEF Inv, Typed, TypeOK
<1>2. /\ pc = "close" /\ pc \in TcpPc /\ pc # "resolve"
      /\ UNCHANGED <<commands, next_ephemeral, cur>>
  BY DEF Close, TcpPc
<1>3. Talk("close", s, p, sent, net) /\ sent \in Message
  BY <1>2 DEF TalkInv, Conversation
<1>4. CASE s.state = ESTABLISHED
  <2> DEFINE n == Plus(s.snd_nxt, 1)
             t == [s EXCEPT !.snd_nxt = n, !.state = FIN_WAIT_1]
             a == Segment(s, cache, {"FIN", "ACK"}, 0)
  <2>1. sockets' = [sockets EXCEPT ![cur] = t]
    BY <1>1, <1>4 DEF Close, Sock
  <2>2. /\ net' = net \cup {a} /\ pc' = "fin" /\ UNCHANGED <<sent, peer>>
    BY <1>4 DEF Close
  <2> HIDE DEF n
  <2>3. /\ t.port = s.port /\ t.conn = s.conn /\ t.isn = s.isn
        /\ t.state = FIN_WAIT_1 /\ t.snd_una = s.snd_una
    BY <1>1 DEF Sock
  <2>4. sockets'[cur] = t
    BY <1>1, <2>1
  <2>5. a.conn = s.conn /\ a.port = s.port
    BY DEF Segment
  <2>6. pc' \in TcpPc /\ pc' # "resolve"
    BY <2>2 DEF TcpPc
  <2> HIDE DEF t
  <2>7. Talk("fin", t, p, sent, net')
    BY <1>3, <2>2, <2>3, TalkCloses
  <2> HIDE DEF a
  <2>8. \A g \in net' : g \in net \/ (g.conn = s.conn /\ g.port = s.port)
    BY <2>2, <2>5
  <2> QED
    BY <1>2, <1>3, <2>2, <2>3, <2>4, <2>6, <2>7, <2>8, TalkGoesOn
<1>5. CASE s.state # ESTABLISHED
  BY <1>2, <1>5, EndsTalks DEF Close
<1> QED
  BY <1>4, <1>5

(* The beginning: the card takes the SYN, or refuses it.                   *)
LEMMA SynTalks ==
  ASSUME Silent, taken = <<>>, sent = Unsent, peer = [c \in Conn |-> NoPeer],
         UNCHANGED <<taken, sent, peer>>,
         sockets \in [Slot -> Sock], NEW s \in Sock, NEW slot \in Slot, NEW c,
         cur' = slot, s.conn \in Conn, s.state = SYN_SENT, s.snd_nxt = s.isn,
         \A f \in net : ~Ours(f, s) /\ ~Theirs(f, s),
         SendSyn(s, slot, c, net)
  PROVE  /\ Silent' /\ Conversation' /\ sent' \in Message
         /\ net' = net \cup {Segment(s, c, {"SYN"}, 0)}
         /\ pc' \in TcpPc => /\ sockets'[cur'].conn = s.conn
                             /\ sockets'[cur'].port = s.port
         /\ pc' = "syn" => Opening'
<1> DEFINE n == Plus(s.snd_nxt, 1)
           t == [s EXCEPT !.snd_nxt = n]
<1>1. net' = net \cup {Segment(s, c, {"SYN"}, 0)}
  BY DEF SendSyn
<1>2. sent' \in Message
  BY UnsentIs
<1>3. \/ pc' = "syn" /\ sockets' = [sockets EXCEPT ![slot] = t]
      \/ pc' = "idle"
  BY DEF SendSyn, Return
<1>4. CASE pc' = "idle"
  <2>1. pc' \notin TcpPc
    BY <1>4 DEF TcpPc
  <2>2. Silent'
    BY <1>4 DEF Silent
  <2> QED
    BY <1>1, <1>2, <1>4, <2>1, <2>2 DEF Conversation
<1>5. CASE pc' = "syn" /\ sockets' = [sockets EXCEPT ![slot] = t]
  <2>1. pc' \in TcpPc /\ pc' # "resolve"
    BY <1>5 DEF TcpPc
  <2>2. sockets'[cur'] = t
    BY <1>5
  <2>3. n = Plus(s.isn, 1)
    OBVIOUS
  <2> HIDE DEF n
  <2>4. /\ t.port = s.port /\ t.conn = s.conn /\ t.isn = s.isn
        /\ t.state = s.state /\ t.snd_nxt = n
    BY DEF Sock
  <2> HIDE DEF t
  <2>5. Talk("syn", t, NoPeer, Unsent, net')
    BY <1>1, <2>3, <2>4, TalkBegins
  <2>6. peer'[t.conn] = NoPeer
    BY <2>4
  <2>7. Conversation'
    BY <1>5, <2>2, <2>5, <2>6 DEF Conversation
  <2>8. Segment(s, c, {"SYN"}, 0).kind = "tcp"
    BY DEF Segment
  <2>9. \A f \in net' : ~Theirs(f, t)
    BY <1>1, <2>4, <2>8 DEF Theirs
  <2>10. Opening'
    BY <2>2, <2>9 DEF Opening
  <2> QED
    BY <1>1, <1>2, <2>1, <2>2, <2>4, <2>7, <2>10, SilentLater
<1> QED
  BY <1>3, <1>4, <1>5

(* One more connection is numbered and takes the next port.                *)
LEMMA NumberedStarts ==
  ASSUME Inv, Numbered, commands' = commands + 1, pc \notin TcpPc,
         next_ephemeral' = NextPort(next_ephemeral),
         pc' \in TcpPc => /\ sockets'[cur'].conn = commands
                          /\ sockets'[cur'].port = next_ephemeral,
         \A f \in net' :
           \/ f \in net
           \/ ~Wired(f)
           \/ f.kind = "tcp" /\ f.conn = commands
  PROVE  Numbered'
<1>1. commands \in Nat
  BY NetAssumption, SMT DEF Inv, Typed, TypeOK
<1>2. PICK n \in 0..commands : Ported(n)
  BY DEF Numbered
<1>3. n \in Nat /\ n + 1 \in 0..commands' /\ n + 1 > 0 /\ (n + 1) - 1 = n
  BY <1>1, SMT
<1>4. next_ephemeral = PortOf(n) /\ next_ephemeral' = PortOf(n + 1)
  BY <1>2, <1>3, NextPortOf DEF Ported
<1>5. \A f \in net : Wired(f) => f.conn \in Nat /\ f.conn < commands
  BY DEF Inv, Frames, IsFrame, Wired, Numbered
<1>6. \A f \in net' : Wired(f) => f.conn < commands'
  BY <1>1, <1>5, SMT
<1>7. pc' \in TcpPc => sockets'[cur'].conn < commands'
  BY <1>1, SMT
<1>8. ASSUME NEW f \in net', f.kind = "segment"
      PROVE  \E k \in 0..n : f.port = PortOf(k) /\ k < n
  <2>1. f \in net
    BY <1>8 DEF Wired
  <2>2. PICK k \in 0..n - 1 : f.port = PortOf(k)
    BY <1>2, <1>8, <2>1 DEF Ported
  <2>3. k \in 0..n /\ k < n
    BY <1>3, SMT
  <2> QED
    BY <2>2, <2>3
<1>9. \A f \in net' : f.kind = "segment" =>
        \E k \in 0..(n + 1) - 1 :
          /\ f.port = PortOf(k)
          /\ pc' \in TcpPc /\ f.conn # sockets'[cur'].conn => k < (n + 1) - 1
  BY <1>3, <1>8
<1>10. pc' \in TcpPc => n + 1 > 0 /\ sockets'[cur'].port = PortOf((n + 1) - 1)
  BY <1>3, <1>4
<1>11. Ported(n + 1)'
  BY <1>4, <1>9, <1>10 DEF Ported
<1> QED
  BY <1>3, <1>6, <1>7, <1>11 DEF Numbered

LEMMA ConnectTalks ==
  ASSUME Inv, TalkInv, NEW ip \in Server, NEW isn \in Isn, Connect(ip, isn)
  PROVE  TalkInv' /\ (pc' = "syn" => Opening')
<1> DEFINE free == {i \in Slot : ~sockets[i].used}
           slot == CHOOSE i \in free : \A j \in free : i <= j
           s == [used |-> TRUE, state |-> SYN_SENT, dst |-> ip,
                 port |-> next_ephemeral, conn |-> commands, snd_nxt |-> isn,
                 snd_una |-> isn, rcv_nxt |-> 0, isn |-> isn, rcv |-> <<>>]
<1>1. /\ pc = "idle" /\ commands < MaxCommands /\ commands' = commands + 1
      /\ UNCHANGED <<taken, sent, peer>>
  BY DEF Connect, Begin
<1>2. /\ \A i \in Slot : ~sockets[i].used
      /\ sockets \in [Slot -> Sock] /\ next_ephemeral \in Nat
      /\ commands \in 0..MaxCommands
  BY <1>1 DEF Inv, OneSlot, TcpPc, Typed, TypeOK
<1>3. commands \in Conn /\ commands \in Nat /\ isn \in SeqNo
  BY <1>1, <1>2, NetAssumption, TcpAssumption, SMT DEF Conn, SeqNo
<1>4. slot \in Slot /\ free # {}
  <2>1. 0 \in free /\ \A j \in free : 0 <= j
    BY <1>2, TcpAssumption, SMT DEF Slot
  <2>2. slot \in free
    BY <2>1
  <2> QED
    BY <2>1, <2>2
<1>5. /\ s \in Sock /\ s.conn = commands /\ s.state = SYN_SENT
      /\ s.snd_nxt = s.isn /\ s.port = next_ephemeral
  <2>1. ip \in Host /\ SYN_SENT \in CLOSED..CLOSE_WAIT
        /\ <<>> \in Seq(Nat \X Nat)
    BY TcpAssumption, SMT DEF SYN_SENT, CLOSED, CLOSE_WAIT
  <2> QED
    BY <2>1, <1>2, <1>3, SeqNoNat DEF Sock
<1>6. /\ cur' = slot
      /\ next_ephemeral' = NextPort(next_ephemeral)
      /\ IF Resolved(cache, ip)
         THEN SendSyn(s, slot, cache, net)
         ELSE /\ net' = net \cup {ArpRequest(ip)}
              /\ sockets' = [sockets EXCEPT ![slot] = s]
              /\ pc' = "resolve"
  BY <1>4 DEF Connect
<1> HIDE DEF free, slot, s
<1>7. pc \notin TcpPc
  BY <1>1 DEF TcpPc
<1>8. taken = <<>> /\ sent = Unsent /\ peer = [c \in Conn |-> NoPeer]
  BY <1>7 DEF TalkInv, Silent
<1>9. \A f \in net : ~Ours(f, s) /\ ~Theirs(f, s)
  <2>1. \A f \in net : Wired(f) => f.conn \in Nat /\ f.conn < commands
    BY DEF Inv, Frames, IsFrame, Wired, TalkInv, Numbered
  <2> QED
    BY <1>3, <1>5, <2>1, SMT DEF Ours, Theirs, Wired
<1>10. CASE Resolved(cache, ip)
  <2> DEFINE a == Segment(s, cache, {"SYN"}, 0)
  <2>1. SendSyn(s, slot, cache, net) /\ s.conn \in Conn
    BY <1>3, <1>5, <1>6, <1>10
  <2>2. /\ Silent' /\ Conversation' /\ sent' \in Message
        /\ net' = net \cup {a}
        /\ pc' \in TcpPc => /\ sockets'[cur'].conn = s.conn
                            /\ sockets'[cur'].port = s.port
        /\ pc' = "syn" => Opening'
    BY <1>1, <1>2, <1>4, <1>5, <1>6, <1>8, <1>9, <2>1, SynTalks DEF TalkInv
  <2>3. a.kind = "tcp" /\ a.conn = s.conn
    BY DEF Segment
  <2> HIDE DEF a
  <2>4. \A f \in net' : \/ f \in net
                        \/ ~Wired(f)
                        \/ f.kind = "tcp" /\ f.conn = commands
    BY <1>5, <2>2, <2>3
  <2>5. Numbered'
    BY <1>1, <1>5, <1>6, <1>7, <2>2, <2>4, NumberedStarts DEF TalkInv
  <2> QED
    BY <2>2, <2>5 DEF TalkInv
<1>11. CASE ~Resolved(cache, ip)
  <2>1. /\ net' = net \cup {ArpRequest(ip)} /\ pc' = "resolve"
        /\ sockets' = [sockets EXCEPT ![slot] = s]
    BY <1>6, <1>11
  <2>2. sockets'[cur'] = s /\ pc' \in TcpPc
    BY <1>2, <1>4, <1>6, <2>1 DEF TcpPc
  <2>3. ~Wired(ArpRequest(ip))
    BY DEF Wired, ArpRequest
  <2>4. Numbered'
    BY <1>1, <1>5, <1>6, <1>7, <2>1, <2>2, <2>3, NumberedStarts DEF TalkInv
  <2>5. \A f \in net' : ~Ours(f, s) /\ ~Theirs(f, s)
    BY <1>9, <2>1, <2>3 DEF Ours, Theirs, Wired
  <2>6. Silent'
    BY <1>1, <1>5, <1>8, <2>1, <2>2, <2>5 DEF Silent
  <2>7. Conversation'
    BY <2>1 DEF Conversation
  <2>8. sent' \in Message
    BY <1>1, <1>8, UnsentIs
  <2> QED
    BY <2>1, <2>4, <2>6, <2>7, <2>8 DEF TalkInv
<1> QED
  BY <1>10, <1>11

(* While it resolves the address, the network holds nothing for the socket.*)
LEMMA ArpPollTalks ==
  ASSUME Inv, TalkInv, MaxCommands <= NPorts, ConnectArpPoll
  PROVE  TalkInv' /\ (pc' = "syn" => Opening')
<1> DEFINE s == sockets[cur]
<1>1. PICK f \in Inbound :
        LET t == IF Matches(s, f) THEN Handle(s, f) ELSE s
        IN  IF Resolved(cache', dst)
            THEN SendSyn(t, cur, cache', net)
            ELSE /\ sockets' = [sockets EXCEPT ![cur] = t]
                 /\ UNCHANGED <<net, pc>>
  BY DEF ConnectArpPoll
<1>2. /\ pc = "resolve" /\ pc \in TcpPc
      /\ UNCHANGED <<commands, next_ephemeral, cur, taken, sent, peer>>
  BY DEF ConnectArpPoll, TcpPc
<1>3. s \in Sock /\ cur \in Slot /\ sockets \in [Slot -> Sock] /\ s.conn \in Conn
      /\ commands \in Nat
  BY <1>2, NetAssumption, SMT DEF Inv, Typed, TypeOK, OneSlot
<1>4. /\ taken = <<>> /\ sent = Unsent /\ peer = [c \in Conn |-> NoPeer]
      /\ \A g \in net : ~Ours(g, s) /\ ~Theirs(g, s)
      /\ s.state = SYN_SENT /\ s.snd_nxt = s.isn
  BY <1>2 DEF TalkInv, Silent
<1>5. ~Matches(s, f)
  BY <1>2, <1>4, OwnSegment DEF TalkInv
<1>6. IF Resolved(cache', dst)
      THEN SendSyn(s, cur, cache', net)
      ELSE /\ sockets' = [sockets EXCEPT ![cur] = s]
           /\ UNCHANGED <<net, pc>>
  BY <1>1, <1>5
<1> HIDE DEF s
<1>7. CASE Resolved(cache', dst)
  <2> DEFINE a == Segment(s, cache', {"SYN"}, 0)
  <2>1. SendSyn(s, cur, cache', net)
    BY <1>6, <1>7
  <2>2. /\ Silent' /\ Conversation' /\ sent' \in Message
        /\ net' = net \cup {a}
        /\ pc' \in TcpPc => /\ sockets'[cur'].conn = s.conn
                            /\ sockets'[cur'].port = s.port
        /\ pc' = "syn" => Opening'
    BY <1>2, <1>3, <1>4, <2>1, SynTalks DEF TalkInv
  <2>3. a.conn = s.conn /\ a.port = s.port
    BY DEF Segment
  <2> HIDE DEF a
  <2>4. commands' \in Nat /\ commands' >= commands
    BY <1>2, <1>3, SMT
  <2>5. Numbered'
    BY <1>2, <2>2, <2>3, <2>4, NumberedGoesOn DEF TalkInv, s
  <2> QED
    BY <2>2, <2>5 DEF TalkInv
<1>8. CASE ~Resolved(cache', dst)
  <2>1. UNCHANGED <<net, pc>> /\ sockets' = [sockets EXCEPT ![cur] = s]
    BY <1>6, <1>8
  <2>2. sockets' = sockets
    BY <1>3, <2>1 DEF s
  <2> QED
    BY <1>2, <2>1, <2>2 DEF TalkInv, Numbered, Ported, Silent, Conversation
<1> QED
  BY <1>7, <1>8
-----------------------------------------------------------------------------
(* The peer's steps.                                                       *)
LEMMA PeerPlace ==
  ASSUME Inv, TalkInv, NEW c, NEW q, NEW F, PeerActs(c, q, F)
  PROVE  /\ pc \in TcpPc /\ sockets[cur] \in Sock /\ sockets[cur].conn = c
         /\ c \in Conn /\ peer \in [Conn -> Peer]
         /\ \A f \in FromUs : f.conn = c => Ours(f, sockets[cur])
         /\ pc = "resolve" =>
              /\ \A f \in FromUs : f.conn # c
              /\ ~peer[c].up
<1>1. /\ pc \in TcpPc /\ sockets[cur] \in Sock /\ sockets[cur].conn = c
      /\ c \in Conn /\ peer \in [Conn -> Peer]
  BY DEF PeerActs, Inv, Typed, TypeOK, OneSlot
<1>2. \A f \in FromUs : f.conn = c => Ours(f, sockets[cur])
  BY <1>1 DEF FromUs, Ours
<1>3. pc = "resolve" => \A f \in FromUs : f.conn # c
  BY <1>2 DEF TalkInv, Silent, FromUs
<1>4. pc = "resolve" => ~peer[c].up
  BY <1>1, SMT DEF TalkInv, Silent, NoPeer
<1> QED
  BY <1>1, <1>2, <1>3, <1>4

(* The peer goes from p to q, answering with F what socket s said.         *)
GoodAnswer(s, p, c, q, F) ==
  /\ \/ q.rcv = p.rcv
     \/ q.rcv = AfterMessage(s, sent)
     \/ pc = "syn"
  /\ p.open => q.open
  /\ p.up => q.up
  /\ q.up => q.open
  /\ q.up => pc # "syn"
  /\ q.open => q.port = s.port /\ Heard(s, q, sent, q.rcv)
  /\ \A g \in F : /\ g.kind = "segment" /\ g.conn = c
                  /\ g.port = s.port /\ GotOK(s, q, sent, g)

LEMMA PeerTalks ==
  ASSUME Inv, TalkInv, NEW c, NEW q, NEW F, PeerActs(c, q, F),
         pc # "resolve", GoodAnswer(sockets[cur], peer[c], c, q, F)
  PROVE  TalkInv'
<1> DEFINE s == sockets[cur]
           p == peer[c]
<1>1. /\ pc \in TcpPc /\ s \in Sock /\ s.conn = c /\ c \in Conn
      /\ peer \in [Conn -> Peer]
  BY PeerPlace
<1>2. /\ UNCHANGED <<pc, commands, sockets, next_ephemeral, cur, sent>>
      /\ net' = net \cup F /\ peer' = [peer EXCEPT ![c] = q]
  BY DEF PeerActs, shellVars
<1>3. peer'[c] = q
  BY <1>1, <1>2
<1>4. Talk(pc, s, p, sent, net) /\ sent \in Message
  BY <1>1 DEF TalkInv, Conversation
<1>5. \A g \in net' : g \in net \/ (g.kind = "segment" /\ GotOK(s, q, sent, g))
  BY <1>2 DEF GoodAnswer
<1>6. \A g \in net' : g \in net \/ (g.conn = s.conn /\ g.port = s.port)
  BY <1>1, <1>2 DEF GoodAnswer
<1>7. /\ \/ q.rcv = p.rcv
         \/ q.rcv = AfterMessage(s, sent)
         \/ pc = "syn"
      /\ p.open => q.open
      /\ p.up => q.up
      /\ q.up => q.open
      /\ q.up => pc # "syn"
      /\ q.open => q.port = s.port /\ Heard(s, q, sent, q.rcv)
  BY DEF GoodAnswer
<1> HIDE DEF s, p
<1>8. Talk(pc, s, q, sent, net')
  BY <1>1, <1>4, <1>5, <1>7, TalkPeer
<1> QED
  BY <1>1, <1>2, <1>3, <1>4, <1>6, <1>8, TalkGoesOn DEF s

LEMMA AcceptsTalks ==
  ASSUME Inv, TalkInv, PeerAccepts
  PROVE  TalkInv'
<1>1. PICK f \in FromUs, i \in PeerIsn :
        LET p == [open |-> TRUE, up |-> FALSE, port |-> f.port, iss |-> i,
                  snd |-> i, rcv |-> Plus(f.seq, 1), left |-> MaxSegs]
        IN  /\ "SYN" \in f.flags
            /\ ~peer[f.conn].open
            /\ PeerActs(f.conn, [p EXCEPT !.snd = Plus(i, 1)],
                        {Reply(f.conn, {"SYN", "ACK"}, p, 0)})
  BY DEF PeerAccepts
<1> DEFINE n == Plus(f.seq, 1)
           p == [open |-> TRUE, up |-> FALSE, port |-> f.port, iss |-> i,
                 snd |-> i, rcv |-> n, left |-> MaxSegs]
           q == [p EXCEPT !.snd = Plus(i, 1)]
           a == Reply(f.conn, {"SYN", "ACK"}, p, 0)
           s == sockets[cur]
<1>2. "SYN" \in f.flags /\ ~peer[f.conn].open /\ PeerActs(f.conn, q, {a})
  BY <1>1
<1>3. /\ pc \in TcpPc /\ pc # "resolve" /\ s \in Sock /\ s.conn = f.conn
      /\ Ours(f, s)
  BY <1>2, PeerPlace
<1>4. Talk(pc, s, peer[s.conn], sent, net)
  BY <1>3 DEF TalkInv, Conversation
<1>5. f.port = s.port /\ f.seq = s.isn
  BY <1>2, <1>3, <1>4 DEF Talk, SentOK, FromUs
<1>6. pc = "syn"
  BY <1>2, <1>3, <1>4 DEF Talk, SockOK
<1>7. ~peer[f.conn].up
  BY <1>2, <1>3, <1>4 DEF Talk, PeerOK
<1>8. /\ q.open = TRUE /\ q.up = FALSE /\ q.port = f.port /\ q.rcv = n
      /\ p.port = f.port /\ p.rcv = n
  OBVIOUS
<1>9. /\ a.kind = "segment" /\ a.port = f.port /\ a.conn = f.conn /\ a.ack = n
      /\ a.len = 0 /\ "FIN" \notin a.flags
  BY <1>8, ReplyIs, Flags, SMT
<1>10. n = AfterSyn(s)
  BY <1>5 DEF AfterSyn
<1> HIDE DEF n, p, q, a, s
<1>11. Heard(s, q, sent, n) /\ GotOK(s, q, sent, a)
  BY <1>8, <1>9, <1>10, SMT DEF Heard, GotOK
<1>12. /\ peer[f.conn].open => q.open
       /\ peer[f.conn].up => q.up
       /\ q.up => q.open
       /\ q.up => pc # "syn"
       /\ q.open => q.port = s.port /\ Heard(s, q, sent, q.rcv)
  BY <1>2, <1>5, <1>7, <1>8, <1>11
<1>13. \A g \in {a} : /\ g.kind = "segment" /\ g.conn = f.conn
                      /\ g.port = s.port /\ GotOK(s, q, sent, g)
  BY <1>5, <1>9, <1>11
<1>14. GoodAnswer(s, peer[f.conn], f.conn, q, {a})
  BY <1>6, <1>12, <1>13 DEF GoodAnswer
<1> QED
  BY <1>2, <1>3, <1>14, PeerTalks DEF s

LEMMA RefusesTalks ==
  ASSUME Inv, TalkInv, PeerRefuses
  PROVE  TalkInv'
<1>1. PICK f \in FromUs :
        /\ "SYN" \in f.flags
        /\ ~peer[f.conn].open
        /\ PeerActs(f.conn, peer[f.conn],
                    {Reply(f.conn, {"RST", "ACK"},
                           [NoPeer EXCEPT !.port = f.port,
                                          !.rcv = Plus(f.seq, 1)], 0)})
  BY DEF PeerRefuses
<1> DEFINE n == Plus(f.seq, 1)
           p == [NoPeer EXCEPT !.port = f.port, !.rcv = n]
           q == peer[f.conn]
           a == Reply(f.conn, {"RST", "ACK"}, p, 0)
           s == sockets[cur]
<1>2. "SYN" \in f.flags /\ ~q.open /\ PeerActs(f.conn, q, {a})
  BY <1>1
<1>3. /\ pc \in TcpPc /\ pc # "resolve" /\ s \in Sock /\ s.conn = f.conn
      /\ Ours(f, s)
  BY <1>2, PeerPlace
<1>4. Talk(pc, s, q, sent, net)
  BY <1>3 DEF TalkInv, Conversation
<1>5. f.port = s.port /\ f.seq = s.isn
  BY <1>2, <1>3, <1>4 DEF Talk, SentOK, FromUs
<1>6. ~q.up
  BY <1>2, <1>4 DEF Talk, PeerOK
<1>7. p.port = f.port /\ p.rcv = n
  BY DEF NoPeer
<1> HIDE DEF n, p
<1>8. /\ a.kind = "segment" /\ a.port = f.port /\ a.conn = f.conn /\ a.ack = n
      /\ a.len = 0 /\ "FIN" \notin a.flags /\ "SYN" \notin a.flags
  <2>1. a.flags = {"RST", "ACK"}
    BY ReplyIs, SMT
  <2> QED
    BY <1>7, <2>1, ReplyIs, Flags, SMT
<1>9. n = AfterSyn(s)
  BY <1>5 DEF n, AfterSyn
<1> HIDE DEF q, a, s
<1>10. GotOK(s, q, sent, a)
  BY <1>8, <1>9, SMT DEF Heard, GotOK
<1>11. PeerActs(f.conn, q, {a}) /\ q = peer[f.conn]
  BY <1>2 DEF q
<1>12. \A g \in {a} : /\ g.kind = "segment" /\ g.conn = f.conn
                      /\ g.port = s.port /\ GotOK(s, q, sent, g)
  BY <1>5, <1>8, <1>10
<1>13. GoodAnswer(s, q, f.conn, q, {a})
  BY <1>2, <1>6, <1>12 DEF GoodAnswer
<1> QED
  BY <1>3, <1>11, <1>13, PeerTalks DEF s

LEMMA GetsTalks ==
  ASSUME Inv, TalkInv, PeerGets
  PROVE  TalkInv'
<1>1. PICK f \in FromUs :
        LET p == peer[f.conn]
            q == [p EXCEPT !.up = TRUE,
                           !.rcv = IF f.seq = @ THEN Plus(@, f.len) ELSE @]
        IN  /\ p.open /\ "SYN" \notin f.flags
            /\ PeerActs(f.conn, q, IF f.len > 0 THEN {Reply(f.conn, {"ACK"}, q, 0)}
                                                ELSE {})
  BY DEF PeerGets
<1> DEFINE p == peer[f.conn]
           n == IF f.seq = p.rcv THEN Plus(p.rcv, f.len) ELSE p.rcv
           q == [p EXCEPT !.up = TRUE, !.rcv = n]
           a == Reply(f.conn, {"ACK"}, q, 0)
           F == IF f.len > 0 THEN {a} ELSE {}
           s == sockets[cur]
<1>2. p.open /\ "SYN" \notin f.flags /\ PeerActs(f.conn, q, F)
  BY <1>1
<1> HIDE DEF F
<1>3. /\ pc \in TcpPc /\ pc # "resolve" /\ s \in Sock /\ s.conn = f.conn
      /\ Ours(f, s) /\ p \in Peer
  BY <1>2, PeerPlace
<1>4. Talk(pc, s, p, sent, net) /\ sent \in Message
  BY <1>3 DEF TalkInv, Conversation
<1>5. f.port = s.port /\ pc # "syn"
  BY <1>2, <1>3, <1>4 DEF Talk, SentOK, FromUs
<1>6. f.len > 0 => f.seq = AfterSyn(s) /\ f.len = sent.len
  BY <1>3, <1>4 DEF Talk, SentOK, FromUs
<1>7. p.port = s.port /\ Heard(s, p, sent, p.rcv)
  BY <1>2, <1>4 DEF Talk, PeerOK
<1>8. /\ q.open = TRUE /\ q.up = TRUE /\ q.port = p.port /\ q.rcv = n
  BY <1>2, <1>3 DEF Peer
<1>9. f.len \in Nat /\ p.rcv \in SeqNo /\ s.isn \in SeqNo
  <2>1. f \in net /\ f.kind = "tcp"
    BY DEF FromUs
  <2>2. f.len \in Nat
    BY <2>1 DEF Inv, Frames, IsFrame
  <2> QED
    BY <1>3, <2>2 DEF Peer, Sock
<1>10. n = p.rcv \/ n = AfterMessage(s, sent)
  <2>1. CASE f.len = 0
    BY <1>9, <2>1, PlusZero
  <2>2. CASE f.len > 0
    <3>1. f.seq = p.rcv => n = Plus(Plus(s.isn, 1), sent.len)
      BY <1>6, <2>2 DEF AfterSyn
    <3>2. s.isn \in Nat /\ sent.len \in Nat
      BY <1>4, <1>9, SeqNoNat DEF Message
    <3>3. Plus(Plus(s.isn, 1), sent.len) = AfterMessage(s, sent)
      BY <3>2, PlusPlus DEF AfterMessage
    <3> QED
      BY <3>1, <3>3
  <2> QED
    BY <1>9, <2>1, <2>2, SMT
<1>11. a.kind = "segment" /\ a.port = q.port /\ a.conn = f.conn /\ a.ack = q.rcv
       /\ a.len = 0 /\ a.flags = {"ACK"}
  <2> HIDE DEF q
  <2> QED  BY ReplyIs, SMT
<1>12. "FIN" \notin a.flags /\ "SYN" \notin a.flags
  BY <1>11, Flags
<1>13. PeerActs(f.conn, q, F) /\ p = peer[f.conn]
  BY <1>2
<1> HIDE DEF n, q, a, p, s
<1>14. Heard(s, q, sent, q.rcv)
  BY <1>7, <1>8, <1>10 DEF Heard
<1>15. a.len = 0 => GotOK(s, q, sent, a)
  BY <1>8, <1>11, <1>12, <1>14 DEF GotOK
<1>16. \A g \in F : g = a
  BY DEF F
<1>17. \A g \in F : /\ g.kind = "segment" /\ g.conn = f.conn
                    /\ g.port = s.port /\ GotOK(s, q, sent, g)
  BY <1>7, <1>8, <1>11, <1>15, <1>16
<1>18. GoodAnswer(s, p, f.conn, q, F)
  BY <1>5, <1>7, <1>8, <1>10, <1>14, <1>17 DEF GoodAnswer
<1> QED
  BY <1>3, <1>13, <1>18, PeerTalks DEF s

LEMMA TellsTalks ==
  ASSUME Inv, TalkInv, NEW c, NEW q, NEW flags, NEW len,
         PeerActs(c, q, {Reply(c, flags, peer[c], len)}), peer[c].up,
         q.open = peer[c].open, q.up = peer[c].up, q.port = peer[c].port,
         q.rcv = peer[c].rcv
  PROVE  TalkInv'
<1> DEFINE p == peer[c]
           s == sockets[cur]
           a == Reply(c, flags, p, len)
<1>1. /\ pc \in TcpPc /\ pc # "resolve" /\ s \in Sock /\ s.conn = c
  BY PeerPlace
<1>2. Talk(pc, s, p, sent, net)
  BY <1>1 DEF TalkInv, Conversation
<1>3. p.open /\ p.port = s.port /\ Heard(s, p, sent, p.rcv) /\ pc # "syn"
  BY <1>2 DEF Talk, PeerOK, SockOK
<1>4. a.kind = "segment" /\ a.port = p.port /\ a.conn = c /\ a.ack = p.rcv
  BY ReplyIs, SMT
<1>5. PeerActs(c, q, {a})
  OBVIOUS
<1> HIDE DEF a, s
<1>6. Heard(s, q, sent, q.rcv) /\ GotOK(s, q, sent, a)
  BY <1>3, <1>4 DEF Heard, GotOK
<1>7. \A g \in {a} : /\ g.kind = "segment" /\ g.conn = c
                     /\ g.port = s.port /\ GotOK(s, q, sent, g)
  BY <1>3, <1>4, <1>6
<1>8. /\ q.rcv = p.rcv /\ q.open /\ q.up /\ q.port = s.port
  BY <1>3
<1> HIDE DEF p
<1>9. GoodAnswer(s, p, c, q, {a})
  BY <1>3, <1>6, <1>7, <1>8 DEF GoodAnswer
<1> QED
  BY <1>1, <1>5, <1>9, PeerTalks DEF s, p

LEMMA PeerStepTalks ==
  ASSUME Inv, TalkInv, PeerStep
  PROVE  TalkInv'
<1>1. CASE PeerSends
  <2>1. PICK c \in Conn :
          /\ peer[c].up
          /\ PeerActs(c, [peer[c] EXCEPT !.snd = Plus(@, 1), !.left = @ - 1],
                      {Reply(c, {"PSH", "ACK"}, peer[c], 1)})
    BY <1>1 DEF PeerSends
  <2> DEFINE q == [peer[c] EXCEPT !.snd = Plus(@, 1), !.left = @ - 1]
  <2>2. peer[c] \in Peer
    BY <2>1, PeerConn
  <2>3. /\ q.open = peer[c].open /\ q.up = peer[c].up /\ q.port = peer[c].port
        /\ q.rcv = peer[c].rcv
    BY <2>2 DEF Peer
  <2>4. PeerActs(c, q, {Reply(c, {"PSH", "ACK"}, peer[c], 1)})
    BY <2>1
  <2> HIDE DEF q
  <2> QED
    BY <2>1, <2>3, <2>4, TellsTalks
<1>2. CASE PeerEnds
  <2>1. PICK c \in Conn :
          /\ peer[c].up
          /\ \E f \in {Reply(c, {"FIN", "ACK"}, peer[c], 0),
                       Reply(c, {"FIN", "ACK"}, peer[c], 1),
                       Reply(c, {"RST", "ACK"}, peer[c], 0)} :
               PeerActs(c, [peer[c] EXCEPT !.left = 0], {f})
    BY <1>2 DEF PeerEnds
  <2> DEFINE q == [peer[c] EXCEPT !.left = 0]
  <2>2. peer[c] \in Peer
    BY <2>1, NetAssumption DEF Conn, Inv, Typed
  <2>3. /\ q.open = peer[c].open /\ q.up = peer[c].up /\ q.port = peer[c].port
        /\ q.rcv = peer[c].rcv
    BY <2>2 DEF Peer
  <2>4. PICK flags, len : PeerActs(c, q, {Reply(c, flags, peer[c], len)})
    BY <2>1
  <2> HIDE DEF q
  <2> QED
    BY <2>1, <2>3, <2>4, TellsTalks
<1> QED
  BY <1>1, <1>2, AcceptsTalks, RefusesTalks, GetsTalks DEF PeerStep

(* A ping sends no segment.                                                *)
LEMMA PingSends ==
  ASSUME NetNext
  PROVE  /\ pc \in {"idle"} \cup PingPc /\ pc' \in {"idle"} \cup PingPc
         /\ commands' \in {commands, commands + 1}
         /\ \A f \in net' : f \in net \/ ~Wired(f)
<1>1. \A ip, c : SendEcho(ip, c, net) =>
        pc' = "echo" /\ \A f \in net' : f \in net \/ ~Wired(f)
  <2> SUFFICES ASSUME NEW ip, NEW c, SendEcho(ip, c, net)
               PROVE  pc' = "echo" /\ \A f \in net' : f \in net \/ ~Wired(f)
    OBVIOUS
  <2>1. ~Wired(Echo(ip, c.mac))
    BY DEF Wired, Echo
  <2> QED
    BY <2>1 DEF SendEcho
<1>2. \A ip : ~Wired(ArpRequest(ip))
  BY DEF Wired, ArpRequest
<1>3. ASSUME NEW ip \in Pinged, Ping(ip)
      PROVE  /\ pc = "idle" /\ pc' \in {"echo", "arp1"} /\ commands' = commands + 1
             /\ \A f \in net' : f \in net \/ ~Wired(f)
  BY <1>1, <1>2, <1>3 DEF Ping, Begin
<1>4. ASSUME PingArpPoll
      PROVE  /\ pc \in {"arp1", "arp2"} /\ pc' \in {"echo", pc}
             /\ commands' = commands
             /\ \A f \in net' : f \in net \/ ~Wired(f)
  BY <1>1, <1>4 DEF PingArpPoll
<1>5. ASSUME PingPoll \/ PingArpTimeout \/ PingTimeout
      PROVE  /\ pc \in PingPc /\ pc' \in {"idle", "arp2", pc}
             /\ commands' = commands /\ net' = net
  BY <1>5 DEF PingPoll, PingArpTimeout, PingTimeout, PingPc, Return, netVars
<1> QED
  BY <1>3, <1>4, <1>5 DEF NetNext, PingPc

LEMMA PingTalks ==
  ASSUME Inv, TalkInv, NetNext, UNCHANGED tcpVars
  PROVE  TalkInv'
<1>1. pc \notin TcpPc /\ pc' \notin TcpPc /\ pc' # "resolve"
  BY PingSends DEF TcpPc, PingPc
<1>2. taken = <<>> /\ sent = Unsent /\ peer = [c \in Conn |-> NoPeer]
  BY <1>1 DEF TalkInv, Silent
<1>3. UNCHANGED <<taken, sent, peer, next_ephemeral>>
  BY DEF tcpVars
<1> QED
  BY <1>1, <1>2, <1>3, PingSends, TalkOver

LEMMA TalkInit ==
  ASSUME Init
  PROVE  TalkInv
<1>1. /\ pc = "idle" /\ pc \notin TcpPc /\ net = {} /\ commands = 0
      /\ taken = <<>> /\ sent = Unsent /\ peer = [c \in Conn |-> NoPeer]
      /\ next_ephemeral = 40000
  BY SMT DEF Init, NetInit, TcpPc
<1>2. PortOf(0) = 40000
  BY SMT DEF PortOf, NPorts
<1>3. Ported(0)
  BY <1>1, <1>2, SMT DEF Ported
<1>4. Numbered
  BY <1>1, <1>3, SMT DEF Numbered
<1> QED
  BY <1>1, <1>4, UnsentIs, SMT DEF TalkInv, Silent, Conversation, TcpPc

LEMMA TalkNext ==
  ASSUME Inv, TalkInv, MaxCommands <= NPorts, [Next]_vars
  PROVE  TalkInv'
<1>1. CASE UNCHANGED vars
  <2>1. UNCHANGED <<net, pc, commands, sockets, next_ephemeral, cur, peer,
                    taken, sent>>
    BY <1>1 DEF vars, netVars, shellVars, tcpVars
  <2> QED
    BY <2>1 DEF TalkInv, Numbered, Ported, Silent, Conversation
<1>2. CASE NetNext /\ UNCHANGED tcpVars
  BY <1>2, PingTalks
<1>3. CASE ConnectTimeout \/ CloseEnds
  BY <1>3, EndsTalks DEF ConnectTimeout, CloseEnds
<1>4. CASE TcpStep /\ ~(ConnectTimeout \/ CloseEnds)
  BY <1>4, ConnectTalks, ArpPollTalks, TalkPolls, SendTalks, RecvTalks,
     CloseTalks
     DEF TcpStep
<1>5. CASE PeerStep
  BY <1>5, PeerStepTalks
<1> QED
  BY <1>1, <1>2, <1>3, <1>4, <1>5 DEF Next

(* As long as ports are not used again: segments of the running connection *)
(* are told from those of earlier ones, and the peer acknowledges only     *)
(* what it has.                                                            *)
THEOREM TalkHolds == ASSUME MaxCommands <= NPorts PROVE Spec => []TalkInv
<1>1. Init => TalkInv
  BY TalkInit
<1>2. Inv /\ TalkInv /\ [Next]_vars => TalkInv'
  BY TalkNext
<1> QED
  BY <1>1, <1>2, Safety, PTL DEF Spec

(* tcp_send returns success only when the peer has the whole message,      *)
(* whatever the network repeats, reorders or still holds of earlier        *)
(* connections, for every number of slots and commands up to the 65536     *)
(* ports that tcp_connect hands out before it repeats one, and for every   *)
(* message that does not cross the end of the sequence numbers.            *)
THEOREM SendsConfirmed == ASSUME MaxCommands <= NPorts PROVE Spec => []SendConfirmed
<1>1. Inv /\ TalkInv => SendConfirmed
  <2> SUFFICES ASSUME Inv, TalkInv, sent.ok,
                      ~(Plus(sockets[cur].isn, 1) + sent.len >= SeqMod)
               PROVE  peer[sockets[cur].conn].rcv
                        = Plus(sockets[cur].isn, 1 + sent.len)
    BY DEF SendConfirmed
  <2> DEFINE s == sockets[cur]
             p == peer[s.conn]
  <2>1. pc \in TcpPc /\ pc # "resolve"
    BY UnsentIs DEF TalkInv, Silent
  <2>2. Talk(pc, s, p, sent, net) /\ sent \in Message
    BY <2>1 DEF TalkInv, Conversation
  <2>3. pc # "syn"
    BY <2>2, UnsentIs DEF Talk, SockOK
  <2>4. Heard(s, p, sent, p.rcv)
    BY <2>2, <2>3 DEF Talk, SockOK, PeerOK
  <2>5. AfterSyn(s) >= AfterMessage(s, sent) \/ p.rcv = AfterMessage(s, sent)
    BY <2>2 DEF Talk, SockOK
  <2>6. s \in Sock /\ s.isn \in Nat /\ sent.len \in Nat
    <3>1. s \in Sock
      BY DEF Inv, Typed, TypeOK
    <3>2. s.isn \in SeqNo
      BY <3>1 DEF Sock
    <3> QED
      BY <2>2, <3>1, <3>2, SeqNoNat DEF Message
  <2>7. AfterSyn(s) \in Nat /\ ~(AfterSyn(s) + sent.len >= SeqMod)
    BY <2>6, PlusType, SeqNoNat DEF AfterSyn
  <2> HIDE DEF s, p
  <2>8. ASSUME sent.len = 0
        PROVE  p.rcv = AfterMessage(s, sent)
    <3>1. 1 + sent.len = 1
      BY <2>8, SMT
    <3>2. AfterMessage(s, sent) = AfterSyn(s)
      BY <3>1 DEF AfterMessage, AfterSyn
    <3> QED
      BY <2>4, <3>2 DEF Heard
  <2>9. ASSUME sent.len # 0
        PROVE  p.rcv = AfterMessage(s, sent)
    <3>1. AfterMessage(s, sent) = Plus(AfterSyn(s), sent.len)
      BY <2>6, PlusPlus DEF AfterSyn, AfterMessage
    <3>2. Plus(AfterSyn(s), sent.len) = AfterSyn(s) + sent.len
      BY <2>6, <2>7, TcpAssumption, SMT DEF Plus
    <3>3. PICK x \in Nat : x = AfterMessage(s, sent)
      BY <2>6, <2>7, <3>1, <3>2, SMT
    <3>4. ~(AfterSyn(s) >= x)
      BY <2>6, <2>7, <2>9, <3>1, <3>2, <3>3, SMT
    <3> QED
      BY <2>5, <3>3, <3>4
  <2>10. p.rcv = AfterMessage(s, sent)
    BY <2>8, <2>9
  <2> QED
    BY <2>10 DEF AfterMessage, s, p
<1> QED
  BY <1>1, Safety, TalkHolds, PTL
-----------------------------------------------------------------------------
(* The peer's stream: d data segments sent, numbered from the one after    *)
(* its SYN; the stream ends with at most one FIN after them.               *)
GotStream(p, d, f) ==
  /\ "SYN" \in f.flags => p.open /\ f.seq = p.iss
  /\ "FIN" \in f.flags => p.left = 0 /\ d < MaxSegs /\ f.seq = p.snd
  /\ f.len > 0 /\ "FIN" \notin f.flags =>
       f.len = 1 /\ \E k \in 1..d : f.seq = Plus(p.iss, k)

(* What the socket stored are the first segments, and it expects the next  *)
(* one, or nothing more after the FIN.                                     *)
Leading(tk, c, iss) == \A i \in 1..Len(tk) : tk[i] = <<c, Plus(iss, i)>>

TookStream(s, p, tk, d) ==
  /\ Len(tk) <= d
  /\ Leading(tk, s.conn, p.iss)
  /\ \/ s.rcv_nxt = Plus(p.iss, 1 + Len(tk))
     \/ s.rcv_nxt = Plus(p.snd, 1) /\ p.left = 0 /\ d < MaxSegs

Stream(l, s, p, tk, N, d) ==
  /\ p.left >= 0 /\ d + p.left <= MaxSegs
  /\ p.open => p.snd = Plus(p.iss, d + 1)
  /\ \A f \in N : Theirs(f, s) => GotStream(p, d, f)
  /\ l = "syn" => tk = <<>>
  /\ l # "syn" => TookStream(s, p, tk, d)

Streaming ==
  pc \in TcpPc \ {"resolve"} =>
    \E d \in 0..MaxSegs :
      Stream(pc, sockets[cur], peer[sockets[cur].conn], taken, net, d)

StreamInv == taken \in Seq(Nat \X Nat) /\ Streaming
-----------------------------------------------------------------------------
LEMMA StreamSame ==
  ASSUME NEW l, NEW k, NEW s, NEW t, NEW p, NEW tk, NEW N, NEW M, NEW d,
         Stream(l, s, p, tk, N, d), l = "syn" <=> k = "syn",
         t.conn = s.conn, t.rcv_nxt = s.rcv_nxt,
         \A g \in M : g \in N \/ g.kind = "tcp"
  PROVE  Stream(k, t, p, tk, M, d)
<1>1. \A g \in M : Theirs(g, t) => g \in N /\ Theirs(g, s)
  BY DEF Theirs
<1>2. TookStream(s, p, tk, d) => TookStream(t, p, tk, d)
  BY DEF TookStream
<1> QED
  BY <1>1, <1>2 DEF Stream

LEMMA AppendIs ==
  ASSUME NEW tk \in Seq(Nat \X Nat), NEW x \in Nat \X Nat
  PROVE  /\ Append(tk, x) \in Seq(Nat \X Nat)
         /\ Len(Append(tk, x)) = Len(tk) + 1 /\ Len(tk) \in Nat
         /\ \A i \in 1..Len(tk) : Append(tk, x)[i] = tk[i]
         /\ Append(tk, x)[Len(tk) + 1] = x
BY SMT

LEMMA NextNumber ==
  ASSUME NEW i \in Nat, NEW n \in Nat, NEW d \in Nat, NEW k \in 1..d, n <= d,
         d < SeqMod, Plus(i, k) = Plus(i, 1 + n)
  PROVE  k = 1 + n
<1>1. SeqMod \in Nat
  BY TcpAssumption
<1>2. 1 + n \in Nat /\ k \in Nat /\ (1 + n) - k < SeqMod /\ k - (1 + n) < SeqMod
  BY <1>1, SMT
<1>3. k <= 1 + n => k = 1 + n
  BY <1>2, PlusInjective
<1>4. 1 + n <= k => k = 1 + n
  BY <1>2, PlusInjective
<1> QED
  BY <1>2, <1>3, <1>4, SMT

LEMMA PastEnd ==
  ASSUME NEW i \in Nat, NEW d \in Nat, NEW k \in 1..d, d + 1 < SeqMod
  PROVE  Plus(i, k) # Plus(Plus(i, d + 1), 1)
<1>1. SeqMod \in Nat
  BY TcpAssumption
<1>2. d + 1 \in Nat /\ k \in Nat /\ (d + 1) + 1 \in Nat /\ k <= (d + 1) + 1
      /\ ((d + 1) + 1) - k < SeqMod /\ k # (d + 1) + 1
  BY <1>1, SMT
<1>3. Plus(Plus(i, d + 1), 1) = Plus(i, (d + 1) + 1)
  BY <1>2, PlusPlus, SMT
<1> QED
  BY <1>2, <1>3, PlusInjective

LEMMA PeerNat ==
  ASSUME NEW p \in Peer
  PROVE  p.iss \in Nat /\ p.snd \in Nat /\ p.left \in Int
<1>1. p.iss \in SeqNo /\ p.snd \in SeqNo /\ p.left \in Int
  BY DEF Peer
<1> QED
  BY <1>1, SeqNoNat

(* tcp_handle_packet stores f: it is the next segment.                     *)
LEMMA StoresNext ==
  ASSUME MaxSegs < SeqMod, NEW s, NEW t, NEW p \in Peer,
         NEW tk \in Seq(Nat \X Nat), NEW d \in 0..MaxSegs,
         NEW f, f.conn = s.conn, f.conn \in Nat,
         p.snd = Plus(p.iss, d + 1), GotStream(p, d, f),
         TookStream(s, p, tk, d), Stores(s, f),
         t.conn = s.conn, t.rcv_nxt = Plus(f.seq, f.len)
  PROVE  LET u == Append(tk, <<f.conn, f.seq>>)
         IN  u \in Seq(Nat \X Nat) /\ TookStream(t, p, u, d)
<1> DEFINE u == Append(tk, <<f.conn, f.seq>>)
<1>1. f.seq = s.rcv_nxt /\ f.len > 0 /\ "FIN" \notin f.flags
  BY DEF Stores, InOrder
<1>2. f.len = 1
  BY <1>1 DEF GotStream
<1>3. PICK k \in 1..d : f.seq = Plus(p.iss, k)
  BY <1>1 DEF GotStream
<1>4. /\ Len(tk) <= d
      /\ Leading(tk, f.conn, p.iss)
      /\ \/ f.seq = Plus(p.iss, 1 + Len(tk))
         \/ f.seq = Plus(p.snd, 1) /\ d < MaxSegs
  BY <1>1 DEF TookStream
<1>5. p.iss \in Nat
  BY PeerNat
<1>6. /\ u \in Seq(Nat \X Nat) /\ Len(u) <= d
      /\ Leading(u, f.conn, p.iss)
      /\ Plus(f.seq, 1) = Plus(p.iss, 1 + Len(u))
  <2> DEFINE c == f.conn
             x == f.seq
             i == p.iss
             e == p.snd
  <2> DEFINE n == Len(tk)
             w == Append(tk, <<c, x>>)
  <2>1. /\ c \in Nat /\ i \in Nat /\ e = Plus(i, d + 1) /\ Len(tk) <= d
        /\ Leading(tk, c, i)
        /\ x = Plus(i, 1 + Len(tk)) \/ (x = Plus(e, 1) /\ d < MaxSegs)
        /\ x = Plus(i, k)
    BY <1>3, <1>4, <1>5
  <2> HIDE DEF c, x, i, e
  <2>2. MaxSegs \in Nat /\ d \in Nat /\ SeqMod \in Nat /\ n \in Nat /\ n <= d
        /\ k \in Nat
    BY <2>1, TcpAssumption, SMT
  <2>3. d < SeqMod /\ (d < MaxSegs => d + 1 < SeqMod)
    BY <2>2, SMT
  <2>4. x = Plus(i, 1 + n)
    BY <2>1, <2>2, <2>3, PastEnd
  <2>5. k = 1 + n
    BY <2>1, <2>2, <2>3, <2>4, NextNumber
  <2>6. x \in Nat
    BY <2>1, <2>2, PlusType, SeqNoNat
  <2>7. /\ w \in Seq(Nat \X Nat) /\ Len(w) = n + 1
        /\ \A j \in 1..n : w[j] = tk[j]
        /\ w[n + 1] = <<c, x>>
    BY <2>1, <2>6, AppendIs, SMT
  <2>8. Len(w) <= d
    BY <2>2, <2>5, <2>7, SMT
  <2>9. \A j \in 1..n : w[j] = <<c, Plus(i, j)>>
    BY <2>1, <2>7 DEF Leading
  <2>10. Plus(x, 1) = Plus(i, k + 1)
    BY <2>1, <2>2, PlusPlus, SMT
  <2> HIDE DEF n, w
  <2>11. Leading(w, c, i)
    <3>1. w[n + 1] = <<c, Plus(i, n + 1)>>
      BY <2>2, <2>4, <2>7, SMT
    <3>2. \A j \in 1..Len(w) : j \in 1..n \/ j = n + 1
      BY <2>2, <2>7, SMT
    <3> QED
      BY <2>9, <3>1, <3>2 DEF Leading
  <2>12. Plus(x, 1) = Plus(i, 1 + Len(w))
    BY <2>2, <2>5, <2>7, <2>10, SMT
  <2> QED
    BY <2>7, <2>8, <2>11, <2>12 DEF c, x, i, w
<1> HIDE DEF u
<1> QED
  BY <1>2, <1>6 DEF TookStream, u

LEMMA StreamHandles ==
  ASSUME MaxSegs < SeqMod, NEW l, NEW k, NEW s \in Sock, NEW t, NEW p \in Peer,
         NEW m, NEW tk \in Seq(Nat \X Nat), NEW N, NEW M, NEW d \in 0..MaxSegs,
         Talk(l, s, p, m, N), Stream(l, s, p, tk, N, d),
         NEW f \in N, Theirs(f, s), IsFrame(f), Handled(s, f, t, N, M),
         IF l = "syn" THEN k = (IF t.state = ESTABLISHED THEN "open" ELSE "syn")
                      ELSE k # "syn"
  PROVE  LET u == IF Stores(s, f) THEN Append(tk, <<f.conn, f.seq>>) ELSE tk
         IN  u \in Seq(Nat \X Nat) /\ Stream(k, t, p, u, M, d)
<1> DEFINE u == IF Stores(s, f) THEN Append(tk, <<f.conn, f.seq>>) ELSE tk
<1> SUFFICES u \in Seq(Nat \X Nat) /\ Stream(k, t, p, u, M, d)
  OBVIOUS
<1>1. HandleDoes(s, f, t) /\ t.conn = s.conn
  BY DEF Handled
<1>2. \A g \in M : g \in N \/ g.kind = "tcp"
  <2>1. \A c : Segment(t, c, {"ACK"}, 0).kind = "tcp"
    BY DEF Segment
  <2> QED
    BY <2>1 DEF Handled
<1>3. \A g \in M : Theirs(g, t) => GotStream(p, d, g)
  BY <1>1, <1>2 DEF Stream, Theirs
<1>4. GotStream(p, d, f) /\ GotOK(s, p, m, f)
  BY DEF Stream, Talk
<1>5. /\ p.left >= 0 /\ d + p.left <= MaxSegs
      /\ p.open => p.snd = Plus(p.iss, d + 1)
  BY DEF Stream
<1>6. f.conn = s.conn /\ f.conn \in Nat
  BY DEF Theirs, IsFrame
<1>7. CASE l = "syn"
  <2>1. tk = <<>> /\ ~p.up
    BY <1>7 DEF Stream, Talk, SockOK
  <2>2. ~Stores(s, f)
    BY <1>4, <2>1 DEF GotOK, Stores, InOrder
  <2>3. u = <<>> /\ u \in Seq(Nat \X Nat) /\ Len(u) = 0
    BY <2>1, <2>2
  <2> HIDE DEF u
  <2>4. CASE t.state # ESTABLISHED
    <3>1. k = "syn"
      BY <1>7, <2>4
    <3> QED
      BY <1>3, <1>5, <2>3, <3>1 DEF Stream
  <2>5. CASE t.state = ESTABLISHED
    <3>1. s.state # ESTABLISHED
      BY <1>7 DEF Talk, SockOK
    <3>2. Opens(s, f) /\ t.rcv_nxt = Plus(f.seq, 1)
      BY <1>1, <2>5, <3>1 DEF HandleDoes
    <3>3. f.seq = p.iss
      BY <1>4, <3>2 DEF Opens, GotStream
    <3>4. Len(u) <= d /\ 1 + Len(u) = 1 /\ 1..Len(u) = {}
      BY <2>3, SMT
    <3>5. Leading(u, t.conn, p.iss)
      BY <3>4 DEF Leading
    <3>6. t.rcv_nxt = Plus(p.iss, 1 + Len(u))
      BY <3>2, <3>3, <3>4
    <3>7. TookStream(t, p, u, d)
      BY <3>4, <3>5, <3>6 DEF TookStream
    <3>8. k = "open" /\ k # "syn"
      BY <1>7, <2>5
    <3> QED
      BY <1>3, <1>5, <2>3, <3>7, <3>8 DEF Stream
  <2> QED
    BY <2>4, <2>5
<1>8. CASE l # "syn"
  <2>1. TookStream(s, p, tk, d)
    BY <1>8 DEF Stream
  <2>2. p.open /\ s.state # SYN_SENT
    BY <1>8 DEF Talk, SockOK
  <2>3. u \in Seq(Nat \X Nat) /\ TookStream(t, p, u, d)
    <3>1. CASE Stores(s, f)
      <4>1. t.rcv_nxt = Plus(f.seq, f.len)
        BY <1>1, <3>1 DEF HandleDoes
      <4>2. LET v == Append(tk, <<f.conn, f.seq>>)
            IN  v \in Seq(Nat \X Nat) /\ TookStream(t, p, v, d)
        BY <1>1, <1>4, <1>5, <1>6, <2>1, <2>2, <3>1, <4>1, StoresNext
      <4> QED
        BY <3>1, <4>2
    <3>2. CASE ~Stores(s, f)
      <4>1. \/ t.rcv_nxt = s.rcv_nxt
            \/ "FIN" \in f.flags /\ t.rcv_nxt = Plus(f.seq, 1)
        BY <1>1, <2>2, <3>2 DEF HandleDoes
      <4>2. "FIN" \in f.flags => p.left = 0 /\ d < MaxSegs /\ f.seq = p.snd
        BY <1>4 DEF GotStream
      <4>3. u = tk
        BY <3>2
      <4> HIDE DEF u
      <4> QED
        BY <1>1, <2>1, <4>1, <4>2, <4>3 DEF TookStream
    <3> QED
      BY <3>1, <3>2
  <2>4. k # "syn"
    BY <1>8
  <2> HIDE DEF u
  <2> QED
    BY <1>3, <1>5, <2>3, <2>4 DEF Stream
<1> QED
  BY <1>7, <1>8
-----------------------------------------------------------------------------
(* A step of the shell that receives nothing.                              *)
LEMMA StreamQuiet ==
  ASSUME StreamInv, pc \in TcpPc \ {"resolve"}, pc = "syn" <=> pc' = "syn",
         UNCHANGED <<cur, peer, taken>>,
         sockets'[cur].conn = sockets[cur].conn,
         sockets'[cur].rcv_nxt = sockets[cur].rcv_nxt,
         \A g \in net' : g \in net \/ g.kind = "tcp"
  PROVE  StreamInv'
<1> DEFINE s == sockets[cur]
           t == sockets'[cur]
           p == peer[s.conn]
<1>1. PICK d \in 0..MaxSegs : Stream(pc, s, p, taken, net, d)
  BY DEF StreamInv, Streaming
<1>2. t.conn = s.conn /\ t.rcv_nxt = s.rcv_nxt
  OBVIOUS
<1> HIDE DEF s, t, p
<1>3. Stream(pc', t, p, taken, net', d)
  BY <1>1, <1>2, StreamSame, SMT
<1>4. Streaming'
  BY <1>2, <1>3 DEF Streaming, s, t, p
<1> QED
  BY <1>4 DEF StreamInv

LEMMA StreamBegins ==
  ASSUME Inv', pc' = "syn", Opening'
  PROVE  StreamInv'
<1> DEFINE t == sockets'[cur']
<1>1. t.conn \in Conn
  BY DEF Inv, OneSlot, TcpPc
<1>2. peer'[t.conn] = NoPeer
  BY <1>1 DEF Opening
<1>3. NoPeer.left = 0 /\ NoPeer.open = FALSE
  BY DEF NoPeer
<1>4. taken' = <<>> /\ \A f \in net' : ~Theirs(f, t)
  BY DEF Opening
<1>5. MaxSegs \in Nat
  BY TcpAssumption
<1> HIDE DEF t
<1>6. Stream("syn", t, NoPeer, <<>>, net', 0)
  BY <1>3, <1>4, <1>5, SMT DEF Stream
<1>7. Streaming'
  BY <1>2, <1>4, <1>5, <1>6, SMT DEF Streaming, t
<1>8. <<>> \in Seq(Nat \X Nat)
  BY SMT
<1> QED
  BY <1>4, <1>7, <1>8 DEF StreamInv

(* No connection, or one that has not sent its SYN.                        *)
LEMMA StreamSilent ==
  ASSUME TalkInv', pc' \notin TcpPc \/ pc' = "resolve"
  PROVE  StreamInv'
<1>1. taken' = <<>> /\ <<>> \in Seq(Nat \X Nat)
  BY SMT DEF TalkInv, Silent
<1> QED
  BY <1>1 DEF StreamInv, Streaming

LEMMA StreamPolls ==
  ASSUME Inv, TalkInv, StreamInv, MaxCommands <= NPorts, MaxSegs < SeqMod,
         ConnectPoll \/ SendPoll \/ RecvPoll \/ ClosePoll
  PROVE  StreamInv'
<1> DEFINE s == sockets[cur]
           t == sockets'[cur]
           p == peer[sockets[cur].conn]
<1>1. PICK f \in Inbound : TcpPoll(f)
  BY DEF ConnectPoll, SendPoll, RecvPoll, ClosePoll
<1>2. /\ pc \in {"syn", "send", "recv", "fin"}
      /\ pc = "syn" => pc' = IF t.state = ESTABLISHED THEN "open" ELSE "syn"
      /\ pc # "syn" => pc' # "syn"
  BY DEF ConnectPoll, SendPoll, RecvPoll, ClosePoll
<1>3. pc \in TcpPc \ {"resolve"}
  BY <1>2 DEF TcpPc
<1>4. /\ s \in Sock /\ t.conn = s.conn /\ s.conn \in Conn
      /\ UNCHANGED <<cur, peer>>
  BY <1>1, <1>2, PollDoes
<1>5. Talk(pc, s, p, sent, net)
  BY <1>3 DEF TalkInv, Conversation
<1>6. CASE UNCHANGED <<sockets, net, taken>>
  <2>1. pc = "syn" => t.state # ESTABLISHED
    BY <1>5, <1>6 DEF Talk, SockOK
  <2> QED
    BY <1>2, <1>3, <1>4, <1>6, <2>1, StreamQuiet
<1>7. CASE /\ f \in net /\ Theirs(f, s) /\ IsFrame(f)
           /\ Handled(s, f, t, net, net')
           /\ taken' = IF Stores(s, f) THEN Append(taken, <<f.conn, f.seq>>)
                                       ELSE taken
  <2>1. PICK d \in 0..MaxSegs : Stream(pc, s, p, taken, net, d)
    BY <1>3 DEF StreamInv, Streaming
  <2>2. p \in Peer /\ taken \in Seq(Nat \X Nat)
    BY <1>4 DEF Inv, Typed, StreamInv
  <2> HIDE DEF s, t, p
  <2>3. /\ taken' \in Seq(Nat \X Nat)
        /\ Stream(pc', t, p, taken', net', d)
    BY <1>2, <1>4, <1>5, <1>7, <2>1, <2>2, StreamHandles
  <2>4. Streaming'
    BY <1>4, <2>3 DEF Streaming, s, t, p
  <2> QED
    BY <2>3, <2>4 DEF StreamInv
<1> QED
  BY <1>1, <1>2, <1>6, <1>7, PollDoes

LEMMA StreamSends ==
  ASSUME Inv, StreamInv, Send \/ Recv \/ SendRecvTimeout
  PROVE  StreamInv'
<1> DEFINE s == sockets[cur]
           r == [s EXCEPT !.snd_nxt = s.snd_una]
<1>1. s \in Sock /\ cur \in Slot /\ sockets \in [Slot -> Sock]
  BY DEF Inv, Typed, TypeOK
<1>2. /\ pc \in TcpPc \ {"resolve"} /\ pc # "syn" /\ pc' # "syn"
      /\ UNCHANGED <<cur, peer, taken>>
  BY DEF Send, Recv, SendRecvTimeout, TcpPc, tcpVars
<1>3. r \in Sock /\ r.conn = s.conn /\ r.rcv_nxt = s.rcv_nxt
  BY <1>1 DEF Sock
<1>4. \A v : LET u == [r EXCEPT !.snd_nxt = v]
             IN  u.conn = s.conn /\ u.rcv_nxt = s.rcv_nxt
  <2> HIDE DEF r
  <2> QED
    BY <1>3 DEF Sock
<1>5. CASE Send
  <2>1. \A len : Segment(r, cache, {"PSH", "ACK"}, len).kind = "tcp"
    BY DEF Segment
  <2>2. \/ UNCHANGED <<net, sockets>>
        \/ \E len \in MsgLens :
             /\ net' = net \cup {Segment(r, cache, {"PSH", "ACK"}, len)}
             /\ \/ sockets' = [sockets EXCEPT ![cur] =
                                 [r EXCEPT !.snd_nxt = SendTarget(r, len)]]
                \/ sockets' = [sockets EXCEPT ![cur] = r]
    BY <1>5 DEF Send
  <2> HIDE DEF r
  <2>3. \A g \in net' : g \in net \/ g.kind = "tcp"
    BY <2>1, <2>2
  <2>4. /\ sockets'[cur].conn = s.conn
        /\ sockets'[cur].rcv_nxt = s.rcv_nxt
    <3>1. CASE sockets' = sockets
      BY <3>1
    <3>2. ASSUME NEW u, sockets' = [sockets EXCEPT ![cur] = u]
          PROVE  sockets'[cur] = u
      BY <1>1, <3>2
    <3>3. CASE sockets' = [sockets EXCEPT ![cur] = r]
      BY <1>3, <3>2, <3>3
    <3>4. ASSUME NEW v,
                 sockets' = [sockets EXCEPT ![cur] = [r EXCEPT !.snd_nxt = v]]
          PROVE  /\ sockets'[cur].conn = s.conn
                 /\ sockets'[cur].rcv_nxt = s.rcv_nxt
      BY <1>4, <3>2, <3>4
    <3> QED
      BY <2>2, <3>1, <3>3, <3>4
  <2> QED
    BY <1>2, <2>3, <2>4, StreamQuiet
<1>6. CASE Recv
  <2> DEFINE t == [s EXCEPT !.rcv = <<>>]
  <2>1. sockets'[cur] = t /\ net' = net
    BY <1>1, <1>6 DEF Recv, netVars
  <2>2. t.conn = s.conn /\ t.rcv_nxt = s.rcv_nxt
    BY <1>1 DEF Sock
  <2> HIDE DEF t
  <2> QED
    BY <1>2, <2>1, <2>2, StreamQuiet
<1>7. CASE SendRecvTimeout
  <2>1. UNCHANGED <<sockets, net>>
    BY <1>7 DEF SendRecvTimeout, netVars, tcpVars
  <2> QED
    BY <1>2, <2>1, StreamQuiet
<1> QED
  BY <1>5, <1>6, <1>7

LEMMA StreamCloses ==
  ASSUME Inv, StreamInv, TalkInv', Close
  PROVE  StreamInv'
<1> DEFINE s == sockets[cur]
           a == Segment(s, cache, {"FIN", "ACK"}, 0)
           n == Plus(s.snd_nxt, 1)
           t == [s EXCEPT !.snd_nxt = n, !.state = FIN_WAIT_1]
<1>1. s \in Sock /\ cur \in Slot /\ sockets \in [Slot -> Sock]
  BY DEF Inv, Typed, TypeOK
<1>2. CASE s.state = ESTABLISHED
  <2>1. sockets' = [sockets EXCEPT ![cur] = t]
    BY <1>1, <1>2 DEF Close, Sock
  <2>2. /\ net' = net \cup {a} /\ pc = "close" /\ pc' = "fin"
        /\ UNCHANGED <<cur, taken, peer>>
    BY <1>2 DEF Close
  <2> HIDE DEF n
  <2>3. t.conn = s.conn /\ t.rcv_nxt = s.rcv_nxt
    BY <1>1 DEF Sock
  <2>4. sockets'[cur] = t
    BY <1>1, <2>1
  <2>5. a.kind = "tcp"
    BY DEF Segment
  <2> HIDE DEF t, a
  <2>6. pc \in TcpPc \ {"resolve"} /\ pc # "syn" /\ pc' # "syn"
    BY <2>2 DEF TcpPc
  <2> QED
    BY <2>2, <2>3, <2>4, <2>5, <2>6, StreamQuiet
<1>3. CASE s.state # ESTABLISHED
  <2>1. pc' \notin TcpPc
    BY <1>3 DEF Close, Return, TcpPc
  <2> QED
    BY <2>1, StreamSilent
<1> QED
  BY <1>2, <1>3
-----------------------------------------------------------------------------
(* The peer's steps.                                                       *)
LEMMA StreamPeer ==
  ASSUME Inv, TalkInv, StreamInv, NEW c, NEW q, NEW F, PeerActs(c, q, F),
         pc # "resolve",
         \A d \in 0..MaxSegs :
           Stream(pc, sockets[cur], peer[c], taken, net, d) =>
             \E e \in 0..MaxSegs :
               Stream(pc, sockets[cur], q, taken, net \cup F, e)
  PROVE  StreamInv'
<1>1. /\ pc \in TcpPc /\ sockets[cur].conn = c /\ c \in Conn
      /\ peer \in [Conn -> Peer]
  BY PeerPlace
<1>2. /\ UNCHANGED <<pc, sockets, cur, taken>>
      /\ net' = net \cup F /\ peer' = [peer EXCEPT ![c] = q]
  BY DEF PeerActs, shellVars
<1>3. peer'[c] = q
  BY <1>1, <1>2
<1>4. PICK d \in 0..MaxSegs :
        Stream(pc, sockets[cur], peer[c], taken, net, d)
  BY <1>1 DEF StreamInv, Streaming
<1>5. PICK e \in 0..MaxSegs :
        Stream(pc, sockets[cur], q, taken, net \cup F, e)
  BY <1>4
<1>6. Streaming'
  BY <1>1, <1>2, <1>3, <1>5 DEF Streaming
<1> QED
  BY <1>2, <1>6 DEF StreamInv

(* The peer sends a segment g, or none, that carries no data.              *)
LEMMA StreamTells ==
  ASSUME NEW l, NEW s, NEW p, NEW q, NEW tk, NEW N, NEW F, NEW d,
         Stream(l, s, p, tk, N, d), q.open = p.open, q.iss = p.iss,
         q.snd = p.snd, q.left = p.left,
         \A g \in F : GotStream(q, d, g)
  PROVE  Stream(l, s, q, tk, N \cup F, d)
<1>1. \A g : GotStream(p, d, g) => GotStream(q, d, g)
  BY DEF GotStream
<1>2. TookStream(s, p, tk, d) => TookStream(s, q, tk, d)
  BY DEF TookStream
<1> QED
  BY <1>1, <1>2 DEF Stream

(* It sends the next data segment.                                         *)
LEMMA StreamGrows ==
  ASSUME NEW l, NEW s, NEW p \in Peer, NEW q, NEW tk \in Seq(Nat \X Nat),
         NEW N, NEW g, NEW d \in 0..MaxSegs,
         Stream(l, s, p, tk, N, d), p.open, p.left > 0, q.open, q.iss = p.iss,
         q.snd = Plus(p.snd, 1), q.left = p.left - 1, g.seq = p.snd, g.len = 1,
         "SYN" \notin g.flags, "FIN" \notin g.flags
  PROVE  d + 1 \in 0..MaxSegs /\ Stream(l, s, q, tk, N \cup {g}, d + 1)
<1>1. MaxSegs \in Nat /\ d \in Nat /\ p.iss \in Nat /\ p.left \in Int
      /\ Len(tk) \in Nat
  BY TcpAssumption, PeerNat, SMT
<1>2. /\ p.left >= 0 /\ d + p.left <= MaxSegs
      /\ p.snd = Plus(p.iss, d + 1)
  BY DEF Stream
<1>3. /\ d + 1 \in 0..MaxSegs /\ q.left >= 0 /\ (d + 1) + q.left <= MaxSegs
      /\ p.left # 0
  BY <1>1, <1>2, SMT
<1>4. q.snd = Plus(q.iss, (d + 1) + 1)
  <2> DEFINE i == p.iss
  <2>1. d + 1 \in Nat /\ i \in Nat
    BY <1>1, SMT
  <2> HIDE DEF i
  <2>2. Plus(Plus(i, d + 1), 1) = Plus(i, (d + 1) + 1)
    BY <2>1, PlusPlus, SMT
  <2> QED
    BY <1>2, <2>2 DEF i
<1>5. \A f : GotStream(p, d, f) => GotStream(q, d + 1, f)
  <2>1. 1..d \subseteq 1..d + 1
    BY <1>1, SMT
  <2> QED
    BY <1>3, <2>1 DEF GotStream
<1>6. GotStream(q, d + 1, g)
  <2>1. d + 1 \in 1..d + 1 /\ g.seq = Plus(q.iss, d + 1)
    BY <1>1, <1>2, SMT
  <2> QED
    BY <2>1 DEF GotStream
<1>7. TookStream(s, p, tk, d) => TookStream(s, q, tk, d + 1)
  <2>1. Len(tk) <= d => Len(tk) <= d + 1
    BY <1>1, SMT
  <2> QED
    BY <1>3, <2>1 DEF TookStream
<1>8. \A f \in N \cup {g} : Theirs(f, s) => GotStream(q, d + 1, f)
  BY <1>5, <1>6 DEF Stream
<1> QED
  BY <1>3, <1>4, <1>7, <1>8 DEF Stream

(* It ends the stream, with a FIN or a reset.                              *)
LEMMA StreamEnds ==
  ASSUME NEW l, NEW s, NEW p \in Peer, NEW q, NEW tk, NEW N, NEW g,
         NEW d \in 0..MaxSegs, Stream(l, s, p, tk, N, d), p.left > 0,
         q.open = p.open, q.iss = p.iss, q.snd = p.snd, q.left = 0,
         g.seq = p.snd, "SYN" \notin g.flags,
         "FIN" \in g.flags \/ g.len = 0
  PROVE  Stream(l, s, q, tk, N \cup {g}, d)
<1>1. MaxSegs \in Nat /\ d \in Nat /\ p.left \in Int
  BY TcpAssumption, PeerNat, SMT
<1>2. /\ d + p.left <= MaxSegs /\ (p.open => p.snd = Plus(p.iss, d + 1))
  BY DEF Stream
<1>3. d < MaxSegs /\ q.left >= 0 /\ d + q.left <= MaxSegs
  BY <1>1, <1>2, SMT
<1>4. \A f : GotStream(p, d, f) => GotStream(q, d, f)
  BY DEF GotStream
<1>5. GotStream(q, d, g)
  BY <1>3, SMT DEF GotStream
<1>6. TookStream(s, p, tk, d) => TookStream(s, q, tk, d)
  BY <1>3 DEF TookStream
<1>7. \A f \in N \cup {g} : Theirs(f, s) => GotStream(q, d, f)
  BY <1>4, <1>5 DEF Stream
<1> QED
  BY <1>2, <1>3, <1>6, <1>7 DEF Stream

LEMMA AcceptsStream ==
  ASSUME Inv, TalkInv, StreamInv, PeerAccepts
  PROVE  StreamInv'
<1>1. PICK f \in FromUs, i \in PeerIsn :
        LET p == [open |-> TRUE, up |-> FALSE, port |-> f.port, iss |-> i,
                  snd |-> i, rcv |-> Plus(f.seq, 1), left |-> MaxSegs]
        IN  /\ "SYN" \in f.flags
            /\ ~peer[f.conn].open
            /\ PeerActs(f.conn, [p EXCEPT !.snd = Plus(i, 1)],
                        {Reply(f.conn, {"SYN", "ACK"}, p, 0)})
  BY DEF PeerAccepts
<1> DEFINE n == Plus(f.seq, 1)
           o == Plus(i, 1)
           p == [open |-> TRUE, up |-> FALSE, port |-> f.port, iss |-> i,
                 snd |-> i, rcv |-> n, left |-> MaxSegs]
           q == [p EXCEPT !.snd = o]
           a == Reply(f.conn, {"SYN", "ACK"}, p, 0)
           s == sockets[cur]
<1>2. "SYN" \in f.flags /\ ~peer[f.conn].open /\ PeerActs(f.conn, q, {a})
  BY <1>1
<1>3. /\ pc \in TcpPc /\ pc # "resolve" /\ s \in Sock /\ s.conn = f.conn
  BY <1>2, PeerPlace
<1>4. Talk(pc, s, peer[s.conn], sent, net)
  BY <1>3 DEF TalkInv, Conversation
<1>5. pc = "syn" /\ ~peer[f.conn].up
  BY <1>2, <1>3, <1>4 DEF Talk, SockOK, PeerOK
<1> HIDE DEF n, o
<1>6. /\ q.open = TRUE /\ q.iss = i /\ q.snd = o /\ q.left = MaxSegs
      /\ p.snd = i
  OBVIOUS
<1> HIDE DEF p, q
<1>7. /\ a.seq = i /\ a.len = 0 /\ "FIN" \notin a.flags
  <2>1. a.flags = {"SYN", "ACK"} /\ a.seq = p.snd /\ a.len = 0
    BY ReplyIs, SMT
  <2> QED
    BY <1>6, <2>1, Flags
<1> HIDE DEF a, s
<1>8. GotStream(q, 0, a)
  BY <1>6, <1>7, SMT DEF GotStream
<1>9. MaxSegs \in Nat /\ 0 \in 0..MaxSegs /\ 0 + MaxSegs <= MaxSegs
  BY TcpAssumption, SMT
<1>10. ASSUME NEW d \in 0..MaxSegs, Stream(pc, s, peer[f.conn], taken, net, d)
       PROVE  Stream(pc, s, q, taken, net \cup {a}, 0)
  <2>1. \A g \in net : Theirs(g, s) =>
          "SYN" \notin g.flags /\ "FIN" \notin g.flags /\ ~(g.len > 0)
    BY <1>2, <1>3, <1>4, <1>5 DEF Talk, GotOK
  <2>2. \A g \in net \cup {a} : Theirs(g, s) => GotStream(q, 0, g)
    BY <1>8, <2>1 DEF GotStream
  <2>3. taken = <<>>
    BY <1>5, <1>10 DEF Stream
  <2>4. q.snd = Plus(q.iss, 0 + 1)
    BY <1>6, SMT DEF o
  <2> QED
    BY <1>5, <1>6, <1>9, <2>2, <2>3, <2>4, SMT DEF Stream
<1> QED
  BY <1>2, <1>3, <1>9, <1>10, StreamPeer DEF s

LEMMA RefusesStream ==
  ASSUME Inv, TalkInv, StreamInv, PeerRefuses
  PROVE  StreamInv'
<1>1. PICK f \in FromUs :
        \E p : PeerActs(f.conn, peer[f.conn],
                       {Reply(f.conn, {"RST", "ACK"}, p, 0)})
  BY DEF PeerRefuses
<1>p. PICK p : PeerActs(f.conn, peer[f.conn],
                        {Reply(f.conn, {"RST", "ACK"}, p, 0)})
  BY <1>1
<1> DEFINE q == peer[f.conn]
           a == Reply(f.conn, {"RST", "ACK"}, p, 0)
           s == sockets[cur]
<1>2. PeerActs(f.conn, q, {a})
  BY <1>p
<1>3. pc # "resolve"
  BY <1>2, PeerPlace
<1>4. a.len = 0 /\ "FIN" \notin a.flags /\ "SYN" \notin a.flags
  <2>1. a.flags = {"RST", "ACK"} /\ a.len = 0
    BY ReplyIs, SMT
  <2> QED
    BY <2>1, Flags
<1> HIDE DEF a, s
<1>5. \A d : GotStream(q, d, a)
  BY <1>4, SMT DEF GotStream
<1>6. \A d : Stream(pc, s, q, taken, net, d) =>
               Stream(pc, s, q, taken, net \cup {a}, d)
  BY <1>5, StreamTells
<1> QED
  BY <1>2, <1>3, <1>6, StreamPeer DEF s

LEMMA GetsStream ==
  ASSUME Inv, TalkInv, StreamInv, PeerGets
  PROVE  StreamInv'
<1>1. PICK f \in FromUs :
        LET p == peer[f.conn]
            q == [p EXCEPT !.up = TRUE,
                           !.rcv = IF f.seq = @ THEN Plus(@, f.len) ELSE @]
        IN  PeerActs(f.conn, q, IF f.len > 0 THEN {Reply(f.conn, {"ACK"}, q, 0)}
                                             ELSE {})
  BY DEF PeerGets
<1> DEFINE p == peer[f.conn]
           n == IF f.seq = p.rcv THEN Plus(p.rcv, f.len) ELSE p.rcv
           q == [p EXCEPT !.up = TRUE, !.rcv = n]
           a == Reply(f.conn, {"ACK"}, q, 0)
           F == IF f.len > 0 THEN {a} ELSE {}
           s == sockets[cur]
<1>2. PeerActs(f.conn, q, F)
  BY <1>1
<1> HIDE DEF F
<1>3. pc # "resolve" /\ p \in Peer
  BY <1>2, PeerPlace
<1> HIDE DEF n
<1>4. /\ q.open = p.open /\ q.iss = p.iss /\ q.snd = p.snd /\ q.left = p.left
  BY <1>3 DEF Peer
<1> HIDE DEF q
<1>5. a.len = 0 /\ "FIN" \notin a.flags /\ "SYN" \notin a.flags
  <2>1. a.flags = {"ACK"} /\ a.len = 0
    BY ReplyIs, SMT
  <2> QED
    BY <2>1, Flags
<1> HIDE DEF a, s
<1>6. \A d : \A g \in F : GotStream(q, d, g)
  BY <1>5, SMT DEF GotStream, F
<1>7. \A d : Stream(pc, s, p, taken, net, d) =>
               Stream(pc, s, q, taken, net \cup F, d)
  BY <1>4, <1>6, StreamTells
<1> QED
  BY <1>2, <1>3, <1>7, StreamPeer DEF s

LEMMA SendsStream ==
  ASSUME Inv, TalkInv, StreamInv, PeerSends
  PROVE  StreamInv'
<1>1. PICK c \in Conn :
        /\ peer[c].up /\ peer[c].left > 0
        /\ PeerActs(c, [peer[c] EXCEPT !.snd = Plus(@, 1), !.left = @ - 1],
                    {Reply(c, {"PSH", "ACK"}, peer[c], 1)})
  BY DEF PeerSends
<1> DEFINE p == peer[c]
           n == Plus(p.snd, 1)
           k == p.left - 1
           q == [p EXCEPT !.snd = n, !.left = k]
           a == Reply(c, {"PSH", "ACK"}, p, 1)
           s == sockets[cur]
<1>2. p \in Peer /\ pc \in TcpPc /\ pc # "resolve" /\ s.conn = c
  BY <1>1, PeerPlace
<1>3. p.up /\ p.left > 0 /\ PeerActs(c, q, {a})
  BY <1>1, <1>2 DEF Peer
<1>4. p.open
  <2>1. Talk(pc, s, p, sent, net)
    BY <1>2 DEF TalkInv, Conversation
  <2> QED
    BY <1>3, <2>1 DEF Talk, PeerOK
<1> HIDE DEF n, k
<1>5. q.open = p.open /\ q.iss = p.iss /\ q.snd = n /\ q.left = k
  BY <1>2 DEF Peer
<1> HIDE DEF q
<1>6. a.seq = p.snd /\ a.len = 1 /\ "FIN" \notin a.flags /\ "SYN" \notin a.flags
  <2>1. a.flags = {"PSH", "ACK"} /\ a.len = 1 /\ a.seq = p.snd
    BY ReplyIs, SMT
  <2> QED
    BY <2>1, Flags
<1>7. taken \in Seq(Nat \X Nat)
  BY DEF StreamInv
<1> HIDE DEF a, s, p
<1>8. \A d \in 0..MaxSegs :
        Stream(pc, s, p, taken, net, d) =>
          d + 1 \in 0..MaxSegs /\ Stream(pc, s, q, taken, net \cup {a}, d + 1)
  BY <1>2, <1>3, <1>4, <1>5, <1>6, <1>7, StreamGrows DEF n, k
<1>9. \A d \in 0..MaxSegs :
        Stream(pc, s, p, taken, net, d) =>
          \E e \in 0..MaxSegs : Stream(pc, s, q, taken, net \cup {a}, e)
  BY <1>8
<1> QED
  BY <1>2, <1>3, <1>9, StreamPeer DEF s, p

LEMMA EndsStream ==
  ASSUME Inv, TalkInv, StreamInv, PeerEnds
  PROVE  StreamInv'
<1>1. PICK c \in Conn :
        /\ peer[c].up /\ peer[c].left > 0
        /\ \E f \in {Reply(c, {"FIN", "ACK"}, peer[c], 0),
                     Reply(c, {"FIN", "ACK"}, peer[c], 1),
                     Reply(c, {"RST", "ACK"}, peer[c], 0)} :
             PeerActs(c, [peer[c] EXCEPT !.left = 0], {f})
  BY DEF PeerEnds
<1> DEFINE p == peer[c]
           q == [p EXCEPT !.left = 0]
           s == sockets[cur]
<1>2. PICK a \in {Reply(c, {"FIN", "ACK"}, p, 0),
                  Reply(c, {"FIN", "ACK"}, p, 1),
                  Reply(c, {"RST", "ACK"}, p, 0)} : PeerActs(c, q, {a})
  BY <1>1
<1>3. p \in Peer /\ pc # "resolve"
  BY <1>1, <1>2, PeerPlace
<1>4. q.open = p.open /\ q.iss = p.iss /\ q.snd = p.snd /\ q.left = 0
  BY <1>3 DEF Peer
<1> HIDE DEF q
<1>5. /\ a.seq = p.snd /\ "SYN" \notin a.flags
      /\ "FIN" \in a.flags \/ a.len = 0
  <2>1. \A x, len : LET r == Reply(c, x, p, len)
                    IN  r.flags = x /\ r.len = len /\ r.seq = p.snd
    BY ReplyIs, SMT
  <2> HIDE DEF p
  <2> QED
    BY <1>2, <2>1, Flags, SMT
<1>6. p.left > 0
  BY <1>1
<1> HIDE DEF s, p
<1>7. \A d \in 0..MaxSegs :
        Stream(pc, s, p, taken, net, d) =>
          Stream(pc, s, q, taken, net \cup {a}, d)
  BY <1>3, <1>4, <1>5, <1>6, StreamEnds
<1> QED
  BY <1>2, <1>3, <1>7, StreamPeer DEF s, p
-----------------------------------------------------------------------------
LEMMA StreamInit ==
  ASSUME Init
  PROVE  StreamInv
<1>1. taken = <<>> /\ pc = "idle" /\ <<>> \in Seq(Nat \X Nat)
  BY SMT DEF Init, NetInit
<1> QED
  BY <1>1 DEF StreamInv, Streaming, TcpPc

LEMMA StreamConnects ==
  ASSUME Inv, TalkInv, MaxCommands <= NPorts, Inv', TalkInv',
         (\E ip \in Server, i \in Isn : Connect(ip, i)) \/ ConnectArpPoll
  PROVE  StreamInv'
<1>1. pc' = "syn" => Opening'
  BY ConnectTalks, ArpPollTalks
<1>2. pc' = "syn" \/ pc' = "resolve" \/ pc' = "idle"
  <2>1. ASSUME NEW s, NEW slot, NEW c, SendSyn(s, slot, c, net)
        PROVE  pc' = "syn" \/ pc' = "idle"
    BY <2>1 DEF SendSyn, Return
  <2>2. ASSUME NEW ip \in Server, NEW i \in Isn, Connect(ip, i)
        PROVE  pc' = "syn" \/ pc' = "resolve" \/ pc' = "idle"
    BY <2>1, <2>2 DEF Connect, Return
  <2>3. ASSUME ConnectArpPoll
        PROVE  pc' = "syn" \/ pc' = "resolve" \/ pc' = "idle"
    BY <2>1, <2>3 DEF ConnectArpPoll
  <2> QED
    BY <2>2, <2>3
<1> QED
  BY <1>1, <1>2, StreamBegins, StreamSilent DEF TcpPc

LEMMA StreamNext ==
  ASSUME Inv, TalkInv, StreamInv, MaxCommands <= NPorts, MaxSegs < SeqMod,
         [Next]_vars
  PROVE  StreamInv'
<1>1. Inv' /\ TalkInv'
  BY NextKeeps, TalkNext
<1>2. CASE UNCHANGED vars
  <2>1. UNCHANGED <<net, pc, sockets, cur, peer, taken>>
    BY <1>2 DEF vars, netVars, shellVars, tcpVars
  <2> QED
    BY <2>1 DEF StreamInv, Streaming
<1>3. CASE NetNext /\ UNCHANGED tcpVars
  <2>1. pc' \notin TcpPc
    BY <1>3, PingSends DEF TcpPc, PingPc
  <2> QED
    BY <1>1, <2>1, StreamSilent
<1>4. CASE (\E ip \in Server, i \in Isn : Connect(ip, i)) \/ ConnectArpPoll
  BY <1>1, <1>4, StreamConnects
<1>5. CASE ConnectTimeout \/ CloseEnds
  <2>1. pc' \notin TcpPc
    BY <1>5 DEF ConnectTimeout, CloseEnds, Return, TcpPc
  <2> QED
    BY <1>1, <2>1, StreamSilent
<1>6. CASE ConnectPoll \/ SendPoll \/ RecvPoll \/ ClosePoll
  BY <1>6, StreamPolls
<1>7. CASE Send \/ Recv \/ SendRecvTimeout
  BY <1>7, StreamSends
<1>8. CASE Close
  BY <1>1, <1>8, StreamCloses
<1>9. CASE PeerStep
  BY <1>9, AcceptsStream, RefusesStream, GetsStream, SendsStream, EndsStream
     DEF PeerStep
<1> QED
  BY <1>2, <1>3, <1>4, <1>5, <1>6, <1>7, <1>8, <1>9 DEF Next, TcpStep

(* tcp_handle_packet stores the peer's segments in order and each once,    *)
(* whatever the network repeats, reorders or still holds of earlier        *)
(* connections, as long as the ports that tcp_connect hands out and the    *)
(* sequence numbers of one connection do not come around again.            *)
THEOREM StoredInOrder ==
  ASSUME MaxCommands <= NPorts, MaxSegs < SeqMod
  PROVE  Spec => []InOrderOnce
<1>1. Init => StreamInv
  BY StreamInit
<1>2. Inv /\ TalkInv /\ StreamInv /\ [Next]_vars => StreamInv'
  BY StreamNext
<1>3. StreamInv => InOrderOnce
  <2> SUFFICES ASSUME StreamInv,
                      pc \in {"open", "send", "recv", "close", "fin", "ends"}
               PROVE  Leading(taken, sockets[cur].conn,
                              peer[sockets[cur].conn].iss)
    BY DEF InOrderOnce, Leading
  <2>1. pc \in TcpPc \ {"resolve"} /\ pc # "syn"
    BY DEF TcpPc
  <2> QED
    BY <2>1 DEF StreamInv, Streaming, Stream, TookStream
<1> QED
  BY <1>1, <1>2, <1>3, Safety, TalkHolds, PTL DEF Spec
=============================================================================
