-------------------------------- MODULE Tcp --------------------------------
(***************************************************************************)
(* The TCP client (kernel/net/tcp.c) and the shell's tcp command, which    *)
(* connects, sends at most one message, waits for one answer and closes.   *)
(* It runs in the same shell as ping and shares the ARP cache with it.     *)
(* The peer is external: a server that acknowledges what it receives in    *)
(* order and sends a stream of data segments that a FIN or a reset ends.   *)
(***************************************************************************)
EXTENDS Net, Sequences

CONSTANTS TCP_MAX_SOCKS, SeqMod,
          Server,    \* the hosts that tcp is used with
          Isn,       \* get_ticks() << 4 when a connection is made
          PeerIsn,
          MsgLens,   \* lengths of the shell's message
          MaxSegs    \* bound: data segments a peer sends

ASSUME TcpAssumption ==
  /\ TCP_MAX_SOCKS \in Nat \ {0} /\ SeqMod \in Nat \ {0}
  /\ Server \subseteq Host
  /\ Isn \subseteq 0..SeqMod - 1 /\ PeerIsn \subseteq 0..SeqMod - 1
  /\ MsgLens \subseteq Nat \ {0} /\ MaxSegs \in Nat

VARIABLES sockets, next_ephemeral,
          cur,     \* the slot the tcp command uses
          taken,   \* the data segments that socket has stored, in order
          sent,    \* the message: its length, and what tcp_send returned
          peer     \* the server's end of each connection

tcpVars == <<sockets, next_ephemeral, cur, taken, sent, peer>>
vars == <<netVars, shellVars, tcpVars>>

Slot == 0..TCP_MAX_SOCKS - 1
Conn == 0..MaxCommands - 1

CLOSED == 0
SYN_SENT == 1
ESTABLISHED == 2
FIN_WAIT_1 == 3
FIN_WAIT_2 == 4
TIME_WAIT == 5
CLOSE_WAIT == 6

(* conn is the number of the connection and no part of the code's state.   *)
Unused == [used |-> FALSE, state |-> CLOSED, dst |-> Gateway, port |-> 0,
           conn |-> 0, snd_nxt |-> 0, snd_una |-> 0, rcv_nxt |-> 0,
           isn |-> 0, rcv |-> <<>>]

NoPeer == [open |-> FALSE, up |-> FALSE, port |-> 0, iss |-> 0, snd |-> 0,
           rcv |-> 0, left |-> 0]

Plus(a, b) == (a + b) % SeqMod

(* send_tcp_segment, with the entry c of the ARP cache.                    *)
Segment(s, c, flags, len) ==
  [kind |-> "tcp", ip |-> s.dst, mac |-> c.mac, port |-> s.port,
   conn |-> s.conn, flags |-> flags, seq |-> s.snd_nxt, ack |-> s.rcv_nxt,
   len |-> len]

Reply(c, flags, p, len) ==
  [kind |-> "segment", port |-> p.port, conn |-> c, flags |-> flags,
   seq |-> p.snd, ack |-> p.rcv, len |-> len]
-----------------------------------------------------------------------------
(* tcp_handle_packet for the socket s that find_sock_by_port found.        *)
Acked(s, f) == IF "ACK" \in f.flags THEN [s EXCEPT !.snd_una = f.ack] ELSE s

Opens(s, f) == {"SYN", "ACK"} \subseteq f.flags /\ f.ack = s.snd_nxt

InOrder_NotOlder(s, f) == f.len > 0 /\ f.seq >= s.rcv_nxt
InOrder(s, f) == f.len > 0 /\ f.seq = s.rcv_nxt

(* The packet makes the socket acknowledge: it opened, ended or extended   *)
(* the stream.                                                             *)
Answers(s, f) ==
  /\ "RST" \notin f.flags
  /\ IF s.state = SYN_SENT THEN Opens(s, f)
                           ELSE "FIN" \in f.flags \/ InOrder(s, f)

Stores(s, f) ==
  /\ s.state # SYN_SENT
  /\ {"RST", "FIN"} \cap f.flags = {}
  /\ InOrder(s, f)

(* The one receive buffer: unread data are overwritten.                    *)
Buffered(s, f) == <<<<f.conn, f.seq>>>>

Handle(s, f) ==
  CASE "RST" \in f.flags -> [s EXCEPT !.state = CLOSED]
    [] Answers(s, f) /\ s.state = SYN_SENT ->
         [s EXCEPT !.rcv_nxt = Plus(f.seq, 1), !.snd_una = f.ack,
                   !.state = ESTABLISHED]
    [] Answers(s, f) /\ s.state # SYN_SENT /\ "FIN" \in f.flags ->
         [Acked(s, f) EXCEPT
            !.rcv_nxt = Plus(f.seq, 1),
            !.state = IF @ = FIN_WAIT_2 THEN TIME_WAIT ELSE CLOSE_WAIT]
    [] Stores(s, f) ->
         [Acked(s, f) EXCEPT !.rcv = Buffered(s, f),
                             !.rcv_nxt = Plus(f.seq, f.len)]
    [] OTHER -> IF s.state = SYN_SENT THEN s ELSE Acked(s, f)

Matches(s, f) == s.used /\ f.kind = "segment" /\ s.port = f.port
-----------------------------------------------------------------------------
CacheInPoll_Parses(f) == CacheAfter(f)

(* The loops of tcp.c give every frame to tcp_handle_packet, which drops   *)
(* what is not IP: the ARP cache stays as it is.                           *)
CacheInPoll(f) == cache

(* One turn of such a loop with a frame: handle it for the only socket in  *)
(* use.                                                                    *)
TcpPoll(f) ==
  LET s == sockets[cur]
      t == IF Matches(s, f) THEN Handle(s, f) ELSE s
  IN  /\ sockets' = [sockets EXCEPT ![cur] = t]
      /\ net' = IF Matches(s, f) /\ Answers(s, f)
                THEN net \cup {Segment(t, cache, {"ACK"}, 0)} ELSE net
      /\ taken' = IF Matches(s, f) /\ Stores(s, f)
                  THEN Append(taken, <<f.conn, f.seq>>) ELSE taken
      /\ cache' = CacheInPoll(f)
      /\ UNCHANGED <<pong, heard, dst, commands, next_ephemeral, cur, peer>>

Unsent == [len |-> 0, ok |-> FALSE]

Forget ==
  /\ taken' = <<>>
  /\ sent' = Unsent
  /\ peer' = [c \in Conn |-> NoPeer]
  /\ \E late \in {{}} \cup {{f} : f \in {g \in net : g.kind = "segment"}} :
       net' = late \cup {f \in net : f.kind \notin {"tcp", "segment"}}

Release_Kept == UNCHANGED sockets /\ Forget

(* The slot is free again; its contents are not read before connect clears *)
(* them.  The histories and the peer's state are not needed any more.      *)
(* Bound: of the peer's segments at most one is still under way.           *)
Release == sockets' = [sockets EXCEPT ![cur] = Unused] /\ Forget

(* The SYN of tcp_connect, once the address is resolved; snd_nxt moves     *)
(* only when the card took it.                                             *)
SendSyn(s, slot, c, frames) ==
  \/ /\ net' = frames \cup {Segment(s, c, {"SYN"}, 0)}
     /\ sockets' = [sockets EXCEPT ![slot] =
                      [s EXCEPT !.snd_nxt = Plus(@, 1)]]
     /\ pc' = "syn"
     /\ UNCHANGED answered
  \/ /\ net' = frames \cup {Segment(s, c, {"SYN"}, 0)}
     /\ sockets' = [sockets EXCEPT ![slot] = [s EXCEPT !.used = FALSE]]
     /\ Return(FALSE)

NextPort_Same(p) == p
NextPort(p) == (p + 1) % 65536

(* tcp_connect: take a free slot and a port; without a free slot it fails. *)
Connect(ip, isn) ==
  LET free == {i \in Slot : ~sockets[i].used}
      slot == CHOOSE i \in free : \A j \in free : i <= j
      s == [used |-> TRUE, state |-> SYN_SENT, dst |-> ip,
            port |-> next_ephemeral, conn |-> commands, snd_nxt |-> isn,
            snd_una |-> isn, rcv_nxt |-> 0, isn |-> isn, rcv |-> <<>>]
  IN  /\ Begin(ip)
      /\ IF free = {}
         THEN /\ Return(FALSE)
              /\ UNCHANGED <<net, sockets, next_ephemeral, cur>>
         ELSE /\ cur' = slot
              /\ next_ephemeral' = NextPort(next_ephemeral)
              /\ IF Resolved(cache, ip)
                 THEN SendSyn(s, slot, cache, net)
                 ELSE /\ net' = net \cup {ArpRequest(ip)}
                      /\ sockets' = [sockets EXCEPT ![slot] = s]
                      /\ pc' = "resolve"
                      /\ UNCHANGED answered
      /\ UNCHANGED <<cache, pong, heard, taken, sent, peer>>

ConnectArpPoll ==
  /\ pc = "resolve"
  /\ \E f \in Inbound :
       LET s == sockets[cur]
           t == IF Matches(s, f) THEN Handle(s, f) ELSE s
       IN  /\ cache' = CacheAfter(f)
           /\ pong' = PongAfter(f)
           /\ IF Resolved(cache', dst)
              THEN SendSyn(t, cur, cache', net)
              ELSE /\ sockets' = [sockets EXCEPT ![cur] = t]
                   /\ UNCHANGED <<net, pc, answered>>
  /\ UNCHANGED <<heard, dst, commands, next_ephemeral, cur, taken, sent, peer>>

(* tcp_poll_until, for ESTABLISHED.                                        *)
ConnectPoll ==
  /\ pc = "syn"
  /\ \E f \in Inbound : TcpPoll(f)
  /\ pc' = IF sockets'[cur].state = ESTABLISHED THEN "open" ELSE pc
  /\ UNCHANGED <<answered, sent>>

ConnectTimeout ==
  /\ pc \in {"resolve", "syn"}
  /\ Return(FALSE)
  /\ Release
  /\ UNCHANGED <<cache, pong, heard, dst, commands, next_ephemeral, cur>>

SendTarget_Unmoved(s, len) == s.snd_una
SendTarget(s, len) == Plus(s.snd_una, len)

(* tcp_send, or no message.  When the card refuses the segment the send    *)
(* fails, though the frame may leave later; the command goes on.           *)
Send ==
  /\ pc = "open"
  /\ \/ pc' = "recv" /\ UNCHANGED <<net, sockets, sent>>
     \/ \E len \in MsgLens :
          LET s == [sockets[cur] EXCEPT !.snd_nxt = sockets[cur].snd_una]
          IN  /\ net' = net \cup {Segment(s, cache, {"PSH", "ACK"}, len)}
              /\ sent' = [len |-> len, ok |-> FALSE]
              /\ \/ /\ pc' = "send"
                    /\ sockets' = [sockets EXCEPT ![cur] =
                         [s EXCEPT !.snd_nxt = SendTarget(s, len)]]
                 \/ /\ pc' = "recv"
                    /\ sockets' = [sockets EXCEPT ![cur] = s]
  /\ UNCHANGED <<cache, pong, heard, dst, answered, commands, next_ephemeral,
                 cur, taken, peer>>

SendPoll ==
  /\ pc = "send"
  /\ \E f \in Inbound : TcpPoll(f)
  /\ IF sockets'[cur].snd_una >= sockets'[cur].snd_nxt
     THEN pc' = "recv" /\ sent' = [sent EXCEPT !.ok = TRUE]
     ELSE UNCHANGED <<pc, sent>>
  /\ UNCHANGED answered

(* tcp_recv looks for data before each poll; data that a poll stored when  *)
(* the time was up stays in the buffer.                                    *)
Recv ==
  /\ pc = "recv"
  /\ sockets[cur].rcv # <<>>
  /\ pc' = "close"
  /\ sockets' = [sockets EXCEPT ![cur].rcv = <<>>]
  /\ UNCHANGED <<netVars, dst, answered, commands, next_ephemeral, cur, taken,
                 sent, peer>>

RecvPoll ==
  /\ pc = "recv"
  /\ sockets[cur].rcv = <<>>
  /\ \E f \in Inbound : TcpPoll(f)
  /\ pc' = IF sockets'[cur].state >= CLOSE_WAIT THEN "close" ELSE pc
  /\ UNCHANGED <<answered, sent>>

SendRecvTimeout ==
  /\ \/ pc = "send" /\ pc' = "recv"
     \/ pc = "recv" /\ pc' = "close"
  /\ UNCHANGED <<netVars, dst, answered, commands, tcpVars>>

(* tcp_close.                                                              *)
Close ==
  /\ pc = "close"
  /\ IF sockets[cur].state = ESTABLISHED
     THEN /\ net' = net \cup {Segment(sockets[cur], cache,
                                      {"FIN", "ACK"}, 0)}
          /\ sockets' = [sockets EXCEPT ![cur].snd_nxt = Plus(@, 1),
                                        ![cur].state = FIN_WAIT_1]
          /\ pc' = "fin"
          /\ UNCHANGED <<answered, taken, sent, peer>>
     ELSE Return(FALSE) /\ Release
  /\ UNCHANGED <<cache, pong, heard, dst, commands, next_ephemeral, cur>>

ClosePoll ==
  /\ pc = "fin"
  /\ \E f \in Inbound : TcpPoll(f)
  /\ pc' = IF sockets'[cur].state >= TIME_WAIT THEN "ends" ELSE pc
  /\ UNCHANGED <<answered, sent>>

(* The other end has closed, or the time is up.                            *)
CloseEnds ==
  /\ pc \in {"fin", "ends"}
  /\ Return(FALSE)
  /\ Release
  /\ UNCHANGED <<cache, pong, heard, dst, commands, next_ephemeral, cur>>
-----------------------------------------------------------------------------
(* The peer.  It knows a connection from its SYN on and sends once our ACK *)
(* of its own SYN arrived; it counts and acknowledges data in order (its   *)
(* ACK of our FIN would change nothing that tcp_close reads).  It acts     *)
(* while the command runs: acting later is the same as its segments being  *)
(* delayed.                                                                *)
FromUs == {f \in net : f.kind = "tcp"}

PeerActs(c, p, frames) ==
  /\ sockets[cur].used /\ sockets[cur].conn = c
  /\ peer' = [peer EXCEPT ![c] = p]
  /\ net' = net \cup frames
  /\ UNCHANGED <<cache, pong, heard, shellVars, sockets, next_ephemeral, cur,
                 taken, sent>>

PeerAccepts ==
  \E f \in FromUs, i \in PeerIsn :
    LET p == [open |-> TRUE, up |-> FALSE, port |-> f.port, iss |-> i,
              snd |-> i, rcv |-> Plus(f.seq, 1), left |-> MaxSegs]
    IN  /\ "SYN" \in f.flags
        /\ ~peer[f.conn].open
        /\ PeerActs(f.conn, [p EXCEPT !.snd = Plus(i, 1)],
                    {Reply(f.conn, {"SYN", "ACK"}, p, 0)})

PeerRefuses ==
  \E f \in FromUs :
    /\ "SYN" \in f.flags
    /\ ~peer[f.conn].open
    /\ PeerActs(f.conn, peer[f.conn],
                {Reply(f.conn, {"RST", "ACK"},
                       [NoPeer EXCEPT !.port = f.port,
                                      !.rcv = Plus(f.seq, 1)], 0)})

PeerGets ==
  \E f \in FromUs :
    LET p == peer[f.conn]
        q == [p EXCEPT !.up = TRUE,
                       !.rcv = IF f.seq = @ THEN Plus(@, f.len) ELSE @]
    IN  /\ p.open /\ "SYN" \notin f.flags
        /\ PeerActs(f.conn, q, IF f.len > 0 THEN {Reply(f.conn, {"ACK"}, q, 0)}
                                            ELSE {})

PeerSends ==
  \E c \in Conn :
    /\ peer[c].up /\ peer[c].left > 0
    /\ PeerActs(c, [peer[c] EXCEPT !.snd = Plus(@, 1), !.left = @ - 1],
                {Reply(c, {"PSH", "ACK"}, peer[c], 1)})

(* The last segment: a FIN, with or without data, or a reset.              *)
PeerEnds ==
  \E c \in Conn :
    /\ peer[c].up /\ peer[c].left > 0
    /\ \E f \in {Reply(c, {"FIN", "ACK"}, peer[c], 0),
                 Reply(c, {"FIN", "ACK"}, peer[c], 1),
                 Reply(c, {"RST", "ACK"}, peer[c], 0)} :
         PeerActs(c, [peer[c] EXCEPT !.left = 0], {f})

TcpStep ==
  \/ \E ip \in Server, i \in Isn : Connect(ip, i)
  \/ ConnectArpPoll \/ ConnectPoll \/ ConnectTimeout
  \/ Send \/ SendPoll \/ Recv \/ RecvPoll \/ SendRecvTimeout
  \/ Close \/ ClosePoll \/ CloseEnds

PeerStep == PeerAccepts \/ PeerRefuses \/ PeerGets \/ PeerSends \/ PeerEnds

Init ==
  /\ NetInit
  /\ sockets = [i \in Slot |-> Unused]
  /\ next_ephemeral = 40000
  /\ cur = 0
  /\ taken = <<>>
  /\ sent = Unsent
  /\ peer = [c \in Conn |-> NoPeer]

Next == (NetNext /\ UNCHANGED tcpVars) \/ TcpStep \/ PeerStep

(* Ticks pass, so every wait ends.                                         *)
Timeout ==
  \/ (PingArpTimeout \/ PingTimeout) /\ UNCHANGED tcpVars
  \/ ConnectTimeout \/ SendRecvTimeout \/ CloseEnds

Spec ==
  Init /\ [][Next]_vars /\ WF_vars(Timeout) /\ WF_vars(Send) /\ WF_vars(Close)
-----------------------------------------------------------------------------
(* The shell's place, the ARP entry and the sockets have their types;      *)
(* sequence numbers keep their width, and tcp_handle_packet keeps one      *)
(* segment in rcv_buf.                                                     *)
TypeOK ==
  /\ cache \in Entry
  /\ pong \in BOOLEAN /\ heard \in BOOLEAN
  /\ dst \in Host /\ commands \in 0..MaxCommands
  /\ pc \in {"idle", "arp1", "arp2", "echo", "resolve", "syn", "open", "send",
             "recv", "close", "fin", "ends"}
  /\ cur \in Slot
  /\ \A i \in Slot :
       /\ sockets[i].state \in CLOSED..CLOSE_WAIT
       /\ {sockets[i].snd_nxt, sockets[i].snd_una, sockets[i].rcv_nxt}
            \subseteq 0..SeqMod - 1
       /\ Len(sockets[i].rcv) <= 1

(* The data the socket stores are the segments of its own connection, each *)
(* once and in the order the peer sent them, whatever the network repeats, *)
(* reorders or still holds of earlier connections.                         *)
InOrderOnce ==
  pc \in {"open", "send", "recv", "close", "fin", "ends"} =>
    \A i \in 1..Len(taken) :
      taken[i] = <<sockets[cur].conn, Plus(peer[sockets[cur].conn].iss, i)>>

(* tcp_send reports success only when the peer has the whole message and   *)
(* nothing but it, or when the message crosses the end of the sequence     *)
(* numbers: tcp_send compares them as they are, and then finds snd_una     *)
(* beyond snd_nxt before any acknowledgement has come.                     *)
SendConfirmed ==
  sent.ok /\ pc # "idle" =>
    \/ peer[sockets[cur].conn].rcv = Plus(sockets[cur].isn, 1 + sent.len)
    \/ Plus(sockets[cur].isn, 1) + sent.len >= SeqMod

(* Between commands every socket slot is free, whatever way the tcp        *)
(* commands ended: connecting never fails for want of a slot.              *)
NoSlotLeak == pc = "idle" => \A i \in Slot : ~sockets[i].used

(* From the SYN on, the cache holds the peer's address, so that            *)
(* send_tcp_segment never waits for ARP: tcp_handle_packet, which          *)
(* acknowledges from inside a polling loop, would poll recursively.        *)
NoNestedPoll ==
  pc \in {"syn", "open", "send", "recv", "close", "fin"} =>
    Resolved(cache, sockets[cur].dst)

(* Every command ends, whatever the hosts and the network do.              *)
CommandReturns == []<>(pc = "idle")
=============================================================================
