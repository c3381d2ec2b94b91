-------------------------------- MODULE Net --------------------------------
(***************************************************************************)
(* ARP and ping (kernel/net/net.c).  The stack has no task of its own: the *)
(* shell's command polls the card and handles what it finds until it has   *)
(* what it waits for or the ticks have passed.  Frames stay in net for     *)
(* ever and can be received in any order, any number of times or never:    *)
(* loss, delay, duplication and reordering.  A timeout may come at any     *)
(* time.                                                                   *)
(***************************************************************************)
EXTENDS Integers, FiniteSets

CONSTANTS Host,        \* addresses
          Local,       \* those of our subnet
          Gateway,     \* NET_GW_IP
          Pinged,      \* those that ping is used with
          MaxCommands  \* bound: commands the shell runs

ASSUME NetAssumption ==
  /\ Gateway \in Local /\ Local \subseteq Host /\ Pinged \subseteq Host
  /\ MaxCommands \in Nat

VARIABLES net,      \* the frames we sent and the segments of TCP peers
          cache,    \* the single entry of the ARP cache
          pong,     \* ping_reply_received
          heard,    \* a reply was received since the last echo request
          pc,       \* where the shell's command waits
          dst,      \* the address the command is about
          answered, \* the last command was a ping and returned 0
          commands  \* how many were run

netVars == <<net, cache, pong, heard>>
shellVars == <<pc, dst, answered, commands>>

(* The hardware address of a local host is the host itself.                *)
NoEntry == [valid |-> FALSE, ip |-> Gateway, mac |-> Gateway]
Entry == [valid : BOOLEAN, ip : Host, mac : Local]

ArpRequest(ip) == [kind |-> "arp request", ip |-> ip]
ArpReply(h) == [kind |-> "arp reply", ip |-> h, mac |-> h]
Echo(ip, mac) == [kind |-> "echo", ip |-> ip, mac |-> mac]
EchoReply(h) == [kind |-> "echo reply", ip |-> h]

(* An address outside the subnet is reached through the gateway.           *)
NextHop(ip) == IF ip \in Local THEN ip ELSE Gateway

(* What the card may receive: ARP replies of the local hosts we asked,     *)
(* replies to the echo requests that the next hop received, and the TCP    *)
(* segments sent to us.  (A request for our own address is answered and    *)
(* changes nothing here.)                                                  *)
Inbound ==
  {ArpReply(h) : h \in {i \in Local : ArpRequest(i) \in net}}
  \cup {EchoReply(h) : h \in {i \in Host : Echo(i, NextHop(i)) \in net}}
  \cup {f \in net : f.kind = "segment"}
-----------------------------------------------------------------------------
(* net_parse_packet: handle_arp caches every reply, handle_icmp counts any *)
(* echo reply.                                                             *)
CacheAfter(f) ==
  IF f.kind = "arp reply" THEN [valid |-> TRUE, ip |-> f.ip, mac |-> f.mac]
                          ELSE cache
PongAfter(f) == pong \/ f.kind = "echo reply"

(* net_arp_resolve finds the address in the cache c.                       *)
Resolved_AnyReply(c, ip) == c.valid
Resolved(c, ip) == c.valid /\ c.ip = ip
-----------------------------------------------------------------------------
SendEcho_NoReset(ip, c, frames) ==
  /\ cache' = [c EXCEPT !.ip = NextHop(ip)]
  /\ heard' = FALSE
  /\ net' = frames \cup {Echo(ip, c.mac)}
  /\ pc' = "echo"
  /\ UNCHANGED pong

(* net_ping once the address is resolved: store the entry, forget old      *)
(* replies, send the request.                                              *)
SendEcho(ip, c, frames) ==
  /\ cache' = [c EXCEPT !.ip = NextHop(ip)]
  /\ pong' = FALSE
  /\ heard' = FALSE
  /\ net' = frames \cup {Echo(ip, c.mac)}
  /\ pc' = "echo"

Return(ok) == pc' = "idle" /\ answered' = ok

Begin(ip) ==
  /\ pc = "idle"
  /\ commands < MaxCommands
  /\ commands' = commands + 1
  /\ dst' = ip

Ping(ip) ==
  /\ Begin(ip)
  /\ answered' = FALSE
  /\ IF Resolved(cache, NextHop(ip))
     THEN SendEcho(ip, cache, net)
     ELSE /\ net' = net \cup {ArpRequest(NextHop(ip))}
          /\ pc' = "arp1"
          /\ UNCHANGED <<cache, pong, heard>>

PingArpPoll ==
  /\ pc \in {"arp1", "arp2"}
  /\ \E f \in Inbound :
       IF Resolved(CacheAfter(f), NextHop(dst))
       THEN SendEcho(dst, CacheAfter(f), net)
       ELSE /\ cache' = CacheAfter(f)
            /\ pong' = PongAfter(f)
            /\ UNCHANGED <<net, pc, heard>>
  /\ UNCHANGED <<dst, answered, commands>>

PingArpTimeout_Retries ==
  /\ pc \in {"arp1", "arp2"}
  /\ pc' = IF pc = "arp1" THEN "arp2" ELSE "arp1"
  /\ UNCHANGED <<netVars, dst, answered, commands>>

(* The first timeout repeats the request, the second ends the command.     *)
PingArpTimeout ==
  /\ \/ pc = "arp1" /\ pc' = "arp2" /\ UNCHANGED answered
     \/ pc = "arp2" /\ Return(FALSE)
  /\ UNCHANGED <<netVars, dst, commands>>

PingPoll ==
  /\ pc = "echo"
  /\ \E f \in Inbound :
       /\ cache' = CacheAfter(f)
       /\ pong' = PongAfter(f)
       /\ heard' = (heard \/ f.kind = "echo reply")
  /\ IF pong' THEN Return(TRUE) ELSE UNCHANGED <<pc, answered>>
  /\ UNCHANGED <<net, dst, commands>>

PingTimeout ==
  /\ pc = "echo"
  /\ Return(FALSE)
  /\ UNCHANGED <<netVars, dst, commands>>
-----------------------------------------------------------------------------
NetInit ==
  /\ net = {}
  /\ cache = NoEntry
  /\ pong = FALSE
  /\ heard = FALSE
  /\ pc = "idle"
  /\ dst = Gateway
  /\ answered = FALSE
  /\ commands = 0

NetNext ==
  \/ \E ip \in Pinged : Ping(ip)
  \/ PingArpPoll \/ PingArpTimeout \/ PingPoll \/ PingTimeout
-----------------------------------------------------------------------------
(* Every echo request and TCP segment carries the hardware address of the  *)
(* next hop towards its destination, although a late ARP reply of another  *)
(* host can replace the only cache entry at any poll of net.c.             *)
FramesReachNextHop ==
  \A f \in net :
    f.kind \in {"echo", "tcp"} => f.mac = NextHop(f.ip)

(* net_ping reports a reply only when one was received after its request   *)
(* was sent, not one that a poll for ARP found earlier.                    *)
PingFresh == answered => heard
=============================================================================
