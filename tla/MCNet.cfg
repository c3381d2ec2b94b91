SPECIFICATION Spec
CONSTANTS
  gw = gw
  srv = srv
  far = far
  Host <- MCHost
  Local <- MCLocal
  Gateway = gw
  Server = {srv}
  Pinged = {srv, far}
  MaxCommands = 2
  TCP_MAX_SOCKS = 1
  SeqMod = 32
  Isn = {3, 29}
  PeerIsn = {5}
  MsgLens = {2}
  MaxSegs = 2
INVARIANTS
  FramesReachNextHop
  PingFresh
  InOrderOnce
  SendConfirmed
  NoSlotLeak
  NoNestedPoll
PROPERTY CommandReturns
CHECK_DEADLOCK FALSE
