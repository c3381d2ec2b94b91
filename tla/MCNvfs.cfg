CONSTANTS
  na = na
  nb = nb
  d1 = d1
  d2 = d2
  Dir = Dir
  NoCall = NoCall
  NoBlock = NoBlock
  Name = {na, nb}
  NBlocks = 5
  NBits = 6
  NInodes = 4
  DirectExtents = 1
  IndirectEnts = 2
  DirSlots = 1
  AppendMax = 3
  Requests <- FileRequests
  CrashIn = {"write", "append", "mkdir"}
  FailIn <- SafeFailures
  MaxFaults = 1
SPECIFICATION Spec
INVARIANTS TypeOK NoBlockShared EntriesSound
PROPERTY AtomicCalls
