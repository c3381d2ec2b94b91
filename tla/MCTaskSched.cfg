CONSTANTS
  idle0 = idle0
  idle1 = idle1
  shell = shell
  u1 = u1
  u2 = u2
  NoTask = NoTask
  NoCpu = NoCpu
  CPU <- MCCPU
  BSP = 0
  Task <- MCTask
  Idle <- MCIdle
  Shell = shell
  BootRing <- MCBootRing
  Loadable <- MCTask
  Killable <- MCTask
  Syscalls = {"yield", "sleep", "exit"}
  TickMod = 3
  MaxSleep = 2
SPECIFICATION Spec
SYMMETRY Symmetry
INVARIANTS StackExclusive RunningIsCurrent RunnableOwnsStack RingComplete
           NullStackNeedsKill
PROPERTIES NoMigration FreeIsFinal
CHECK_DEADLOCK FALSE
