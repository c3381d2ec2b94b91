CONSTANTS
  idle0 = idle0
  idle1 = idle1
  shell = shell
  NoTask = NoTask
  NoCpu = NoCpu
  CPU <- MCCPU
  BSP = 0
  Task <- MCTask
  Idle <- MCIdle
  Shell = shell
  BootRing <- MCBootRing
  Loadable <- MCTask
  Killable = {}
  Syscalls = {}
  TickMod = 2
  MaxSleep = 0
SPECIFICATION BootSpec
INVARIANT OwnIdleStack
CHECK_DEADLOCK FALSE
