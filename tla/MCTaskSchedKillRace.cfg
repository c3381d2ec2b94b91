CONSTANTS
  idle0 = idle0
  idle1 = idle1
  shell = shell
  u1 = u1
  u2 = u2
  NoTask = NoTask
  NoCpu = NoCpu
  CPU <- MCCPU
  BSP = 0
  Task <- MCTask
  Idle <- MCIdle
  Shell = shell
  BootRing <- MCBootRing
  Loadable = {idle0, idle1, shell}
  Killable = {idle0, idle1}
  Syscalls = {"yield"}
  TickMod = 2
  MaxSleep = 0
SPECIFICATION Spec
INVARIANT StackInUseIsOwned
CHECK_DEADLOCK FALSE
