CONSTANTS
  idle0 = idle0
  idle1 = idle1
  shell = shell
  u1 = u1
  u2 = u2
  NoTask = NoTask
  NoCpu = NoCpu
  CPU <- MCCPU
  BSP = 0
  Task = {idle0, idle1, shell, u1}
  Idle <- MCIdle
  Shell = shell
  BootRing <- MCBootRing
  Loadable = {idle0, idle1, shell, u1}
  Killable = {u1}
  Syscalls = {"yield", "sleep"}
  TickMod = 3
  MaxSleep = 2
SPECIFICATION FairSpec
PROPERTIES ReadyRuns SleepersWake
