CONSTANTS
  CpuCount = 3
  Started = {0, 1, 2}
  Shell = Shell
  ShellCpu = 1
  MaxTasks = 4
  NTasks = 4
SPECIFICATION FairSpec
INVARIANTS ClaimExclusive FrameAlive NeverFull
PROPERTIES ImplementsPool WaitReturns
