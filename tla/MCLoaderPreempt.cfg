CONSTANTS
  p1 = p1
  p2 = p2
  p3 = p3
  p4 = p4
  p5 = p5
  Kernel = Kernel
  NoFrame = NoFrame
  Prog <- Programs
  NPde = 3
  FramesPerPde = 8
  UserPde = 2
  KernelFrames = 5
  Pages = 2
  StackFrames = 2
  HeapLength = 2
  Segments = 2
SPECIFICATION Spec
SYMMETRY ProgramSymmetry
INVARIANT HeapIntact
CHECK_DEADLOCK FALSE
