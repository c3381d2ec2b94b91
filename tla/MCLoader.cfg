CONSTANTS
  p1 = p1
  p2 = p2
  p3 = p3
  p4 = p4
  p5 = p5
  Kernel = Kernel
  NoFrame = NoFrame
  Prog <- Programs
  NPde = 4
  FramesPerPde = 9
  UserPde = 2
  KernelFrames = 8
  Pages = 5
  StackFrames = 2
  HeapLength = 5
  Segments = 2
SPECIFICATION Spec
SYMMETRY ProgramSymmetry
INVARIANTS TypeOK OneOwner
CHECK_DEADLOCK FALSE
