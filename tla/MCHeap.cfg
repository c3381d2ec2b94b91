SPECIFICATION Spec
CONSTANTS
  k1 = k1
  k2 = k2
  k3 = k3
  Client = {k1, k2, k3}
  Tag <- MCTag
  HEAP_WORDS = 11
  UIntMax = 63
  MallocSizes = {0, 4, 9, 60}
  CallocShapes <- MCShapes
  ReallocSizes = {4, 13, 52, 53}
INVARIANTS
  Tiles
  UsedAreHeld
  Coalesced
  DoubleFreeRefused
PROPERTY
  ImplementsStore
