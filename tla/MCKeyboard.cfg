SPECIFICATION Spec
CONSTANTS
  CPU = {0, 1}
  BUFFER_SIZE = 3
  Code = {"key", "key release", "shift", "shift release", "caps", "prefix", "arrow"}
  MaxCodes = 5
INVARIANTS
  Decoded
  EachKeyOnce
PROPERTY
  AllRead
