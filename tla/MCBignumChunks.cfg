SPECIFICATION Spec
CONSTANTS
  LimbBits = 7
  Radix = 10
  ChunkDigits = 2
  Longest = 50
INVARIANTS ChunksFit
CHECK_DEADLOCK FALSE
