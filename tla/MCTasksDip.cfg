SPECIFICATION Spec
CONSTANTS
  Async = 1
  Closures = {f, g}
  Upvalues = {u, v}
  MaxSlots = 3
  MaxFrames = 3
  MaxHandlers = 1
  Numbas = {0}
  Dippers = {1}
  Script = Script
  None = None
  Pending = Pending
  Garbage = Garbage
SYMMETRY Symmetry
INVARIANTS UpvaluesHaveASlot
