CONSTANTS
  b1 = b1
  b2 = b2
  Bytes = {b1, b2}
  BufSize = 2
  MaxLen = 4
  MaxIO = 3
  Habits = {}
SPECIFICATION Spec
INVARIANTS
  BuffersOK
PROPERTIES
  ImplementsFile
  SeeksAndTells
  CallsReturn
