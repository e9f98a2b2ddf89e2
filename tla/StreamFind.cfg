CONSTANTS
  b1 = b1
  b2 = b2
  junk = junk
  Bytes = {b1, b2}
  Junk = junk
  GrowSizes = {2}
  CopySize = 1
  MaxLen = 3
  MaxSought = 9
  MaxIO = 2
  Pattern <- MCPattern
  FindSize = 6
  Habits = {}
SPECIFICATION Spec
PROPERTIES
  MemIsFile
  CopyIsExact
  FindsFirst
  FindsLast
  CallsReturn
