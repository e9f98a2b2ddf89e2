CONSTANTS
  b1 = b1
  b2 = b2
  diskHeader = diskHeader
  Bytes = {b1, b2}
  DiskHeader = diskHeader
  DiskSizes = {0, 1, 2, 3}
  MaxBody = 4
  MaxEntries = 2
  MaxIO = 3
  MaxWriters = 2
  Habits = {}
SPECIFICATION Spec

  
  
PROPERTIES
  NoSilentEnd
  CallsReturn
