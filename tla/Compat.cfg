CONSTANTS
  n1 = n1
  n2 = n2
  c1 = c1
  c2 = c2
  junk = junk
  noName = noName
  Names = {n1, n2}
  Chunks = {c1, c2}
  Junk = junk
  NoName = noName
  Capacity = 9
  MaxData = 2
  MaxEntries = 2
  MaxStub = 0
  U32 = 100
  Declared = {0}
  Zip64Modes = {"auto"}
  Descriptors = {TRUE}
  CrashModes = {}
  CallerHabits = {}
  Habits = {}
SYMMETRY NamesAndChunks
SPECIFICATION CompatSpec

  
PROPERTIES
  FilePosIsEntry
