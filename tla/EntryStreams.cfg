CONSTANTS
  Nil = Nil
  Right = right
  Keys = {right, wrong}
  Methods = {"store", "deflate", "bzip2", "lzma", "zstd"}
  Kinds = {"none", "pk", "aes"}
  MaxData = 4
  MaxIO = 3
  Rooms = {3, 6}
  ZBuf = 2
  Habits = {}
SPECIFICATION Spec
INVARIANTS
  SizesAreOfFile
  DeliversEntry
  AlteredIsNoticed
PROPERTIES
  TurnsAdvance
CHECK_DEADLOCK FALSE
