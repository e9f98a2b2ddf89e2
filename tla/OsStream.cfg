CONSTANTS
  Nil = Nil
  a = a
  b = b
  Bytes = {a, b}
  Systems = {"posix", "wasm", "win32"}
  Space = 4
  MaxSize = 5
  MaxIO = 3
  Habits = {}
SPECIFICATION Spec
INVARIANTS
  StreamIsFile
  ClosedIsWritten
