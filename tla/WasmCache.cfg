CONSTANTS
  Nil = Nil
  a = a
  b = b
  Urls = {a, b}
  KeyOf <- OwnKeys
  Packages = {b}
  MaxChunks = 1
  MaxLoads = 2
  MaxSyncs = 2
  Habits = {}
SPECIFICATION Spec
INVARIANTS
  
  ClearedIsGone
  AnswersAreRight
PROPERTIES
  
  Restored
