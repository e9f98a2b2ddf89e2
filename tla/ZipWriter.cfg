CONSTANTS
  fileName = fileName
  dirName = dirName
  cdName = cdName
  junk = junk
  secret = secret
  nil = nil
  unknown = unknown
  tok1 = tok1
  tok2 = tok2
  in = in
  out = out
  Names = {fileName, dirName}
  Tokens = {tok1, tok2}
  CdName = cdName
  Junk = junk
  Key = secret
  Nil = nil
  Unknown = unknown
  Paths = {out}
  DataOf <- MCDataOf
  KindOf <- MCKindOf
  Given <- MCGiven
  ReaderOptions <- MCReaderOptions
  WriterOptions <- MCWriterOptions
  Habits = {}
  MaxEntries = 2
  MaxWriters = 2
SPECIFICATION Spec
INVARIANTS
  SavedIsEntry
  ShowsWhatWasAdded
CHECK_DEADLOCK FALSE
