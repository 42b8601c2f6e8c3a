CONSTANTS
  Keys <- FaultKeys
  Data = {d1}
  Hash <- FaultHash
  InitCapacity = 0
  MinCapacity = 8
  MaxTombstones = 6
  Faults = {"calloc", "strdup"}
  NULL = NULL
  TOMBSTONE_KEY = TOMBSTONE_KEY
  NoData = NoData

SPECIFICATION Spec
CHECK_DEADLOCK FALSE

CONSTRAINT BoundedEntries

INVARIANTS
  ProbingSound

PROPERTIES
  ResizeKeepsContents
