CONSTANTS
  Keys <- OpsKeys
  Data = {d1}
  Hash <- OpsHash
  InitCapacity = 0
  MinCapacity = 8
  MaxTombstones = 8
  Faults = {}
  NULL = NULL
  TOMBSTONE_KEY = TOMBSTONE_KEY
  NoData = NoData

SPECIFICATION FairSpec

ACTION_CONSTRAINT Workloads
CONSTRAINT ChangesTable

INVARIANTS
  TypeOK
  ProbingSound
  CountersTrusted
  NeverStuck
  SizesBounded

PROPERTIES
  ImplementsKeyMap
  CallsReturn
