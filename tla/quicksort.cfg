\* Every array of up to five elements, a few of seven; a pipe for two integers.
SPECIFICATION FairSpec
CONSTANTS
  MaxLength = 7
  Arrays <- TestArrays
  SerialBelow <- Thresholds
  PipeCapacity = 2
  Faults = {"pipe", "fork", "write", "read"}
INVARIANTS
  TypeOK
  SplitsHold
  ThreadsApart
  SortedAtEnd
PROPERTIES
  Terminates
