\* One thread, any string, allocations that fail.
SPECIFICATION Spec
CONSTANTS
  Threads = {t1}
  Chars = {"/", "a", "b"}
  NUL = NUL
  Strings <- SmallStrings
  MayFail = TRUE
  NULL = NULL
INVARIANTS
  ParseFindsNames
  PathsFreed
