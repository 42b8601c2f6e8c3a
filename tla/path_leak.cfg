\* One handler that takes the last of two names off, with allocations that fail.
SPECIFICATION Spec
CONSTANTS
  Threads = {t1}
  Chars = {"/", "a", "b"}
  NUL = NUL
  Strings <- FuseStrings
  MayFail = TRUE
  NULL = NULL
INVARIANTS
  PoppedNameFreed
