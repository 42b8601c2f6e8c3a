\* Two handlers at once, on the paths that libfuse passes.
SPECIFICATION Spec
CONSTANTS
  Threads = {t1, t2}
  Chars = {"/", "a", "b"}
  NUL = NUL
  Strings <- FuseStrings
  MayFail = FALSE
  NULL = NULL
INVARIANTS
  ParseFindsNames
