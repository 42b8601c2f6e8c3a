\* A path that goes on behind a file.
SPECIFICATION Spec
CONSTANTS
  Entries = {e1, e2, e3, e4}
  Names = {a, b}
  MaxDepth = 2
  Bytes = {0, 1}
  Buffers <- SmallBuffers
  Sizes = {1, 3}
  ReadOffsets <- SmallReadOffsets
  Offsets <- SmallOffsets
  MaxLength = 2
INVARIANTS
  AnswersAlways
