\* A root, three more entries, paths of up to three names, files of two bytes.
SPECIFICATION Spec
CONSTANTS
  Entries = {e1, e2, e3, e4}
  Names = {a, b}
  MaxDepth = 3
  Bytes = {0, 1}
  Buffers <- SmallBuffers
  Sizes = {1, 3}
  ReadOffsets <- SmallReadOffsets
  Offsets <- SmallOffsets
  MaxLength = 2
SYMMETRY Symmetry
INVARIANTS
  TypeOK
  TreeSound
PROPERTIES
  ImplementsDirTree
