\* Four levels: 8 leaves of two bytes.  The requests reach every depth, on
\* and beside the sizes of blocks, and exceed the memory.  Beside it, two
\* lists share three blocks: moves between lists, first, middle, last and
\* only members.
SPECIFICATION AllSpec
CONSTANTS
  NUM_LEVELS = 4
  MIN_ALLOC = 2
  Pow2 <- ShiftTable
  Requests = {0, 3, 8, 9, 17}
  Lists = {l1, l2}
  Blocks = {b1, b2, b3}
  Junk = Junk
  NULL = NULL
  NoBlock = NoBlock
INVARIANTS
  TypeOK
  TreeAgrees
  MergingExact
  MemoryPartitioned
  IdsNameBlocks
  PairsAreBuddies
  BitsFitTheArrays
  RequestsFitTightly
  LinksTyped
  ListsSound
PROPERTIES
  ImplementsAllocator
  CallsReturn
  ImplementsFreeLists
