-------------------------------- MODULE BuddyIds -------------------------------
(***************************************************************************)
(* assignment4/4_1.c: the arithmetic by which the buddy allocator names    *)
(* its blocks.  A block is a global id, numbered level by level in a       *)
(* binary tree from the root, 0, the whole memory; a pointer is its        *)
(* distance from base_ptr.  Also the sizes of the two bit fields, computed *)
(* by init_allocator in library.c.                                         *)
(***************************************************************************)
EXTENDS Integers

CONSTANTS
  NUM_LEVELS,  \* the depths of the tree (5 in the code)
  MIN_ALLOC,   \* the size of a leaf (2^16 in the code)
  Pow2         \* the table of 1 << d

ASSUME LevelsAssumption ==
  /\ NUM_LEVELS \in Nat \ {0}
  /\ MIN_ALLOC \in Nat \ {0}

ASSUME Pow2Assumption ==
  /\ Pow2 \in [0 .. NUM_LEVELS -> Nat]
  /\ Pow2[0] = 1
  /\ \A d \in 0 .. NUM_LEVELS - 1 : Pow2[d + 1] = 2 * Pow2[d]

Depths == 0 .. NUM_LEVELS - 1
MAX_ALLOC == MIN_ALLOC * Pow2[NUM_LEVELS - 1]

max_allocator_depth == NUM_LEVELS - 1
min_global_id_at_depth(depth) == Pow2[depth] - 1
max_global_id_at_depth(depth) == Pow2[depth + 1] - 2
max_global_id == max_global_id_at_depth(max_allocator_depth)

Ids == 0 .. max_global_id

parent_global_id(id) == IF id <= 0 THEN 0 ELSE (id - 1) \div 2
left_child_global_id(id) == 2 * id + 1
right_child_global_id(id) == 2 * id + 2

\* The loop goes down while the last id of the level is below id.
global_id_to_depth(id) ==
  CHOOSE d \in Depths :
    /\ max_global_id_at_depth(d) >= id
    /\ \A e \in 0 .. d - 1 : max_global_id_at_depth(e) < id

level_index_to_global_id(index, depth) == min_global_id_at_depth(depth) + index

global_id_to_level_index(id) == id - min_global_id_at_depth(global_id_to_depth(id))

block_size_at_depth(depth) == MAX_ALLOC \div Pow2[depth]

global_id_to_ptr(id) ==
  global_id_to_level_index(id) * block_size_at_depth(global_id_to_depth(id))

ptr_to_global_id(ptr, depth) ==
  level_index_to_global_id(ptr \div block_size_at_depth(depth), depth)

\* Mutant: the sibling of an even id taken for the one above it.
BuddyOtherParity(id) ==
  IF id = 0 THEN 0 ELSE IF id % 2 = 0 THEN id + 1 ELSE id - 1

buddy_global_id(id) ==
  IF id = 0 THEN 0 ELSE IF id % 2 = 0 THEN id - 1 ELSE id + 1

\* Mutant: pairs numbered without the shift by one.
PairUnshifted(id) == id \div 2

buddy_pair_unique_id(id) == (id + 1) \div 2
max_buddy_pair_unique_id == buddy_pair_unique_id(max_global_id)

\* Mutant: a block of exactly the requested size is not deep enough.
DepthForRequestStrict(size) ==
  IF size > MAX_ALLOC THEN -1
  ELSE CHOOSE d \in Depths :
         /\ d = max_allocator_depth \/ block_size_at_depth(d + 1) <= size
         /\ \A e \in 0 .. d - 1 : block_size_at_depth(e + 1) > size

\* The loop goes down while the blocks one level deeper are large enough.
depth_for_request(size) ==
  IF size > MAX_ALLOC THEN -1
  ELSE CHOOSE d \in Depths :
         /\ d = max_allocator_depth \/ block_size_at_depth(d + 1) < size
         /\ \A e \in 0 .. d - 1 : block_size_at_depth(e + 1) >= size

-------------------------------------------------------------------------------
(* The bit fields that init_allocator allocates, in bytes *)

\* Mutant: the quotient is truncated instead of rounded up.
BytesTruncated(bits) == bits \div 8

BytesFor(bits) ==
  (IF bits % 8 # 0 THEN (bits \div 8) * 8 + 8 ELSE bits) \div 8

size_merge_index == BytesFor(max_buddy_pair_unique_id)
size_block_is_split == BytesFor(max_global_id_at_depth(max_allocator_depth - 1))
===============================================================================
