------------------------------- MODULE BuddyTree -------------------------------
(***************************************************************************)
(* The arithmetic of BuddyIds against a reference that uses none of it:    *)
(* a walk from the root that halves an interval at every step.  The        *)
(* variable walked is moved by the code's operators, the others by         *)
(* halving.  The names differ from those of BuddyAllocator, so that one    *)
(* module can hold the proofs about both.                                  *)
(***************************************************************************)
EXTENDS BuddyIds

VARIABLES walked,    \* the block, as the code names it
          halvings,  \* the number of halvings: its depth
          lower,     \* where the interval begins
          width      \* its length

place == <<walked, halvings, lower, width>>

AtRoot ==
  /\ walked = 0
  /\ halvings = 0
  /\ lower = 0
  /\ width = MAX_ALLOC

GoLeft ==
  /\ halvings < max_allocator_depth
  /\ walked' = left_child_global_id(walked)
  /\ halvings' = halvings + 1
  /\ width' = width \div 2
  /\ UNCHANGED lower

GoRight ==
  /\ halvings < max_allocator_depth
  /\ walked' = right_child_global_id(walked)
  /\ halvings' = halvings + 1
  /\ width' = width \div 2
  /\ lower' = lower + width \div 2

\* The other half of the same parent.
GoAcross ==
  /\ halvings > 0
  /\ walked' = buddy_global_id(walked)
  /\ lower' = IF (lower \div width) % 2 = 0 THEN lower + width ELSE lower - width
  /\ UNCHANGED <<halvings, width>>

GoUp ==
  /\ halvings > 0
  /\ walked' = parent_global_id(walked)
  /\ halvings' = halvings - 1
  /\ width' = 2 * width
  /\ lower' = lower - (lower % (2 * width))

Walks == GoLeft \/ GoRight \/ GoAcross \/ GoUp

Walking == AtRoot /\ [][Walks]_place

NamesTheInterval ==
  /\ global_id_to_depth(walked) = halvings
  /\ block_size_at_depth(halvings) = width
  /\ global_id_to_ptr(walked) = lower

PointersFindTheBlock ==
  \A ptr \in lower .. lower + width - 1 : ptr_to_global_id(ptr, halvings) = walked

\* An id stands for one block, whichever way led to it: it alone tells the
\* depth, the size and the place (global_id_to_depth, global_id_to_ptr); and
\* any pointer into the block, with the depth, tells the id, which is what
\* depth_allocated_ptr asks of ptr_to_global_id at every depth.
IdsNameBlocks == NamesTheInterval /\ PointersFindTheBlock

\* A bit of merge_index belongs to a block and its buddy, and to no third
\* block: otherwise one pair's malloc would flip another pair's bit.
PairsAreBuddies ==
  \A j \in Ids :
    buddy_pair_unique_id(j) = buddy_pair_unique_id(walked)
      <=> j \in {walked, buddy_global_id(walked)}

\* Every bit that a block may use lies inside the arrays that init_allocator
\* allocates: its pair's bit and, above the leaves, its split bit.
BitsFitTheArrays ==
  /\ buddy_pair_unique_id(walked) \div 8 < size_merge_index
  /\ halvings < max_allocator_depth => walked \div 8 < size_block_is_split

\* depth_for_request picks this depth for exactly the sizes that fit a block
\* of this size and not one of half of it; the leaves take the small ones.
RequestsFitTightly ==
  \A request \in 0 .. MAX_ALLOC + 1 :
    depth_for_request(request) = halvings
      <=> /\ request <= width
          /\ halvings = max_allocator_depth \/ width \div 2 < request
===============================================================================
