---------------------------- MODULE BuddyAllocator -----------------------------
(***************************************************************************)
(* assignment4/4_3.c: allocator_malloc and allocator_free over the free    *)
(* lists of library.c and the two bit fields of 4_2.c.                     *)
(*                                                                         *)
(* A call is a first action, one action per iteration of its loop, and a   *)
(* last one; pc says which call is running.  Between two calls the client  *)
(* chooses: it frees blocks that it holds, each once.                      *)
(***************************************************************************)
EXTENDS BuddyIds, SequencesExt

CONSTANTS
  Requests,   \* the sizes that clients ask for
  NULL

ASSUME RequestsAssumption ==
  /\ Requests \subseteq Nat
  /\ NULL \notin Int

VARIABLES
  levels,          \* the list of free blocks at every depth, oldest first
  is_split_index,  \* a bit per inner block
  merge_index,     \* a bit per pair of buddies
  pc,              \* "idle", "malloc" or "free"
  requested_size,  \* allocator_malloc: the argument
  target_depth,    \* allocator_malloc: the depth requested
  depth,           \* the depth of block, in both calls
  block,           \* the pointer in hand: block, or block_ptr in allocator_free
  block_id,        \* its id
  held,            \* what clients hold: pointer -> size of the block
  answer           \* the last call of allocator_malloc and what it returned

Answers(size, ptr) == answer' = [size |-> size, ptr |-> ptr]

bits == <<is_split_index, merge_index>>
locals == <<requested_size, target_depth, depth, block, block_id>>
client == <<held, answer>>
vars == <<levels, bits, pc, locals, client>>

InnerIds == 0 .. max_global_id_at_depth(max_allocator_depth - 1)
Pairs == 0 .. max_buddy_pair_unique_id
Pointers == 0 .. MAX_ALLOC - 1

-------------------------------------------------------------------------------
(* Bits *)

\* Mutant: setting a bit by counting.
Counted(index, bit) == [index EXCEPT ![bit] = @ + 1]

Flipped(index, bit) == [index EXCEPT ![bit] = 1 - @]

block_is_split(id) == IF id \in InnerIds THEN is_split_index[id] ELSE 0

\* flip_parent_is_split
ParentFlipped(id) ==
  IF id <= 0 THEN is_split_index ELSE Flipped(is_split_index, parent_global_id(id))

\* The deepest depth below a split block that holds the pointer.
depth_allocated_ptr(ptr) ==
  CHOOSE d \in Depths :
    /\ d = 0 \/ block_is_split(ptr_to_global_id(ptr, d - 1)) = 1
    /\ \A e \in d + 1 .. max_allocator_depth :
         block_is_split(ptr_to_global_id(ptr, e - 1)) = 0

\* flip_block_is_free
IsFreeFlipped(id) == Flipped(merge_index, buddy_pair_unique_id(id))

block_is_free(id) == merge_index[buddy_pair_unique_id(id)]

-------------------------------------------------------------------------------
(* Lists.  The links are prev and next pointers in the free blocks; a list *)
(* grows at its back, which is also where list_pop takes from.             *)

Pushed(d, ptr) == [levels EXCEPT ![d] = Append(@, ptr)]
Popped(d) == [levels EXCEPT ![d] = Front(@)]

Position(list, ptr) == CHOOSE i \in DOMAIN list : list[i] = ptr

\* list_remove unlinks the block from whichever list it is in.
Unlinked(ptr) ==
  [d \in Depths |->
    IF ptr \in Range(levels[d])
    THEN RemoveAt(levels[d], Position(levels[d], ptr))
    ELSE levels[d]]

Init ==
  /\ levels = [d \in Depths |-> IF d = 0 THEN <<0>> ELSE <<>>]
  /\ is_split_index = [id \in InnerIds |-> 0]
  /\ merge_index = [p \in Pairs |-> 0]
  /\ pc = "idle"
  /\ requested_size = 0
  /\ target_depth = 0
  /\ depth = 0
  /\ block = 0
  /\ block_id = 0
  /\ held = [p \in {} |-> 0]
  /\ answer = [size |-> NULL, ptr |-> NULL]

-------------------------------------------------------------------------------
(* allocator_malloc *)

NoLocals ==
  /\ requested_size' = 0
  /\ target_depth' = 0
  /\ depth' = 0
  /\ block' = 0
  /\ block_id' = 0

MallocRefuses(request) ==
  /\ pc = "idle"
  /\ depth_for_request(request) < 0
  /\ Answers(request, NULL)
  /\ UNCHANGED <<levels, bits, pc, locals, held>>

\* Mutant: only the list of the depth requested is searched.
MallocExhaustedAtDepth(request) ==
  /\ pc = "idle"
  /\ depth_for_request(request) >= 0
  /\ levels[depth_for_request(request)] = <<>>
  /\ Answers(request, NULL)
  /\ UNCHANGED <<levels, bits, pc, locals, held>>

MallocExhausted(request) ==
  /\ pc = "idle"
  /\ depth_for_request(request) >= 0
  /\ \A d \in 0 .. depth_for_request(request) : levels[d] = <<>>
  /\ Answers(request, NULL)
  /\ UNCHANGED <<levels, bits, pc, locals, held>>

\* The deepest list that is not empty, no deeper than the depth requested,
\* gives its last block.
MallocTakes(request) ==
  /\ pc = "idle"
  /\ \E d \in 0 .. depth_for_request(request) :
       /\ levels[d] # <<>>
       /\ \A e \in d + 1 .. depth_for_request(request) : levels[e] = <<>>
       /\ target_depth' = depth_for_request(request)
       /\ depth' = d
       /\ block' = Last(levels[d])
       /\ block_id' = ptr_to_global_id(block', d)
       /\ levels' = Popped(d)
  /\ merge_index' = IsFreeFlipped(block_id')
  /\ requested_size' = request
  /\ pc' = "malloc"
  /\ UNCHANGED <<is_split_index, client>>

\* Mutants: the right half is pushed and its pair's bit forgotten; the left
\* half is pushed although it is the one handed out; no progress.
MallocSplitsUnmarked ==
  LET left == left_child_global_id(block_id)
      right == right_child_global_id(block_id)
  IN  /\ pc = "malloc"
      /\ depth < target_depth
      /\ is_split_index' = ParentFlipped(left)
      /\ levels' = Pushed(depth + 1, global_id_to_ptr(right))
      /\ block' = global_id_to_ptr(left)
      /\ block_id' = left
      /\ depth' = depth + 1
      /\ UNCHANGED <<merge_index, pc, requested_size, target_depth, client>>

MallocSplitsLeft ==
  LET left == left_child_global_id(block_id)
      right == right_child_global_id(block_id)
  IN  /\ pc = "malloc"
      /\ depth < target_depth
      /\ is_split_index' = ParentFlipped(left)
      /\ levels' = Pushed(depth + 1, global_id_to_ptr(left))
      /\ merge_index' = IsFreeFlipped(right)
      /\ block' = global_id_to_ptr(left)
      /\ block_id' = left
      /\ depth' = depth + 1
      /\ UNCHANGED <<pc, requested_size, target_depth, client>>

MallocSplitsNothing ==
  /\ pc = "malloc"
  /\ depth < target_depth
  /\ UNCHANGED vars

\* One iteration of the loop: keep the left half, free the right one.
MallocSplits ==
  LET left == left_child_global_id(block_id)
      right == right_child_global_id(block_id)
  IN  /\ pc = "malloc"
      /\ depth < target_depth
      /\ is_split_index' = ParentFlipped(left)
      /\ levels' = Pushed(depth + 1, global_id_to_ptr(right))
      /\ merge_index' = IsFreeFlipped(right)
      /\ block' = global_id_to_ptr(left)
      /\ block_id' = left
      /\ depth' = depth + 1
      /\ UNCHANGED <<pc, requested_size, target_depth, client>>

MallocReturns ==
  /\ pc = "malloc"
  /\ depth >= target_depth
  /\ held' = [p \in DOMAIN held \cup {block} |->
                IF p = block THEN block_size_at_depth(depth) ELSE held[p]]
  /\ Answers(requested_size, block)
  /\ pc' = "idle"
  /\ NoLocals
  /\ UNCHANGED <<levels, bits>>

-------------------------------------------------------------------------------
(* allocator_free *)

\* NULL and pointers outside the memory are ignored.
FreeIgnores(ptr) ==
  /\ pc = "idle"
  /\ ptr \notin Pointers
  /\ UNCHANGED vars

\* From here on the block is the allocator's.
FreeBegins(ptr) ==
  /\ pc = "idle"
  /\ ptr \in DOMAIN held
  /\ depth' = depth_allocated_ptr(ptr)
  /\ block' = ptr
  /\ block_id' = ptr_to_global_id(ptr, depth')
  /\ merge_index' = IsFreeFlipped(block_id')
  /\ held' = [p \in DOMAIN held \ {ptr} |-> held[p]]
  /\ Answers(NULL, NULL)
  /\ pc' = "free"
  /\ UNCHANGED <<levels, is_split_index, requested_size, target_depth>>

\* Mutant: the parent stays marked as split.
FreeMergesUnmarked ==
  /\ pc = "free"
  /\ depth > 0
  /\ block_is_free(block_id) = 0
  /\ levels' = Unlinked(global_id_to_ptr(buddy_global_id(block_id)))
  /\ block_id' = parent_global_id(block_id)
  /\ block' = global_id_to_ptr(block_id')
  /\ depth' = depth - 1
  /\ merge_index' = IsFreeFlipped(block_id')
  /\ UNCHANGED <<is_split_index, pc, requested_size, target_depth, client>>

\* One iteration of the loop: the buddy is free as well.
FreeMerges ==
  /\ pc = "free"
  /\ depth > 0
  /\ block_is_free(block_id) = 0
  /\ levels' = Unlinked(global_id_to_ptr(buddy_global_id(block_id)))
  /\ is_split_index' = ParentFlipped(block_id)
  /\ block_id' = parent_global_id(block_id)
  /\ block' = global_id_to_ptr(block_id')
  /\ depth' = depth - 1
  /\ merge_index' = IsFreeFlipped(block_id')
  /\ UNCHANGED <<pc, requested_size, target_depth, client>>

FreeReturns ==
  /\ pc = "free"
  /\ depth <= 0 \/ block_is_free(block_id) # 0
  /\ levels' = Pushed(depth, block)
  /\ pc' = "idle"
  /\ NoLocals
  /\ UNCHANGED <<bits, client>>

CallStep == MallocSplits \/ MallocReturns \/ FreeMerges \/ FreeReturns

Next ==
  \/ \E request \in Requests :
       \/ MallocRefuses(request)
       \/ MallocExhausted(request)
       \/ MallocTakes(request)
  \/ FreeIgnores(NULL)
  \/ FreeIgnores(MAX_ALLOC)
  \/ \E ptr \in Pointers : FreeBegins(ptr)
  \/ CallStep

Spec == Init /\ [][Next]_vars

\* The thread that runs a call goes on running it.
FairSpec == Spec /\ WF_vars(CallStep)

-------------------------------------------------------------------------------
(* Properties *)

InList(id) == global_id_to_ptr(id) \in Range(levels[global_id_to_depth(id)])

IsHeld(id) ==
  /\ global_id_to_ptr(id) \in DOMAIN held
  /\ held[global_id_to_ptr(id)] = block_size_at_depth(global_id_to_depth(id))

InHand(id) == pc # "idle" /\ id = block_id

\* A block that is cut out of the tree: the root, or half of a split block.
Exists(id) == id = 0 \/ block_is_split(parent_global_id(id)) = 1

Roles(id) ==
  {r \in {"split", "free", "held", "in hand"} :
     \/ r = "split" /\ block_is_split(id) = 1
     \/ r = "free" /\ InList(id)
     \/ r = "held" /\ IsHeld(id)
     \/ r = "in hand" /\ InHand(id)}

\* The types of the fields and locals; bits are bits, and the block in hand
\* is one of the tree at its depth.
TypeOK ==
  /\ levels \in [Depths -> Seq(Pointers)]
  /\ is_split_index \in [InnerIds -> {0, 1}]
  /\ merge_index \in [Pairs -> {0, 1}]
  /\ pc \in {"idle", "malloc", "free"}
  /\ target_depth \in Depths
  /\ depth \in Depths
  /\ block_id \in min_global_id_at_depth(depth) .. max_global_id_at_depth(depth)
  /\ block = global_id_to_ptr(block_id)
  /\ DOMAIN held \subseteq Pointers
  /\ \A p \in DOMAIN held : \E d \in Depths : held[p] = block_size_at_depth(d)
  /\ requested_size \in Requests \cup {0}
  /\ answer \in [size : Requests \cup {NULL}, ptr : Pointers \cup {NULL}]

RolesExact ==
  \A id \in Ids :
    LET roles == Roles(id)
    IN  IF Exists(id) THEN \E r \in roles : roles = {r} ELSE roles = {}

ListedOnce == \A d \in Depths : IsInjective(levels[d])

\* The split bits, the lists and the client agree on every block of the tree:
\* one that exists is split, free, held or in hand, and only one of these;
\* one that does not exist is nothing; and a free block, which stores its own
\* links, is in its list once.  depth_allocated_ptr relies on it for the size
\* of a block, allocator_free for the place of the buddy.
TreeAgrees == RolesExact /\ ListedOnce

Free(id) == InList(id) \/ (pc = "free" /\ id = block_id)

MergeBitsExact ==
  /\ merge_index[0] = IF Free(0) THEN 0 ELSE 1
  /\ \A id \in Ids \ {0} :
       merge_index[buddy_pair_unique_id(id)]
         = IF Free(id) # Free(buddy_global_id(id)) THEN 1 ELSE 0

BuddiesMerged ==
  \A id \in Ids \ {0} : ~ (InList(id) /\ InList(buddy_global_id(id)))

EverythingComesBack ==
  pc = "idle" /\ DOMAIN held = {} =>
    /\ levels = [d \in Depths |-> IF d = 0 THEN <<0>> ELSE <<>>]
    /\ \A id \in InnerIds : is_split_index[id] = 0
    /\ \A p \in Pairs : merge_index[p] = 0

\* allocator_free never looks at a list to learn whether the buddy is free;
\* it trusts the pair's bit.  The bit is 1 exactly when one of the two is free
\* (and the root's, which has no buddy, when it is not), after any history of
\* splits and merges.  So two buddies are never both free, and a memory that
\* is all free again is as init_allocator left it: one block, no bit set.
MergingExact == MergeBitsExact /\ BuddiesMerged /\ EverythingComesBack

Region(ptr, size) == ptr .. ptr + size - 1

ListedRegions == UNION {{Region(ptr, block_size_at_depth(d)) : ptr \in Range(levels[d])} : d \in Depths}
HeldRegions == {Region(ptr, held[ptr]) : ptr \in DOMAIN held}
RegionInHand == IF pc = "idle" THEN {} ELSE {Region(block, block_size_at_depth(depth))}

\* The free blocks, the blocks of the clients and the block in hand cover the
\* memory, and no byte belongs to two of them: no client writes into the
\* links of a list or into another client's block, and nothing is lost.
MemoryPartitioned ==
  LET regions == ListedRegions \cup HeldRegions \cup RegionInHand
  IN  /\ UNION regions = Pointers
      /\ \A r, s \in regions : r # s => r \cap s = {}
      /\ ListedRegions \cap HeldRegions = {}
      /\ RegionInHand \cap (ListedRegions \cup HeldRegions) = {}

\* Every malloc and every free returns: both loops end.
CallsReturn == pc # "idle" ~> pc = "idle"

\* The allocator implements AllocatorSpec: what it hands out overlaps nothing
\* held, and it answers NULL only when no block of the size is vacant.
Abstract == INSTANCE AllocatorSpec
  WITH MemorySize <- MAX_ALLOC, BlockSizes <- {block_size_at_depth(d) : d \in Depths}
ImplementsAllocator == Abstract!Spec
===============================================================================
