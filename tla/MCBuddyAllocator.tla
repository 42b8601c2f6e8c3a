---------------------------- MODULE MCBuddyAllocator ---------------------------
(***************************************************************************)
(* Instances of the three modules about assignment4 for TLC: the           *)
(* allocator, the walk over its block ids, and the links of its lists.     *)
(* They have no variable in common, so the order of their steps does not   *)
(* matter: a behaviour stays with the one that makes the first step.       *)
(***************************************************************************)
EXTENDS BuddyAllocator, BuddyTree, BlockList

ShiftTable == [d \in 0 .. NUM_LEVELS |-> 2 ^ d]

AllInit == Init /\ AtRoot /\ ListsEmpty

AllocatorRuns == Next /\ UNCHANGED <<place, listVars>> /\ AtRoot /\ ListsEmpty
TreeIsWalked == Walks /\ UNCHANGED <<vars, listVars>> /\ Init /\ ListsEmpty
ListsAreUsed == ListCalls /\ UNCHANGED <<vars, place>> /\ Init /\ AtRoot

AllSpec ==
  /\ AllInit
  /\ [][AllocatorRuns \/ TreeIsWalked \/ ListsAreUsed]_<<vars, place, listVars>>
  /\ WF_vars(CallStep)
===============================================================================
