----------------------------- MODULE AllocatorSpec -----------------------------
(***************************************************************************)
(* What the allocator of assignment4 promises a client: blocks that hold   *)
(* the request, lie in the memory and overlap no block still held; and     *)
(* NULL only when no aligned block of the right size is vacant, however    *)
(* the memory was carved up before.  Nothing here speaks of lists, bits or *)
(* of merging; BuddyAllocator is checked to implement it.                  *)
(***************************************************************************)
EXTENDS Integers

CONSTANTS
  MemorySize,   \* the bytes from base_ptr
  BlockSizes,   \* the sizes blocks come in
  Requests,     \* the sizes clients ask for
  NULL

VARIABLES held,    \* the blocks clients hold: pointer -> size of the block
          answer   \* the size last asked for and what the client got

vars == <<held, answer>>

\* The smallest block that holds a request.
Class(request) ==
  CHOOSE s \in BlockSizes :
    /\ s >= request
    /\ \A t \in BlockSizes : t >= request => s <= t

Aligned(s) == {p \in 0 .. MemorySize - 1 : p % s = 0 /\ p + s <= MemorySize}

Vacant(p, s) == \A q \in DOMAIN held : q + held[q] <= p \/ p + s <= q

NoAnswer == [size |-> NULL, ptr |-> NULL]

Init ==
  /\ held = [p \in {} |-> 0]
  /\ answer = NoAnswer

Malloc(request) ==
  /\ request <= MemorySize
  /\ \E p \in Aligned(Class(request)) :
       /\ Vacant(p, Class(request))
       /\ held' = [q \in DOMAIN held \cup {p} |->
                     IF q = p THEN Class(request) ELSE held[q]]
       /\ answer' = [size |-> request, ptr |-> p]

Fail(request) ==
  /\ \/ request > MemorySize
     \/ \A p \in Aligned(Class(request)) : ~ Vacant(p, Class(request))
  /\ answer' = [size |-> request, ptr |-> NULL]
  /\ UNCHANGED held

Free(p) ==
  /\ held' = [q \in DOMAIN held \ {p} |-> held[q]]
  /\ answer' = NoAnswer

Next ==
  \/ \E request \in Requests : Malloc(request) \/ Fail(request)
  \/ \E p \in DOMAIN held : Free(p)

Spec == Init /\ [][Next]_vars
===============================================================================
