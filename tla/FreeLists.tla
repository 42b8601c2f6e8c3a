------------------------------- MODULE FreeLists -------------------------------
(***************************************************************************)
(* What the lists of assignment4/library.c promise the allocator: a block  *)
(* pushed joins the back of a list, list_pop takes the back away, and      *)
(* list_remove takes a block out of whichever list it is in, leaving the   *)
(* order of the others alone.  BlockList is checked to implement this.     *)
(***************************************************************************)
EXTENDS SequencesExt

CONSTANTS Lists, Blocks, NULL

VARIABLES lists,    \* the blocks of every list, oldest first
          call      \* the last call, its list, and the block given or returned

vars == <<lists, call>>

Called(op, l, e) == call' = [op |-> op, list |-> l, block |-> e]

Listed(e) == \E l \in Lists : Contains(lists[l], e)

Init ==
  /\ lists = [l \in Lists |-> <<>>]
  /\ call = [op |-> "none", list |-> NULL, block |-> NULL]

Push(l, e) ==
  /\ Called("list_push", l, e)
  /\ ~ Listed(e)
  /\ lists' = [lists EXCEPT ![l] = Append(@, e)]

TakeOut(e) ==
  /\ Called("list_remove", NULL, e)
  /\ \E l \in Lists : \E i \in 1 .. Len(lists[l]) :
       /\ lists[l][i] = e
       /\ lists' = [lists EXCEPT ![l] = RemoveAt(@, i)]

Pop(l) ==
  /\ lists[l] # <<>>
  /\ Called("list_pop", l, Last(lists[l]))
  /\ lists' = [lists EXCEPT ![l] = Front(@)]

PopEmpty(l) ==
  /\ Called("list_pop", l, NULL)
  /\ lists[l] = <<>>
  /\ UNCHANGED lists

Next ==
  \/ \E l \in Lists : Pop(l) \/ PopEmpty(l) \/ \E e \in Blocks : Push(l, e)
  \/ \E e \in Blocks : TakeOut(e)

Spec == Init /\ [][Next]_vars
===============================================================================
