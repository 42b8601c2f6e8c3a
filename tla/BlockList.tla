------------------------------- MODULE BlockList -------------------------------
(***************************************************************************)
(* The circular lists of assignment4/library.c, whose links live in the    *)
(* first bytes of the free blocks.  A block out of the lists belongs to a  *)
(* client, who writes what he likes over the links it had.                 *)
(* The names differ from those of BuddyAllocator and BuddyTree, so that    *)
(* one module can run all three.                                           *)
(***************************************************************************)
EXTENDS Naturals, FiniteSets, SequencesExt

CONSTANTS
  Lists,    \* the list heads, levels[0] and on
  Blocks,   \* the blocks, by pointer
  Junk,     \* bytes that are no pointer to a node
  NoBlock   \* NULL

ASSUME NodesAssumption ==
  /\ IsFiniteSet(Lists \cup Blocks)
  /\ Lists \cap Blocks = {}
  /\ Junk \notin Lists \cup Blocks
  /\ NoBlock \notin Lists \cup Blocks

VARIABLES
  next, prev,   \* the links of every node
  taken,        \* the blocks out of the lists
  call          \* the last call, its list, and the block given or returned

listVars == <<next, prev, taken, call>>

Nodes == Lists \cup Blocks

ListsEmpty ==
  /\ next = [n \in Nodes |-> IF n \in Lists THEN n ELSE Junk]
  /\ prev = [n \in Nodes |-> IF n \in Lists THEN n ELSE Junk]
  /\ taken = Blocks
  /\ call = [op |-> "none", list |-> NoBlock, block |-> NoBlock]

Called(op, l, e) == call' = [op |-> op, list |-> l, block |-> e]

\* Mutant: the entry goes to the front.
PushFront(l, e) ==
  /\ next' = [next EXCEPT ![e] = next[l], ![l] = e]
  /\ prev' = [prev EXCEPT ![e] = l, ![next[l]] = e]

Linked(l, e) ==
  /\ prev' = [prev EXCEPT ![e] = prev[l], ![l] = e]
  /\ next' = [next EXCEPT ![e] = l, ![prev[l]] = e]

\* The block freed, or split off, joins a list.
list_push(l, e) ==
  /\ e \in taken
  /\ Linked(l, e)
  /\ taken' = taken \ {e}
  /\ Called("list_push", l, e)

\* Mutant: only one direction is unlinked.
BypassedHalf(e) ==
  /\ next' = [next EXCEPT ![prev[e]] = next[e]]
  /\ UNCHANGED prev

\* The neighbours are joined; the links of e stay as they were.
Bypassed(e) ==
  /\ next' = [next EXCEPT ![prev[e]] = next[e]]
  /\ prev' = [prev EXCEPT ![next[e]] = prev[e]]

list_remove(e) ==
  /\ e \in Blocks \ taken
  /\ Bypassed(e)
  /\ taken' = taken \cup {e}
  /\ Called("list_remove", NoBlock, e)

\* Mutant: the empty list is not recognised.
PopsUnchecked(l) ==
  /\ Bypassed(prev[l])
  /\ Called("list_pop", l, prev[l])
  /\ taken' = taken \cup {prev[l]}

list_pop(l) ==
  /\ prev[l] # l
  /\ Bypassed(prev[l])
  /\ Called("list_pop", l, prev[l])
  /\ taken' = taken \cup {prev[l]}

PopsNothing(l) ==
  /\ prev[l] = l
  /\ Called("list_pop", l, NoBlock)
  /\ UNCHANGED <<next, prev, taken>>

\* A client writes into its block.
Scribble(e) ==
  /\ e \in taken
  /\ next' = [next EXCEPT ![e] = Junk]
  /\ prev' = [prev EXCEPT ![e] = Junk]
  /\ UNCHANGED <<taken, call>>

ListCalls ==
  \/ \E l \in Lists :
       \/ list_pop(l)
       \/ PopsNothing(l)
       \/ \E e \in Blocks : list_push(l, e)
  \/ \E e \in Blocks : list_remove(e) \/ Scribble(e)

ListSpec == ListsEmpty /\ [][ListCalls]_listVars

-------------------------------------------------------------------------------
(* Following the links *)

Follow(link, n) == IF n \in Nodes THEN link[n] ELSE Junk

\* The node n steps along the links from l, Junk once they leave the nodes.
Steps(link, l) ==
  LET node[n \in 0 .. Cardinality(Nodes)] ==
        IF n = 0 THEN l ELSE Follow(link, node[n - 1])
  IN  node

\* How many blocks a loop from l meets before it is back at l; all of them and
\* one more when it never is.
LoopLength(link, l) ==
  LET node == Steps(link, l)
      back == {n \in 1 .. Cardinality(Nodes) : node[n] = l}
  IN  IF back = {} THEN Cardinality(Nodes)
      ELSE (CHOOSE n \in back : \A m \in back : n <= m) - 1

Loop(link, l) ==
  LET node == Steps(link, l) IN [n \in 1 .. LoopLength(link, l) |-> node[n]]
Forward(l) == Loop(next, l)
Backward(l) == Loop(prev, l)

\* The loop follows prev from the head until it is back.
block_is_in_free_list(l, e) == e \in ToSet(Backward(l))

-------------------------------------------------------------------------------
(* Properties *)

\* Links lead to nodes or are junk.
LinksTyped ==
  /\ next \in [Nodes -> Nodes \cup {Junk}]
  /\ prev \in [Nodes -> Nodes \cup {Junk}]
  /\ taken \subseteq Blocks
  /\ call \in [op : {"none", "list_push", "list_remove", "list_pop"},
                list : Lists \cup {NoBlock}, block : Blocks \cup {NoBlock}]

BothWays ==
  \A l \in Lists :
    LET forward == Forward(l)
    IN  /\ Reverse(forward) = Backward(l)
        /\ ToSet(forward) \subseteq Blocks \ taken

InOneList ==
  \A e \in Blocks \ taken :
    \E l \in Lists : \A k \in Lists : block_is_in_free_list(k, e) <=> k = l

\* Every list can be walked in both directions, back to its head, over the
\* same blocks in opposite orders, and no link leads into a block that a
\* client may have written: list_remove goes to both neighbours unseen.  Every
\* other block is in one list: none is lost, none is handed out twice.
ListsSound == BothWays /\ InOneList

\* The links implement the sequences of FreeLists.
lists == [l \in Lists |-> Forward(l)]
AsSequences == INSTANCE FreeLists WITH lists <- lists, NULL <- NoBlock
ImplementsFreeLists == AsSequences!Spec

\* library.c:88, "Remove and return the first entry in the list": list_pop
\* hands out the entry that the links reach first, the oldest.
PopTakesFirst == [][\A l \in Lists : list_pop(l) => call'.block = Head(Forward(l))]_listVars
===============================================================================
