--------------------------------- MODULE Queue ---------------------------------
(***************************************************************************)
(* assignment2/queue.c: a linked list with a front and a back pointer,     *)
(* whose additions and removals hold the mutex and whose queueSize does    *)
(* not.  A step is what another thread can tell apart from the next: the   *)
(* locked calls are cut where queueSize, or a second caller if the mutex   *)
(* were not there, could see the list half changed.                        *)
(***************************************************************************)
EXTENDS Naturals, Sequences, FiniteSets, Functions

CONSTANTS
  Adders, Removers, Counters,  \* the threads that call addToQueue,
                               \* removeFromQueue and queueSize
  Values,
  Nodes,                       \* the memory malloc gives nodes from
  NULL,
  Junk,                        \* what memory holds before and after its use
  EMPTY                        \* -1

Threads == Adders \cup Removers \cup Counters

ASSUME QueueAssumption ==
  /\ IsFiniteSet(Nodes)
  /\ NULL \notin Nodes /\ NULL \notin Threads
  /\ Junk \notin Nodes \cup {NULL} \cup Values
  /\ EMPTY \notin Values

VARIABLES
  front, back,  \* the fields of struct Queue
  mutex,        \* its holder, or NULL
  next, val,    \* the fields of every struct Node
  allocated,    \* the nodes that malloc gave and free has not got back
  pc,           \* per thread, what it does next
  arg,          \* per thread, the val of addToQueue
  node,         \* per thread, the local pointer to a node
  i,            \* per thread, the count of queueSize
  done          \* per thread, the last call that returned, and its value

heap == <<next, val, allocated>>
locals == <<arg, node, i>>
vars == <<front, back, mutex, heap, pc, locals, done>>

Goes(t, step) == pc' = [pc EXCEPT ![t] = step]
Returns(t, op, v) ==
  /\ Goes(t, "idle")
  /\ arg' = [arg EXCEPT ![t] = EMPTY]
  /\ node' = [node EXCEPT ![t] = NULL]
  /\ i' = [i EXCEPT ![t] = 0]
  /\ done' = [done EXCEPT ![t] = [op |-> op, val |-> v]]

Init ==
  /\ front = NULL
  /\ back = NULL
  /\ mutex = NULL
  /\ next = [n \in Nodes |-> Junk]
  /\ val = [n \in Nodes |-> Junk]
  /\ allocated = {}
  /\ pc = [t \in Threads |-> "idle"]
  /\ arg = [t \in Threads |-> EMPTY]
  /\ node = [t \in Threads |-> NULL]
  /\ i = [t \in Threads |-> 0]
  /\ done = [t \in Threads |-> [op |-> "initQueue", val |-> EMPTY]]

Locks(t) ==
  /\ mutex = NULL
  /\ mutex' = t

-------------------------------------------------------------------------------
(* addToQueue *)

\* Mutant: the mutex is not taken.
AddBeginsUnlocked(t, v) ==
  /\ pc[t] = "idle"
  /\ Cardinality(allocated) + Cardinality({u \in Threads : pc[u] = "add"}) < Cardinality(Nodes)
  /\ arg' = [arg EXCEPT ![t] = v]
  /\ Goes(t, "add")
  /\ UNCHANGED <<front, back, mutex, heap, node, i, done>>

\* malloc is assumed to succeed: the assertion ends the program otherwise.
\* The size of Nodes bounds the length of the queue.
AddBegins(t, v) ==
  /\ pc[t] = "idle"
  /\ allocated # Nodes
  /\ Locks(t)
  /\ arg' = [arg EXCEPT ![t] = v]
  /\ Goes(t, "add")
  /\ UNCHANGED <<front, back, heap, node, i, done>>

\* Mutant: next of the new node is left as malloc gave it.
AddAllocatesUncleared(t) ==
  /\ pc[t] = "add"
  /\ \E n \in Nodes \ allocated :
       /\ allocated' = allocated \cup {n}
       /\ val' = [val EXCEPT ![n] = arg[t]]
       /\ node' = [node EXCEPT ![t] = n]
  /\ Goes(t, "link")
  /\ UNCHANGED <<front, back, mutex, next, arg, i, done>>

AddAllocates(t) ==
  /\ pc[t] = "add"
  /\ \E n \in Nodes \ allocated :
       /\ allocated' = allocated \cup {n}
       /\ val' = [val EXCEPT ![n] = arg[t]]
       /\ next' = [next EXCEPT ![n] = NULL]
       /\ node' = [node EXCEPT ![t] = n]
  /\ Goes(t, "link")
  /\ UNCHANGED <<front, back, mutex, arg, i, done>>

AddLinks(t) ==
  /\ pc[t] = "link"
  /\ \/ /\ back # NULL
        /\ next' = [next EXCEPT ![back] = node[t]]
        /\ UNCHANGED front
     \/ /\ back = NULL
        /\ front' = node[t]
        /\ UNCHANGED next
  /\ Goes(t, "back")
  /\ UNCHANGED <<back, mutex, val, allocated, locals, done>>

AddReturns(t) ==
  /\ pc[t] = "back"
  /\ back' = node[t]
  /\ mutex' = NULL
  /\ Returns(t, "addToQueue", arg[t])
  /\ UNCHANGED <<front, heap>>

-------------------------------------------------------------------------------
(* removeFromQueue *)

RemoveBegins(t) ==
  /\ pc[t] = "idle"
  /\ Locks(t)
  /\ Goes(t, "remove")
  /\ UNCHANGED <<front, back, heap, locals, done>>

RemoveFindsNothing(t) ==
  /\ pc[t] = "remove"
  /\ front = NULL
  /\ mutex' = NULL
  /\ Returns(t, "removeFromQueue", EMPTY)
  /\ UNCHANGED <<front, back, heap>>

\* Mutant: back keeps pointing to the last node removed.
RemoveTakesFrontOnly(t) ==
  /\ pc[t] = "remove"
  /\ front # NULL
  /\ node' = [node EXCEPT ![t] = front]
  /\ front' = next[front]
  /\ Goes(t, "free")
  /\ UNCHANGED <<back, mutex, heap, arg, i, done>>

RemoveTakes(t) ==
  /\ pc[t] = "remove"
  /\ front # NULL
  /\ node' = [node EXCEPT ![t] = front]
  /\ front' = next[front]
  /\ back' = IF next[front] = NULL THEN NULL ELSE back
  /\ Goes(t, "free")
  /\ UNCHANGED <<mutex, heap, arg, i, done>>

RemoveReturns(t) ==
  /\ pc[t] = "free"
  /\ Returns(t, "removeFromQueue", val[node[t]])
  /\ allocated' = allocated \ {node[t]}
  /\ next' = [next EXCEPT ![node[t]] = Junk]
  /\ val' = [val EXCEPT ![node[t]] = Junk]
  /\ mutex' = NULL
  /\ UNCHANGED <<front, back>>

-------------------------------------------------------------------------------
(* queueSize *)

SizeBegins(t) ==
  /\ pc[t] = "idle"
  /\ \/ /\ front = NULL
        /\ Returns(t, "queueSize", 0)
     \/ /\ front # NULL
        /\ node' = [node EXCEPT ![t] = front]
        /\ Goes(t, "count")
        /\ UNCHANGED <<arg, i, done>>
  /\ UNCHANGED <<front, back, mutex, heap>>

\* An iteration of the loop, without the mutex.  A node that another thread has
\* freed is followed like any other, to whatever it holds by then; from junk
\* the model follows no further, and the call never returns.
SizeCounts(t) ==
  /\ pc[t] = "count"
  /\ node[t] \in Nodes
  /\ \/ /\ next[node[t]] = NULL
        /\ Returns(t, "queueSize", i[t] + 1)
     \/ /\ next[node[t]] # NULL
        /\ node' = [node EXCEPT ![t] = next[node[t]]]
        /\ i' = [i EXCEPT ![t] = @ + 1]
        /\ UNCHANGED <<pc, arg, done>>
  /\ UNCHANGED <<front, back, mutex, heap>>

-------------------------------------------------------------------------------
Next ==
  \/ \E t \in Adders :
       \/ \E v \in Values : AddBegins(t, v)
       \/ AddAllocates(t)
       \/ AddLinks(t)
       \/ AddReturns(t)
  \/ \E t \in Removers :
       \/ RemoveBegins(t)
       \/ RemoveFindsNothing(t)
       \/ RemoveTakes(t)
       \/ RemoveReturns(t)
  \/ \E t \in Counters : SizeBegins(t) \/ SizeCounts(t)

Spec == Init /\ [][Next]_vars

-------------------------------------------------------------------------------
(* Properties *)

\* Fields and locals hold nodes, NULL or values of theirs; the pointers by which
\* additions and removals walk the list, front and back, are never junk.  The
\* local of queueSize may be, when a node is freed under it.
TypeOK ==
  /\ front \in Nodes \cup {NULL}
  /\ back \in Nodes \cup {NULL}
  /\ mutex \in Threads \cup {NULL}
  /\ next \in [Nodes -> Nodes \cup {NULL, Junk}]
  /\ val \in [Nodes -> Values \cup {Junk}]
  /\ allocated \subseteq Nodes
  /\ pc \in [Threads -> {"idle", "add", "link", "back", "remove", "free", "count"}]
  /\ arg \in [Threads -> Values \cup {EMPTY}]
  /\ node \in [Threads -> Nodes \cup {NULL, Junk}]
  /\ i \in [Threads -> Nat]

\* The node k steps behind the front; NULL behind the last one and from a node
\* that no longer is one.
Follow(n) == IF n \in allocated THEN next[n] ELSE NULL
Behind(k) ==
  LET at[j \in 0 .. k] == IF j = 0 THEN front ELSE Follow(at[j - 1]) IN at[k]
Length == Cardinality({k \in 0 .. Cardinality(Nodes) : Behind(k) \in Nodes})
Chain == [k \in 1 .. Length |-> Behind(k - 1)]

\* The list is whole: no node twice, every node in memory, back at its end
\* (but for the node being added); and every node that was allocated is in it
\* or in the hands of the one thread in a call: none leaks, none is freed
\* twice.
ListWhole ==
  LET inHand == {node[t] : t \in {u \in Threads : pc[u] \in {"link", "free"}}}
      adding == \E t \in Threads : pc[t] = "back"
  IN  /\ Length <= Cardinality(Nodes)
      /\ IsInjective(Chain)
      /\ Range(Chain) \cap inHand = {}
      /\ allocated = Range(Chain) \cup inHand
      /\ ~ adding => back = IF Length = 0 THEN NULL ELSE Chain[Length]

\* The calls take effect one at a time, in an order that a FIFO queue allows:
\* an addition when its node is linked, a removal when front moves on, and
\* queueSize when it reads the NULL that ends its loop.
InEffect(t) ==
  CASE pc[t] = "back" -> [op |-> "addToQueue", val |-> arg[t]]
    [] pc[t] = "free" -> [op |-> "removeFromQueue", val |-> val[node[t]]]
    [] OTHER -> done[t]
Abstract == INSTANCE FifoQueue
  WITH queue <- [k \in 1 .. Length |-> val[Chain[k]]],
       done <- [t \in Threads |-> InEffect(t)]
ImplementsFifoQueue == Abstract!Spec
===============================================================================
