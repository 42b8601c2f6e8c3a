------------------------------- MODULE FifoQueue -------------------------------
(***************************************************************************)
(* What a queue of assignment2/queue.h promises threads that share it:     *)
(* every call takes effect at once, values come out in the order in which  *)
(* they went in, and an empty queue answers EMPTY.                         *)
(***************************************************************************)
EXTENDS Sequences

CONSTANTS Threads, Values,
          EMPTY   \* the -1 that removeFromQueue gives for an empty queue

VARIABLES queue,  \* the values, oldest first
          done    \* per thread, the last call that took effect, and its value

vars == <<queue, done>>

Done(t, op, v) == done' = [done EXCEPT ![t] = [op |-> op, val |-> v]]

Init ==
  /\ queue = <<>>
  /\ done = [t \in Threads |-> [op |-> "initQueue", val |-> EMPTY]]

Add(t, v) ==
  /\ queue' = Append(queue, v)
  /\ Done(t, "addToQueue", v)

Remove(t) ==
  \/ /\ queue # <<>>
     /\ queue' = Tail(queue)
     /\ Done(t, "removeFromQueue", Head(queue))
  \/ /\ queue = <<>>
     /\ Done(t, "removeFromQueue", EMPTY)
     /\ UNCHANGED queue

Size(t) ==
  /\ Done(t, "queueSize", Len(queue))
  /\ UNCHANGED queue

Next == \E t \in Threads : Remove(t) \/ Size(t) \/ \E v \in Values : Add(t, v)

Spec == Init /\ [][Next]_vars
===============================================================================
