-------------------------------- MODULE Pipeline -------------------------------
(***************************************************************************)
(* assignment2/2_2.c: main reads numbers and feeds each to two threads;    *)
(* thread 1 and thread 2 apply function_1 and function_2, thread 3         *)
(* combines their results, pair by pair, and prints.  A barrier of the     *)
(* three paces them.  Calls on a queue take effect at once, as module      *)
(* Queue is checked to ensure.                                             *)
(***************************************************************************)
EXTENDS Integers, Sequences

CONSTANTS
  Inputs,                \* what stdin may hold: the number of every line
  function_1, function_2 \* what the workers compute, on 1 .. 100

Numbers == 1 .. 100
Workers == {1, 2}
Threads == {1, 2, 3}
EMPTY == -1   \* what removeFromQueue gives for an empty queue
STOP == -2    \* the end marker

\* The functions of util.h keep positive numbers positive, or at 0.
ASSUME PipelineAssumption ==
  /\ Inputs \subseteq Seq(Int)
  /\ function_1 \in [Numbers -> Nat]
  /\ function_2 \in [Numbers -> Nat]

VARIABLES
  input,      \* the lines of stdin
  lines,      \* how many of them main has read
  item,       \* main: val, or the end marker that it feeds instead
  ret,        \* main: its exit status
  in, out,    \* the input and output queue of every worker
  waiting,    \* the threads that have arrived at the barrier
  pc,         \* what every thread does next, main's under 0
  val,        \* val of the workers; val1 and val2 of thread 3 under 3 and 4
  printed     \* stdout

queues == <<in, out>>
vars == <<input, lines, item, ret, queues, waiting, pc, val, printed>>

func(w, v) == IF w = 1 THEN function_1[v] ELSE function_2[v]
function_3(v) == v + 10

Init ==
  /\ input \in Inputs
  /\ lines = 0
  /\ item = STOP
  /\ ret = 0
  /\ in = [w \in Workers |-> <<>>]
  /\ out = [w \in Workers |-> <<>>]
  /\ waiting = {}
  /\ pc = [t \in {0} \cup Threads |->
             IF t = 0 THEN "read" ELSE IF t = 3 THEN "barrier" ELSE "take"]
  /\ val = [t \in Threads \cup {4} |-> EMPTY]
  /\ printed = <<>>

Goes(t, step) == pc' = [pc EXCEPT ![t] = step]

\* What removeFromQueue answers, and what it leaves.
Front(queue) == IF queue = <<>> THEN EMPTY ELSE Head(queue)
Rest(queue) == IF queue = <<>> THEN queue ELSE Tail(queue)

-------------------------------------------------------------------------------
(* main *)

\* Mutant: the line that ends the input is fed as it is.
MainReadsRaw ==
  /\ pc[0] = "read"
  /\ lines < Len(input)
  /\ lines' = lines + 1
  /\ item' = input[lines + 1]
  /\ ret' = IF item' = 0 THEN 1 ELSE ret
  /\ Goes(0, "feed 1")
  /\ UNCHANGED <<input, queues, waiting, val, printed>>

MainReads ==
  /\ pc[0] = "read"
  /\ lines < Len(input)
  /\ lines' = lines + 1
  /\ LET line == input[lines + 1]
     IN  /\ item' = IF line < 1 \/ line > 100 THEN STOP ELSE line
         /\ ret' = IF line = 0 THEN 1 ELSE ret
  /\ Goes(0, "feed 1")
  /\ UNCHANGED <<input, queues, waiting, val, printed>>

\* No line is left: the loop ends and no end marker is sent.
MainMeetsEnd ==
  /\ pc[0] = "read"
  /\ lines = Len(input)
  /\ Goes(0, "join")
  /\ UNCHANGED <<input, lines, item, ret, queues, waiting, val, printed>>

\* Mutant: both workers are fed from one queue.
MainFeedsOne(w) ==
  /\ pc[0] = IF w = 1 THEN "feed 1" ELSE "feed 2"
  /\ in' = [in EXCEPT ![1] = Append(@, item)]
  /\ Goes(0, IF w = 1 THEN "feed 2" ELSE IF item = STOP THEN "join" ELSE "read")
  /\ UNCHANGED <<input, lines, item, ret, out, waiting, val, printed>>

MainFeeds(w) ==
  /\ pc[0] = IF w = 1 THEN "feed 1" ELSE "feed 2"
  /\ in' = [in EXCEPT ![w] = Append(@, item)]
  /\ Goes(0, IF w = 1 THEN "feed 2" ELSE IF item = STOP THEN "join" ELSE "read")
  /\ UNCHANGED <<input, lines, item, ret, out, waiting, val, printed>>

MainJoins ==
  /\ pc[0] = "join"
  /\ \A t \in Threads : pc[t] = "ended"
  /\ Goes(0, "returned")
  /\ UNCHANGED <<input, lines, item, ret, queues, waiting, val, printed>>

-------------------------------------------------------------------------------
(* The barrier *)

\* Where a thread goes on from the barrier.
Beyond(t) == IF t = 3 THEN "take 1" ELSE IF val[t] < 0 THEN "ended" ELSE "take"

\* Mutant: two threads are enough.
BarrierOfTwo(t) ==
  /\ pc[t] = "barrier"
  /\ LET arrived == waiting \cup {t}
     IN  \/ /\ arrived = {t}
            /\ waiting' = arrived
            /\ Goes(t, "waiting")
         \/ /\ arrived # {t}
            /\ waiting' = {}
            /\ pc' = [u \in DOMAIN pc |-> IF u \in arrived THEN Beyond(u) ELSE pc[u]]
  /\ UNCHANGED <<input, lines, item, ret, queues, val, printed>>

\* The last thread to arrive releases them all.
Arrives(t) ==
  /\ pc[t] = "barrier"
  /\ LET arrived == waiting \cup {t}
     IN  \/ /\ arrived # Threads
            /\ waiting' = arrived
            /\ Goes(t, "waiting")
         \/ /\ arrived = Threads
            /\ waiting' = {}
            /\ pc' = [u \in DOMAIN pc |-> IF u \in arrived THEN Beyond(u) ELSE pc[u]]
  /\ UNCHANGED <<input, lines, item, ret, queues, val, printed>>

-------------------------------------------------------------------------------
(* thread_1_and_2_func *)

\* An empty queue is asked again, as long as it takes.
Takes(w) ==
  /\ pc[w] = "take"
  /\ val' = [val EXCEPT ![w] = Front(in[w])]
  /\ in' = [in EXCEPT ![w] = Rest(@)]
  /\ IF val'[w] = EMPTY THEN UNCHANGED pc ELSE Goes(w, "put")
  /\ UNCHANGED <<input, lines, item, ret, out, waiting, printed>>

Puts(w) ==
  /\ pc[w] = "put"
  /\ out' = [out EXCEPT ![w] = Append(@, IF val[w] < 0 THEN val[w] ELSE func(w, val[w]))]
  /\ Goes(w, "barrier")
  /\ UNCHANGED <<input, lines, item, ret, in, waiting, val, printed>>

-------------------------------------------------------------------------------
(* thread3_func *)

\* Mutant: the end marker from the first queue leaves the second one alone.
TakesFirstOnly ==
  /\ pc[3] = "take 1"
  /\ val' = [val EXCEPT ![3] = Front(out[1])]
  /\ out' = [out EXCEPT ![1] = Rest(@)]
  /\ Goes(3, IF val'[3] < 0 THEN "ended" ELSE "take 2")
  /\ UNCHANGED <<input, lines, item, ret, in, waiting, printed>>

TakesFirst ==
  /\ pc[3] = "take 1"
  /\ val' = [val EXCEPT ![3] = Front(out[1])]
  /\ out' = [out EXCEPT ![1] = Rest(@)]
  /\ Goes(3, "take 2")
  /\ UNCHANGED <<input, lines, item, ret, in, waiting, printed>>

TakesSecond ==
  /\ pc[3] = "take 2"
  /\ val' = [val EXCEPT ![4] = Front(out[2])]
  /\ out' = [out EXCEPT ![2] = Rest(@)]
  /\ Goes(3, IF val[3] < 0 \/ val'[4] < 0 THEN "ended" ELSE "print")
  /\ UNCHANGED <<input, lines, item, ret, in, waiting, printed>>

Prints ==
  /\ pc[3] = "print"
  /\ printed' = Append(printed, function_3(val[3] * val[4]))
  /\ Goes(3, "barrier")
  /\ UNCHANGED <<input, lines, item, ret, queues, waiting, val>>

-------------------------------------------------------------------------------
Main == MainReads \/ MainMeetsEnd \/ (\E w \in Workers : MainFeeds(w)) \/ MainJoins
Worker(w) == Takes(w) \/ Puts(w) \/ Arrives(w)
Combiner == Arrives(3) \/ TakesFirst \/ TakesSecond \/ Prints

\* After main has returned nothing happens.
Terminated ==
  /\ pc[0] = "returned"
  /\ UNCHANGED vars

Next == Main \/ Combiner \/ Terminated \/ \E w \in Workers : Worker(w)

Spec == Init /\ [][Next]_vars

\* The scheduler gives every thread its turn.
FairSpec ==
  /\ Spec
  /\ WF_vars(Main)
  /\ \A w \in Workers : WF_vars(Worker(w))
  /\ WF_vars(Combiner)

-------------------------------------------------------------------------------
(* Properties *)

TypeOK ==
  /\ input \in Inputs
  /\ lines \in 0 .. Len(input)
  /\ item \in Numbers \cup {STOP}
  /\ ret \in {0, 1}
  /\ in \in [Workers -> Seq(Numbers \cup {STOP})]
  /\ out \in [Workers -> Seq(Nat \cup {STOP})]
  /\ waiting = {t \in Threads : pc[t] = "waiting"} /\ waiting # Threads
  /\ pc[0] \in {"read", "feed 1", "feed 2", "join", "returned"}
  /\ \A w \in Workers : pc[w] \in {"take", "put", "barrier", "waiting", "ended"}
  /\ pc[3] \in {"barrier", "waiting", "take 1", "take 2", "print", "ended"}
  /\ \A w \in Workers : val[w] \in Numbers \cup {EMPTY, STOP}
  /\ \A j \in {3, 4} : val[j] \in Nat \cup {EMPTY, STOP}
  /\ printed \in Seq(Nat)

\* The numbers that stand before the first line that is none, as far as read.
Accepted(k) == \A j \in 1 .. k : input[j] \in Numbers
Result(k) == function_3(function_1[input[k]] * function_2[input[k]])

\* What is printed is the results of the lines, in their order, each once and
\* of one line's two halves; and thread 3 never finds an output queue empty,
\* which it would take for the end.
ResultsInOrder ==
  /\ Len(printed) <= lines
  /\ Accepted(Len(printed))
  /\ \A k \in 1 .. Len(printed) : printed[k] = Result(k)
  /\ pc[3] = "take 1" => out[1] # <<>>
  /\ pc[3] \in {"take 1", "take 2"} => out[2] # <<>>

\* When main returns every number before the line that ended the input has
\* been printed, the exit status tells whether that line was 0, no value is
\* left in a queue, which main frees without looking, and nobody waits at the
\* barrier, which main destroys.
CompleteOnReturn ==
  pc[0] = "returned" =>
    /\ lines = Len(printed) + 1
    /\ input[lines] \notin Numbers
    /\ ret = (IF input[lines] = 0 THEN 1 ELSE 0)
    /\ \A w \in Workers : in[w] = <<>> /\ out[w] = <<>>
    /\ waiting = {}

\* Once main has read a line that ends the input, it returns.
EndsAfterStop == (lines > 0 /\ item = STOP) ~> pc[0] = "returned"
===============================================================================
