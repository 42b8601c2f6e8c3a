----------------------------- MODULE PipelineProofs ----------------------------
(***************************************************************************)
(* What holds of Pipeline for every set of inputs and every pair of        *)
(* functions the workers may compute.                                      *)
(***************************************************************************)
EXTENDS Pipeline, SequenceTheorems, TLAPS

-------------------------------------------------------------------------------
(* The inductive invariant *)

\* What main feeds for line k, and what worker w answers to it.
Item(k) == IF input[k] \in Numbers THEN input[k] ELSE STOP
Answer(w, k) == IF Item(k) = STOP THEN STOP ELSE func(w, input[k])

\* How many items main has fed to worker w.
Feeding(w) == IF w = 1 THEN {"feed 1"} ELSE {"feed 1", "feed 2"}
FedTo(w) == IF pc[0] \in Feeding(w) THEN lines - 1 ELSE lines

\* How often the barrier has let the threads through.  Between two of its
\* openings thread 3 combines the answers of one round and the workers compute
\* those of the next.
Round == Len(printed) + (IF pc[3] \in {"barrier", "waiting"} THEN 0 ELSE 1)

\* How many items worker w has taken, how many answers it has put, and how many
\* of those thread 3 has taken.
Taken(w) == Round + (IF pc[w] \in {"put", "barrier", "waiting"} THEN 1 ELSE 0)
Put(w) == Round + (IF pc[w] \in {"barrier", "waiting"} THEN 1 ELSE 0)
Holding(w) == IF w = 1 THEN {"take 2", "print", "ended"} ELSE {"print", "ended"}
Combined(w) == Len(printed) + (IF pc[3] \in Holding(w) THEN 1 ELSE 0)

\* Main stops at the first line that is no number, and remembers it.
MainSound ==
  /\ Accepted(lines - 1)
  /\ lines > 0 => item = Item(lines)
  /\ ret = 1 <=> (lines > 0 /\ input[lines] = 0)
  /\ pc[0] = "read" => lines = 0 \/ input[lines] \in Numbers
  /\ pc[0] \in {"feed 1", "feed 2"} => lines > 0
  /\ pc[0] = "returned" => \A t \in Threads : pc[t] = "ended"

\* The input queue of a worker holds the items it has not taken, its output
\* queue the answers thread 3 has not taken, and it ends with the end marker.
WorkerSound(w) ==
  /\ Len(in[w]) = FedTo(w) - Taken(w)
  /\ \A i \in 1 .. Len(in[w]) : in[w][i] = Item(Taken(w) + i)
  /\ pc[w] \in {"put", "barrier", "waiting"} => val[w] = Item(Taken(w))
  /\ pc[w] = "ended" <=> (Round > 0 /\ Item(Round) = STOP)
  /\ Len(out[w]) = Put(w) - Combined(w)
  /\ \A i \in 1 .. Len(out[w]) : out[w][i] = Answer(w, Combined(w) + i)

\* Thread 3 holds both answers of one round, and prints what they combine to.
CombinerSound ==
  /\ pc[3] \in {"take 2", "print", "ended"} => val[3] = Answer(1, Round)
  /\ pc[3] \in {"print", "ended"} => val[4] = Answer(2, Round)
  /\ pc[3] = "print" => Item(Round) # STOP
  /\ pc[3] = "ended" => Item(Round) = STOP
  /\ Accepted(Len(printed))
  /\ \A k \in 1 .. Len(printed) : printed[k] = Result(k)

Places ==
  {"read", "feed 1", "feed 2", "join", "returned", "take", "put", "barrier", "waiting",
   "ended", "take 1", "take 2", "print"}

Shapes ==
  /\ pc \in [{0} \cup Threads -> Places]
  /\ DOMAIN val = Threads \cup {4}
  /\ input \in Seq(Int)

IInv == TypeOK /\ Shapes /\ MainSound /\ (\A w \in Workers : WorkerSound(w)) /\ CombinerSound

-------------------------------------------------------------------------------
(* Queues *)

\* addToQueue at the end of a queue.
LEMMA Appended ==
  ASSUME NEW S, NEW q \in Seq(S), NEW e \in S
  PROVE  /\ Append(q, e) \in Seq(S)
         /\ Len(Append(q, e)) = Len(q) + 1
         /\ Append(q, e)[Len(q) + 1] = e
         /\ \A i \in 1 .. Len(q) : Append(q, e)[i] = q[i]
BY AppendProperties

\* removeFromQueue of a queue that holds something, and of one that does not.
LEMMA Removed ==
  ASSUME NEW S, NEW q \in Seq(S)
  PROVE  /\ Rest(q) \in Seq(S)
         /\ Len(q) \in Nat
         /\ q = <<>> <=> Len(q) = 0
         /\ q # <<>> => /\ Front(q) = q[1]
                        /\ Front(q) \in S
                        /\ Len(Rest(q)) = Len(q) - 1
                        /\ \A i \in 1 .. Len(q) - 1 : Rest(q)[i] = q[i + 1]
         /\ q = <<>> => Front(q) = EMPTY /\ Rest(q) = q
<1>1. Len(q) \in Nat /\ (q = <<>> <=> Len(q) = 0)
  BY EmptySeq, LenProperties
<1>2. CASE q = <<>>
  BY <1>1, <1>2 DEF Front, Rest
<1>3. CASE q # <<>>
  <2>1. Head(q) = q[1] /\ Head(q) \in S /\ Tail(q) \in Seq(S) /\ Len(Tail(q)) = Len(q) - 1
        /\ \A i \in 1 .. Len(Tail(q)) : Tail(q)[i] = q[i + 1]
    BY <1>3, HeadTailProperties
  <2> QED
    BY <1>1, <1>3, <2>1 DEF Front, Rest
<1> QED
  BY <1>2, <1>3


-------------------------------------------------------------------------------
(* What a step leaves alone *)

\* A thread goes on; the others stand where they stood.
LEMMA OneGoes ==
  ASSUME pc \in [{0} \cup Threads -> Places], NEW t \in {0} \cup Threads, NEW step \in Places,
         Goes(t, step)
  PROVE  /\ pc' \in [{0} \cup Threads -> Places]
         /\ pc'[t] = step
         /\ \A u \in ({0} \cup Threads) \ {t} : pc'[u] = pc[u]
BY DEF Goes

LEMMA MainGoes ==
  ASSUME pc \in [{0} \cup Threads -> Places], NEW step \in Places, Goes(0, step)
  PROVE  /\ pc' \in [{0} \cup Threads -> Places]
         /\ pc'[0] = step
         /\ \A t \in Threads : pc'[t] = pc[t]
BY OneGoes DEF Threads

LEMMA ThreadGoes ==
  ASSUME pc \in [{0} \cup Threads -> Places], NEW t \in Threads, NEW step \in Places,
         Goes(t, step)
  PROVE  /\ pc' \in [{0} \cup Threads -> Places]
         /\ pc'[t] = step
         /\ pc'[0] = pc[0]
         /\ \A u \in Threads \ {t} : pc'[u] = pc[u]
BY OneGoes DEF Threads

LEMMA ItemTyped ==
  ASSUME NEW k
  PROVE  Item(k) \in Numbers \cup {STOP}
BY DEF Item

\* No item looks like an empty queue.
LEMMA ItemIsSome ==
  ASSUME NEW x \in Numbers \cup {STOP}
  PROVE  x # EMPTY
BY DEF Numbers, STOP, EMPTY

\* A worker answers a number with a natural number and the end marker with
\* itself.
LEMMA AnswerTyped ==
  ASSUME NEW k, NEW w \in Workers
  PROVE  /\ Answer(w, k) \in Nat \cup {STOP}
         /\ Answer(w, k) < 0 <=> Item(k) = STOP
         /\ Item(k) # STOP => /\ input[k] \in Numbers
                              /\ Item(k) = input[k]
                              /\ Answer(w, k) = func(w, input[k])
<1>1. CASE Item(k) = STOP
  BY <1>1 DEF Answer, STOP
<1>2. CASE Item(k) # STOP
  <2>1. input[k] \in Numbers /\ Item(k) = input[k]
    BY <1>2 DEF Item
  <2>2. func(w, input[k]) \in Nat
    BY <2>1, PipelineAssumption DEF func
  <2>3. Answer(w, k) = func(w, input[k])
    BY <1>2 DEF Answer
  <2> QED
    BY <1>2, <2>1, <2>2, <2>3
<1> QED
  BY <1>1, <1>2

\* The counts are integers.
LEMMA Counts ==
  ASSUME TypeOK, NEW w \in Workers
  PROVE  /\ Round \in Nat
         /\ Taken(w) \in Nat
         /\ Put(w) \in Nat
         /\ Combined(w) \in Nat
         /\ FedTo(w) \in Int
         /\ lines \in Nat
         /\ Len(printed) \in Nat
         /\ Len(in[w]) \in Nat
         /\ Len(out[w]) \in Nat
<1>1. /\ printed \in Seq(Nat)
      /\ in[w] \in Seq(Numbers \cup {STOP})
      /\ out[w] \in Seq(Nat \cup {STOP})
      /\ input \in Inputs
      /\ lines \in 0 .. Len(input)
  BY DEF TypeOK
<1>3. Len(printed) \in Nat /\ Len(in[w]) \in Nat /\ Len(out[w]) \in Nat
  BY <1>1, LenProperties
<1>2. lines \in Nat
  BY <1>1, LenProperties
<1>4. Round \in Nat
  BY <1>3 DEF Round
<1>5. Taken(w) \in Nat /\ Put(w) \in Nat
  BY <1>4 DEF Taken, Put
<1>6. Combined(w) \in Nat
  BY <1>3 DEF Combined, Workers
<1>7. FedTo(w) \in Int
  BY <1>2 DEF FedTo, Feeding
<1> QED
  BY <1>2, <1>3, <1>4, <1>5, <1>6, <1>7

\* What main knows is not touched by the threads, and it returns after them.
LEMMA MainFrame ==
  ASSUME MainSound, UNCHANGED <<input, lines, item, ret>>, pc'[0] = pc[0],
         pc[0] # "returned"
  PROVE  MainSound'
BY DEF MainSound, Accepted, Item

\* What is known of a worker does not change when its queues and its place do
\* not, and the others do not pass the barrier.
LEMMA WorkerFrame ==
  ASSUME NEW w \in Workers, WorkerSound(w),
         input' = input, in'[w] = in[w], out'[w] = out[w], pc'[w] = pc[w], val'[w] = val[w],
         Round' = Round, Combined(w)' = Combined(w), FedTo(w)' = FedTo(w)
  PROVE  WorkerSound(w)'
BY DEF WorkerSound, Taken, Put, Item, Answer, func

LEMMA CombinerFrame ==
  ASSUME CombinerSound, input' = input, printed' = printed, pc'[3] = pc[3],
         val'[3] = val[3], val'[4] = val[4]
  PROVE  CombinerSound'
BY DEF CombinerSound, Round, Item, Answer, func, Accepted, Result

LEMMA InitSound == Init => IInv
<1> SUFFICES ASSUME Init PROVE IInv
  OBVIOUS
<1>1. input \in Seq(Int) /\ Len(input) \in Nat
  BY PipelineAssumption, LenProperties DEF Init
<1>2. \A S : <<>> \in Seq(S) /\ Len(<<>>) = 0
  BY EmptySeq
<1>3. TypeOK
  <2>1. in \in [Workers -> Seq(Numbers \cup {STOP})] /\ out \in [Workers -> Seq(Nat \cup {STOP})]
        /\ printed \in Seq(Nat)
    BY <1>2 DEF Init
  <2>2. waiting = {t \in Threads : pc[t] = "waiting"} /\ waiting # Threads
    BY DEF Init, Threads
  <2> QED
    BY <1>1, <2>1, <2>2 DEF Init, TypeOK, Threads, Workers
<1>4. Shapes
  BY <1>1 DEF Init, Shapes, Threads, Places
<1>5. MainSound
  BY DEF Init, MainSound, Accepted, Threads
<1>6. ASSUME NEW w \in Workers PROVE WorkerSound(w)
  <2>1. Len(in[w]) = 0 /\ Len(out[w]) = 0 /\ pc[w] = "take" /\ Round = 0
    BY <1>2 DEF Init, Round, Threads, Workers
  <2>2. FedTo(w) = 0 /\ Taken(w) = 0 /\ Put(w) = 0 /\ Combined(w) = 0
    BY <1>2, <2>1 DEF Init, FedTo, Feeding, Taken, Put, Combined, Holding, Threads, Workers
  <2> QED
    BY <2>1, <2>2 DEF WorkerSound
<1>7. CombinerSound
  BY <1>2 DEF Init, CombinerSound, Accepted, Threads
<1> QED
  BY <1>3, <1>4, <1>5, <1>6, <1>7 DEF IInv

-------------------------------------------------------------------------------
(* main *)

LEMMA MainReadsSound == IInv /\ MainReads => IInv'
<1> SUFFICES ASSUME IInv, MainReads PROVE IInv'
  OBVIOUS
<1> USE DEF IInv
<1>1. /\ pc' \in [{0} \cup Threads -> Places]
      /\ pc'[0] = "feed 1"
      /\ \A t \in Threads : pc'[t] = pc[t]
  <2>1. pc \in [{0} \cup Threads -> Places] /\ Goes(0, "feed 1") /\ "feed 1" \in Places
    BY DEF MainReads, Shapes, Places
  <2> QED
    BY <2>1, MainGoes
<1>2. /\ lines \in Nat /\ lines' = lines + 1 /\ lines' \in 1 .. Len(input)
      /\ item' = Item(lines') /\ ret' = IF input[lines'] = 0 THEN 1 ELSE ret
  <2>1. Len(input) \in Nat /\ lines \in 0 .. Len(input) /\ lines' = lines + 1 /\ lines < Len(input)
    BY LenProperties DEF MainReads, TypeOK, Shapes
  <2>2. input[lines'] \in Int
    BY <2>1, ElementOfSeq DEF Shapes
  <2>3. item' = IF input[lines'] < 1 \/ input[lines'] > 100 THEN STOP ELSE input[lines']
    BY <2>1 DEF MainReads
  <2>4. item' = Item(lines')
    BY <2>2, <2>3 DEF Item, Numbers
  <2>5. ret' = IF input[lines'] = 0 THEN 1 ELSE ret
    BY <2>1 DEF MainReads
  <2>6. lines \in Nat /\ lines' \in 1 .. Len(input)
    BY <2>1
  <2> QED
    BY <2>1, <2>4, <2>5, <2>6
<1>3. UNCHANGED <<input, queues, waiting, val, printed>> /\ pc[0] = "read"
  BY DEF MainReads
<1>4. TypeOK'
  <2>1. item' \in Numbers \cup {STOP}
    BY <1>2, ItemTyped
  <2>2. {t \in Threads : pc'[t] = "waiting"} = {t \in Threads : pc[t] = "waiting"}
    BY <1>1
  <2>3. lines' \in 0 .. Len(input')
    BY <1>2, <1>3
  <2>4. ret' \in {0, 1}
    <3>1. ret \in {0, 1}
      BY DEF TypeOK
    <3> QED
      BY <1>2, <3>1
  <2> QED
    BY <1>1, <1>3, <2>1, <2>2, <2>3, <2>4 DEF TypeOK, queues, Threads, Workers
<1>5. Shapes'
  BY <1>1, <1>3 DEF Shapes
<1>6. MainSound'
  <2>1. \A j \in 1 .. lines : input[j] \in Numbers
    BY <1>2, <1>3 DEF MainSound, Accepted
  <2>2. ret = 0
    <3>1. lines > 0 => input[lines] # 0
      <4>1. lines > 0 => input[lines] \in Numbers
        BY <1>2, <2>1
      <4> QED
        BY <4>1 DEF Numbers
    <3> QED
      BY <3>1 DEF MainSound, TypeOK
  <2>3. Accepted(lines - 1)'
    BY <1>2, <1>3, <2>1 DEF Accepted
  <2>4. item' = Item(lines)'
    BY <1>2, <1>3 DEF Item
  <2>5. lines' > 0 /\ (ret' = 1 <=> input'[lines'] = 0)
    BY <1>2, <1>3, <2>2
  <2> QED
    BY <1>1, <1>2, <1>3, <2>3, <2>4, <2>5 DEF MainSound
<1>7. ASSUME NEW w \in Workers PROVE WorkerSound(w)'
  <2>1. pc'[w] = pc[w] /\ pc'[3] = pc[3]
    BY <1>1 DEF Workers, Threads
  <2>2. Round' = Round /\ Combined(w)' = Combined(w)
    BY <1>3, <2>1 DEF Round, Combined, Holding
  <2>3. FedTo(w) = lines /\ FedTo(w)' = lines' - 1
    BY <1>1, <1>3 DEF FedTo, Feeding
  <2>4. FedTo(w)' = FedTo(w)
    BY <1>2, <2>3
  <2> QED
    BY <1>3, <2>1, <2>2, <2>4, WorkerFrame DEF queues
<1>8. CombinerSound'
  BY <1>1, <1>3, CombinerFrame DEF Threads
<1> QED
  BY <1>4, <1>5, <1>6, <1>7, <1>8

LEMMA MainMeetsEndSound == IInv /\ MainMeetsEnd => IInv'
<1> SUFFICES ASSUME IInv, MainMeetsEnd PROVE IInv'
  OBVIOUS
<1> USE DEF IInv
<1>1. /\ pc' \in [{0} \cup Threads -> Places]
      /\ pc'[0] = "join" /\ pc[0] = "read"
      /\ \A t \in Threads : pc'[t] = pc[t]
  <2>1. /\ pc \in [{0} \cup Threads -> Places] /\ pc[0] = "read"
        /\ Goes(0, "join") /\ "join" \in Places
    BY DEF MainMeetsEnd, Shapes, Places
  <2> QED
    BY <2>1, MainGoes
<1>2. UNCHANGED <<input, lines, item, ret, in, out, waiting, val, printed>>
  BY DEF MainMeetsEnd, queues
<1>3. TypeOK'
  <2>1. {t \in Threads : pc'[t] = "waiting"} = {t \in Threads : pc[t] = "waiting"}
    BY <1>1
  <2> QED
    BY <1>1, <1>2, <2>1 DEF TypeOK, Threads, Workers
<1>4. Shapes'
  BY <1>1, <1>2 DEF Shapes
<1>5. MainSound'
  BY <1>1, <1>2 DEF MainSound, Accepted, Item
<1>6. ASSUME NEW w \in Workers PROVE WorkerSound(w)'
  <2>1. pc'[w] = pc[w] /\ pc'[3] = pc[3]
    BY <1>1 DEF Workers, Threads
  <2>2. Round' = Round /\ Combined(w)' = Combined(w)
    BY <1>2, <2>1 DEF Round, Combined, Holding
  <2>3. FedTo(w)' = FedTo(w)
    BY <1>1, <1>2 DEF FedTo, Feeding
  <2> QED
    BY <1>2, <2>1, <2>2, <2>3, WorkerFrame
<1>7. CombinerSound'
  BY <1>1, <1>2, CombinerFrame DEF Threads
<1> QED
  BY <1>3, <1>4, <1>5, <1>6, <1>7

LEMMA MainFeedsSound == \A w \in Workers : IInv /\ MainFeeds(w) => IInv'
<1> SUFFICES ASSUME NEW w \in Workers, IInv, MainFeeds(w) PROVE IInv'
  OBVIOUS
<1> USE DEF IInv
<1>1. /\ pc' \in [{0} \cup Threads -> Places]
      /\ pc'[0] = IF w = 1 THEN "feed 2" ELSE IF item = STOP THEN "join" ELSE "read"
      /\ \A t \in Threads : pc'[t] = pc[t]
  <2> DEFINE step == IF w = 1 THEN "feed 2" ELSE IF item = STOP THEN "join" ELSE "read"
  <2>1. pc \in [{0} \cup Threads -> Places] /\ Goes(0, step) /\ step \in Places
    BY DEF MainFeeds, Shapes, Places
  <2> QED
    BY <2>1, MainGoes
<1>2. /\ UNCHANGED <<input, lines, item, ret, out, waiting, val, printed>>
      /\ pc[0] = IF w = 1 THEN "feed 1" ELSE "feed 2"
      /\ in' = [in EXCEPT ![w] = Append(@, item)]
  BY DEF MainFeeds
<1>3. lines > 0 /\ item = Item(lines) /\ lines \in Nat
  <2>1. lines \in Nat
    BY Counts
  <2> QED
    BY <1>2, <2>1 DEF MainSound
<1>4. /\ in[w] \in Seq(Numbers \cup {STOP}) /\ in'[w] = Append(in[w], item)
      /\ item \in Numbers \cup {STOP}
      /\ \A v \in Workers \ {w} : in'[v] = in[v]
  BY <1>2 DEF TypeOK
<1>5. /\ in'[w] \in Seq(Numbers \cup {STOP})
      /\ Len(in'[w]) = Len(in[w]) + 1
      /\ in'[w][Len(in[w]) + 1] = item
      /\ \A i \in 1 .. Len(in[w]) : in'[w][i] = in[w][i]
  BY <1>4, Appended
<1>6. TypeOK'
  <2>1. {t \in Threads : pc'[t] = "waiting"} = {t \in Threads : pc[t] = "waiting"}
    BY <1>1
  <2>2. in' \in [Workers -> Seq(Numbers \cup {STOP})]
    BY <1>2, <1>4, <1>5 DEF TypeOK
  <2>3. pc'[0] \in {"read", "feed 2", "join"}
    BY <1>1
  <2> QED
    BY <1>1, <1>2, <2>1, <2>2, <2>3 DEF TypeOK, Threads, Workers
<1>7. Shapes'
  BY <1>1, <1>2 DEF Shapes
<1>8. MainSound'
  <2>1. pc'[0] = "read" => input[lines] \in Numbers
    BY <1>1, <1>3 DEF Item
  <2> QED
    BY <1>1, <1>2, <1>3, <2>1 DEF MainSound, Accepted, Item
<1>9. ASSUME NEW v \in Workers PROVE WorkerSound(v)'
  <2>1. pc'[v] = pc[v] /\ pc'[3] = pc[3]
    BY <1>1 DEF Workers, Threads
  <2>2. Round' = Round /\ Combined(v)' = Combined(v)
    BY <1>2, <2>1 DEF Round, Combined, Holding
  <2>3. CASE v # w
    <3>1. FedTo(v)' = FedTo(v)
      BY <1>1, <1>2, <2>3 DEF FedTo, Feeding, Workers
    <3> QED
      BY <1>2, <1>4, <2>1, <2>2, <2>3, <3>1, WorkerFrame
  <2>4. CASE v = w
    <3>1. FedTo(w) = lines - 1 /\ FedTo(w)' = lines
      BY <1>1, <1>2 DEF FedTo, Feeding, Workers
    <3>2. Taken(w)' = Taken(w) /\ Put(w)' = Put(w)
      BY <2>1, <2>2, <2>4 DEF Taken, Put
    <3>3. Len(in[w]) = FedTo(w) - Taken(w) /\ Len(in[w]) \in Nat /\ Taken(w) \in Nat
      BY Counts DEF WorkerSound
    <3>4. Len(in'[w]) = FedTo(w)' - Taken(w)'
      BY <1>3, <1>5, <3>1, <3>2, <3>3
    <3>5. Taken(w) + (Len(in[w]) + 1) = lines
      BY <1>3, <3>1, <3>3
    <3>6. ASSUME NEW i \in 1 .. Len(in'[w]) PROVE in'[w][i] = Item(Taken(w) + i)
      <4>1. CASE i \in 1 .. Len(in[w])
        BY <1>5, <4>1 DEF WorkerSound
      <4>2. CASE i = Len(in[w]) + 1
        BY <1>3, <1>5, <3>5, <4>2
      <4> QED
        BY <1>5, <3>3, <4>1, <4>2
    <3>7. \A k : Item(k)' = Item(k) /\ Answer(w, k)' = Answer(w, k)
      BY <1>2 DEF Item, Answer, func
    <3>8. (\A i \in 1 .. Len(in[w]) : in[w][i] = Item(Taken(w) + i))'
      BY <3>2, <3>6, <3>7
    <3>9. (\A i \in 1 .. Len(out[w]) : out[w][i] = Answer(w, Combined(w) + i))'
      BY <1>2, <2>2, <2>4, <3>7, ZenonT(60) DEF WorkerSound
    <3>10. (pc[w] \in {"put", "barrier", "waiting"} => val[w] = Item(Taken(w)))'
      BY <1>2, <2>1, <2>4, <3>2, <3>7 DEF WorkerSound
    <3>11. (pc[w] = "ended" <=> (Round > 0 /\ Item(Round) = STOP))'
      BY <2>1, <2>2, <2>4, <3>7 DEF WorkerSound
    <3>12. (Len(out[w]) = Put(w) - Combined(w))'
      BY <1>2, <2>2, <2>4, <3>2 DEF WorkerSound
    <3> QED
      BY <2>4, <3>4, <3>8, <3>9, <3>10, <3>11, <3>12 DEF WorkerSound
  <2> QED
    BY <2>3, <2>4
<1>10. CombinerSound'
  BY <1>1, <1>2, CombinerFrame DEF Threads
<1> QED
  BY <1>6, <1>7, <1>8, <1>9, <1>10

LEMMA MainJoinsSound == IInv /\ MainJoins => IInv'
<1> SUFFICES ASSUME IInv, MainJoins PROVE IInv'
  OBVIOUS
<1> USE DEF IInv
<1>1. /\ pc' \in [{0} \cup Threads -> Places]
      /\ pc'[0] = "returned" /\ pc[0] = "join"
      /\ \A t \in Threads : pc'[t] = pc[t] /\ pc[t] = "ended"
  BY OneGoes DEF MainJoins, Shapes, Places, Threads
<1>2. UNCHANGED <<input, lines, item, ret, in, out, waiting, val, printed>>
  BY DEF MainJoins, queues
<1>3. TypeOK'
  <2>1. {t \in Threads : pc'[t] = "waiting"} = {t \in Threads : pc[t] = "waiting"}
    BY <1>1
  <2> QED
    BY <1>1, <1>2, <2>1 DEF TypeOK, Threads, Workers
<1>4. Shapes'
  BY <1>1, <1>2 DEF Shapes
<1>5. MainSound'
  BY <1>1, <1>2 DEF MainSound, Accepted, Item
<1>6. ASSUME NEW w \in Workers PROVE WorkerSound(w)'
  <2>1. pc'[w] = pc[w] /\ pc'[3] = pc[3]
    BY <1>1 DEF Workers, Threads
  <2>2. Round' = Round /\ Combined(w)' = Combined(w)
    BY <1>2, <2>1 DEF Round, Combined, Holding
  <2>3. FedTo(w)' = FedTo(w)
    BY <1>1, <1>2 DEF FedTo, Feeding
  <2> QED
    BY <1>2, <2>1, <2>2, <2>3, WorkerFrame
<1>7. CombinerSound'
  BY <1>1, <1>2, CombinerFrame DEF Threads
<1> QED
  BY <1>3, <1>4, <1>5, <1>6, <1>7

-------------------------------------------------------------------------------
(* thread_1_and_2_func *)

LEMMA TakesSound == \A w \in Workers : IInv /\ Takes(w) => IInv'
<1> SUFFICES ASSUME NEW w \in Workers, IInv, Takes(w) PROVE IInv'
  OBVIOUS
<1> USE DEF IInv
<1>1. /\ UNCHANGED <<input, lines, item, ret, out, waiting, printed>>
      /\ pc[w] = "take"
      /\ val' = [val EXCEPT ![w] = Front(in[w])]
      /\ in' = [in EXCEPT ![w] = Rest(@)]
  BY DEF Takes
<1>2. w \in Threads /\ w # 3 /\ w # 4 /\ w \in Threads \cup {4}
  BY DEF Workers, Threads
<1>3. /\ val'[w] = Front(in[w]) /\ in'[w] = Rest(in[w])
      /\ val'[3] = val[3] /\ val'[4] = val[4]
      /\ \A v \in Workers \ {w} : in'[v] = in[v] /\ val'[v] = val[v]
      /\ in[w] \in Seq(Numbers \cup {STOP})
      /\ DOMAIN val' = DOMAIN val
  BY <1>1, <1>2 DEF TypeOK, Shapes, Workers, Threads
<1>4. pc[0] # "returned"
  BY <1>1, <1>2 DEF MainSound
<1>5. CASE in[w] = <<>>
  <2>1. val'[w] = EMPTY /\ in'[w] = in[w]
    BY <1>3, <1>5, Removed
  <2>2. pc' = pc
    BY <2>1 DEF Takes
  <2>3. TypeOK'
    <3>1. in' \in [Workers -> Seq(Numbers \cup {STOP})]
      BY <1>1, <1>3, <2>1 DEF TypeOK
    <3>2. \A v \in Workers : val'[v] \in Numbers \cup {EMPTY, STOP}
      BY <1>3, <2>1 DEF TypeOK
    <3> QED
      BY <1>1, <1>3, <2>2, <3>1, <3>2 DEF TypeOK
  <2>4. Shapes'
    BY <1>1, <1>3, <2>2 DEF Shapes
  <2>5. MainSound'
    BY <1>1, <1>4, <2>2, MainFrame
  <2>6. ASSUME NEW v \in Workers PROVE WorkerSound(v)'
    <3>1. Round' = Round /\ Combined(v)' = Combined(v) /\ FedTo(v)' = FedTo(v)
      BY <1>1, <2>2 DEF Round, Combined, Holding, FedTo, Feeding
    <3>2. CASE v # w
      BY <1>1, <1>3, <2>2, <3>1, <3>2, WorkerFrame
    <3>3. CASE v = w
      BY <1>1, <2>1, <2>2, <3>1, <3>3 DEF WorkerSound, Taken, Put, Item, Answer, func
    <3> QED
      BY <3>2, <3>3
  <2>7. CombinerSound'
    BY <1>1, <1>3, <2>2, CombinerFrame
  <2> QED
    BY <2>3, <2>4, <2>5, <2>6, <2>7
<1>6. CASE in[w] # <<>>
  <2>1. /\ val'[w] = in[w][1] /\ val'[w] \in Numbers \cup {STOP}
        /\ in'[w] \in Seq(Numbers \cup {STOP})
        /\ Len(in[w]) \in Nat /\ Len(in[w]) # 0
        /\ Len(in'[w]) = Len(in[w]) - 1
        /\ \A i \in 1 .. Len(in[w]) - 1 : in'[w][i] = in[w][i + 1]
    BY <1>3, <1>6, Removed
  <2>2. /\ pc' \in [{0} \cup Threads -> Places]
        /\ pc'[w] = "put" /\ pc'[0] = pc[0]
        /\ \A u \in Threads \ {w} : pc'[u] = pc[u]
    <3>1. val'[w] # EMPTY
      BY <2>1, ItemIsSome
    <3>2. pc \in [{0} \cup Threads -> Places] /\ Goes(w, "put") /\ "put" \in Places
      BY <3>1 DEF Takes, Shapes, Places
    <3> QED
      BY <1>2, <3>2, ThreadGoes
  <2>3. pc'[3] = pc[3]
    BY <1>2, <2>2 DEF Threads
  <2>4. TypeOK'
    <3>1. in' \in [Workers -> Seq(Numbers \cup {STOP})]
      BY <1>1, <1>3, <2>1 DEF TypeOK
    <3>2. \A v \in Workers : val'[v] \in Numbers \cup {EMPTY, STOP}
      BY <1>3, <2>1 DEF TypeOK
    <3>3. {t \in Threads : pc'[t] = "waiting"} = {t \in Threads : pc[t] = "waiting"}
      BY <1>1, <2>2
    <3>4. \A v \in Workers : pc'[v] \in {"take", "put", "barrier", "waiting", "ended"}
      BY <2>2 DEF TypeOK, Workers, Threads
    <3> QED
      BY <1>1, <1>3, <2>2, <2>3, <3>1, <3>2, <3>3, <3>4 DEF TypeOK
  <2>5. Shapes'
    BY <1>1, <1>3, <2>2 DEF Shapes
  <2>6. MainSound'
    BY <1>1, <1>4, <2>2, MainFrame
  <2>7. ASSUME NEW v \in Workers PROVE WorkerSound(v)'
    <3>1. Round' = Round /\ Combined(v)' = Combined(v) /\ FedTo(v)' = FedTo(v)
      BY <1>1, <2>2, <2>3 DEF Round, Combined, Holding, FedTo, Feeding
    <3>2. CASE v # w
      <4>1. pc'[v] = pc[v]
        BY <2>2, <3>2 DEF Workers, Threads
      <4> QED
        BY <1>1, <1>3, <3>1, <3>2, <4>1, WorkerFrame
    <3>3. CASE v = w
      <4>1. Taken(w) = Round /\ Taken(w)' = Round + 1 /\ Put(w)' = Put(w)
        BY <1>1, <2>2, <3>1, Counts DEF Taken, Put
      <4>2. Len(in[w]) = FedTo(w) - Round /\ FedTo(w) \in Int /\ Round \in Nat
        BY <4>1, Counts DEF WorkerSound
      <4>3. (Len(in[w]) = FedTo(w) - Taken(w))'
        BY <2>1, <3>1, <3>3, <4>1, <4>2
      <4>4. \A i \in 1 .. Len(in[w]) : in[w][i] = Item(Round + i)
        BY <4>1 DEF WorkerSound
      <4>5. \A k : Item(k)' = Item(k) /\ Answer(w, k)' = Answer(w, k)
        BY <1>1 DEF Item, Answer, func
      <4>6. ASSUME NEW i \in 1 .. Len(in'[w]) PROVE in'[w][i] = Item((Round + 1) + i)
        <5>1. i \in 1 .. Len(in[w]) - 1 /\ i + 1 \in 1 .. Len(in[w])
          BY <2>1
        <5>2. Round + (i + 1) = (Round + 1) + i
          BY <4>2
        <5> QED
          BY <2>1, <4>4, <5>1, <5>2
      <4>7. (\A i \in 1 .. Len(in[w]) : in[w][i] = Item(Taken(w) + i))'
        BY <4>1, <4>5, <4>6
      <4>8. (pc[w] \in {"put", "barrier", "waiting"} => val[w] = Item(Taken(w)))'
        <5>1. 1 \in 1 .. Len(in[w])
          BY <2>1
        <5> QED
          BY <2>1, <4>1, <4>4, <4>5, <5>1
      <4>9. (pc[w] = "ended" <=> (Round > 0 /\ Item(Round) = STOP))'
        BY <1>1, <2>2, <3>1, <4>5 DEF WorkerSound
      <4>10. (Len(out[w]) = Put(w) - Combined(w))'
        BY <1>1, <3>1, <3>3, <4>1 DEF WorkerSound
      <4>11. (\A i \in 1 .. Len(out[w]) : out[w][i] = Answer(w, Combined(w) + i))'
        BY <1>1, <3>1, <3>3, <4>5 DEF WorkerSound
      <4> QED
        BY <3>3, <4>3, <4>7, <4>8, <4>9, <4>10, <4>11 DEF WorkerSound
    <3> QED
      BY <3>2, <3>3
  <2>8. CombinerSound'
    BY <1>1, <1>3, <2>3, CombinerFrame
  <2> QED
    BY <2>4, <2>5, <2>6, <2>7, <2>8
<1> QED
  BY <1>5, <1>6

LEMMA PutsSound == \A w \in Workers : IInv /\ Puts(w) => IInv'
<1> SUFFICES ASSUME NEW w \in Workers, IInv, Puts(w) PROVE IInv'
  OBVIOUS
<1> USE DEF IInv
<1> DEFINE answer == IF val[w] < 0 THEN val[w] ELSE func(w, val[w])
<1>1. /\ UNCHANGED <<input, lines, item, ret, in, waiting, val, printed>>
      /\ pc[w] = "put"
      /\ out' = [out EXCEPT ![w] = Append(@, answer)]
  BY DEF Puts
<1>2. w \in Threads /\ w # 3
  BY DEF Workers, Threads
<1>3. pc[0] # "returned"
  BY <1>1, <1>2 DEF MainSound
<1>4. /\ pc' \in [{0} \cup Threads -> Places]
      /\ pc'[w] = "barrier" /\ pc'[0] = pc[0] /\ pc'[3] = pc[3]
      /\ \A u \in Threads \ {w} : pc'[u] = pc[u]
  <2>1. pc \in [{0} \cup Threads -> Places] /\ Goes(w, "barrier") /\ "barrier" \in Places
    BY DEF Puts, Shapes, Places
  <2> QED
    BY <1>2, <2>1, ThreadGoes DEF Threads
<1>5. Taken(w) = Round + 1 /\ Put(w) = Round /\ Round \in Nat /\ Combined(w) \in Nat
  BY <1>1, Counts DEF Taken, Put
<1>6. answer = Answer(w, Round + 1) /\ answer \in Nat \cup {STOP}
  <2>1. val[w] = Item(Round + 1)
    BY <1>1, <1>5 DEF WorkerSound
  <2>2. answer = Answer(w, Round + 1)
    <3>1. CASE Item(Round + 1) = STOP
      BY <2>1, <3>1 DEF Answer, STOP
    <3>2. CASE Item(Round + 1) # STOP
      <4>1. val[w] \in Numbers /\ val[w] = input[Round + 1]
        BY <2>1, <3>2, AnswerTyped
      <4>2. ~(val[w] < 0)
        BY <4>1 DEF Numbers
      <4> QED
        BY <3>2, <4>1, <4>2 DEF Answer
    <3> QED
      BY <3>1, <3>2
  <2> QED
    BY <2>2, AnswerTyped
<1>7. /\ out[w] \in Seq(Nat \cup {STOP}) /\ out'[w] = Append(out[w], answer)
      /\ \A v \in Workers \ {w} : out'[v] = out[v]
  BY <1>1 DEF TypeOK
<1> HIDE DEF answer
<1>8. /\ out'[w] \in Seq(Nat \cup {STOP})
      /\ Len(out'[w]) = Len(out[w]) + 1
      /\ out'[w][Len(out[w]) + 1] = answer
      /\ \A i \in 1 .. Len(out[w]) : out'[w][i] = out[w][i]
  BY <1>6, <1>7, Appended
<1>9. TypeOK'
  <2>1. out' \in [Workers -> Seq(Nat \cup {STOP})]
    BY <1>1, <1>7, <1>8 DEF TypeOK
  <2>2. {t \in Threads : pc'[t] = "waiting"} = {t \in Threads : pc[t] = "waiting"}
    BY <1>1, <1>4
  <2>3. \A v \in Workers : pc'[v] \in {"take", "put", "barrier", "waiting", "ended"}
    BY <1>4 DEF TypeOK, Workers, Threads
  <2> QED
    BY <1>1, <1>4, <2>1, <2>2, <2>3 DEF TypeOK
<1>10. Shapes'
  BY <1>1, <1>4 DEF Shapes
<1>11. MainSound'
  BY <1>1, <1>3, <1>4, MainFrame
<1>12. ASSUME NEW v \in Workers PROVE WorkerSound(v)'
  <2>1. Round' = Round /\ Combined(v)' = Combined(v) /\ FedTo(v)' = FedTo(v)
    BY <1>1, <1>4 DEF Round, Combined, Holding, FedTo, Feeding
  <2>2. CASE v # w
    <3>1. pc'[v] = pc[v]
      BY <1>4, <2>2 DEF Workers, Threads
    <3> QED
      BY <1>1, <1>7, <2>1, <2>2, <3>1, WorkerFrame
  <2>3. CASE v = w
    <3>1. Taken(w)' = Taken(w) /\ Put(w)' = Round + 1
      BY <1>4, <1>5, <2>1 DEF Taken, Put
    <3>2. \A k : Item(k)' = Item(k) /\ Answer(w, k)' = Answer(w, k)
      BY <1>1 DEF Item, Answer, func
    <3>3. Len(out[w]) = Round - Combined(w) /\ Len(out[w]) \in Nat
      BY <1>5, Counts DEF WorkerSound
    <3>4. Combined(w) + (Len(out[w]) + 1) = Round + 1
      BY <1>5, <3>3
    <3>5. ASSUME NEW i \in 1 .. Len(out'[w]) PROVE out'[w][i] = Answer(w, Combined(w) + i)
      <4>1. CASE i \in 1 .. Len(out[w])
        BY <1>8, <4>1 DEF WorkerSound
      <4>2. CASE i = Len(out[w]) + 1
        BY <1>6, <1>8, <3>4, <4>2
      <4> QED
        BY <1>8, <3>3, <4>1, <4>2
    <3>6. (Len(in[w]) = FedTo(w) - Taken(w))'
      BY <1>1, <2>1, <2>3, <3>1 DEF WorkerSound
    <3>7. (\A i \in 1 .. Len(in[w]) : in[w][i] = Item(Taken(w) + i))'
      BY <1>1, <3>1, <3>2 DEF WorkerSound
    <3>8. (pc[w] \in {"put", "barrier", "waiting"} => val[w] = Item(Taken(w)))'
      BY <1>1, <3>1, <3>2 DEF WorkerSound
    <3>9. (pc[w] = "ended" <=> (Round > 0 /\ Item(Round) = STOP))'
      BY <1>1, <1>4, <2>1, <3>2 DEF WorkerSound
    <3>10. (Len(out[w]) = Put(w) - Combined(w))'
      BY <1>5, <1>8, <2>1, <2>3, <3>1, <3>3
    <3>11. (\A i \in 1 .. Len(out[w]) : out[w][i] = Answer(w, Combined(w) + i))'
      BY <2>1, <2>3, <3>2, <3>5
    <3> QED
      BY <2>3, <3>6, <3>7, <3>8, <3>9, <3>10, <3>11 DEF WorkerSound
  <2> QED
    BY <2>2, <2>3
<1>13. CombinerSound'
  BY <1>1, <1>4, CombinerFrame
<1> QED
  BY <1>9, <1>10, <1>11, <1>12, <1>13

-------------------------------------------------------------------------------
(* The barrier *)

\* Thread t waits, because not all three have arrived.
LEMMA WaitsSound ==
  ASSUME IInv, NEW t \in Threads, pc[t] = "barrier",
         waiting \cup {t} # Threads, waiting' = waiting \cup {t}, Goes(t, "waiting"),
         UNCHANGED <<input, lines, item, ret, queues, val, printed>>
  PROVE  IInv'
<1> USE DEF IInv
<1>1. UNCHANGED <<input, lines, item, ret, in, out, val, printed>>
  BY DEF queues
<1>2. /\ pc' \in [{0} \cup Threads -> Places]
      /\ pc'[t] = "waiting" /\ pc'[0] = pc[0]
      /\ \A u \in Threads \ {t} : pc'[u] = pc[u]
  BY ThreadGoes DEF Shapes, Places
<1>3. pc'[3] = pc[3] \/ (pc[3] = "barrier" /\ pc'[3] = "waiting")
  BY <1>2 DEF Threads
<1>4. pc[0] # "returned"
  BY DEF MainSound
<1>5. TypeOK'
  <2>1. waiting' = {u \in Threads : pc'[u] = "waiting"}
    <3>1. waiting = {u \in Threads : pc[u] = "waiting"}
      BY DEF TypeOK
    <3> QED
      BY <1>2, <3>1
  <2>2. \A v \in Workers : pc'[v] \in {"take", "put", "barrier", "waiting", "ended"}
    BY <1>2 DEF TypeOK, Workers, Threads
  <2>3. pc'[3] \in {"barrier", "waiting", "take 1", "take 2", "print", "ended"}
    BY <1>3 DEF TypeOK
  <2>4. waiting' # Threads
    OBVIOUS
  <2> QED
    BY <1>1, <1>2, <2>1, <2>2, <2>3, <2>4 DEF TypeOK
<1>6. Shapes'
  BY <1>1, <1>2 DEF Shapes
<1>7. MainSound'
  BY <1>1, <1>2, <1>4, MainFrame
<1>8. ASSUME NEW v \in Workers PROVE WorkerSound(v)'
  <2>1. Round' = Round /\ Combined(v)' = Combined(v) /\ FedTo(v)' = FedTo(v)
    BY <1>1, <1>2, <1>3 DEF Round, Combined, Holding, FedTo, Feeding
  <2>2. pc'[v] = pc[v] \/ (pc[v] = "barrier" /\ pc'[v] = "waiting")
    BY <1>2 DEF Workers, Threads
  <2>3. Taken(v)' = Taken(v) /\ Put(v)' = Put(v)
    BY <2>1, <2>2 DEF Taken, Put
  <2>4. \A k : Item(k)' = Item(k) /\ Answer(v, k)' = Answer(v, k)
    BY <1>1 DEF Item, Answer, func
  <2>5. (/\ Len(in[v]) = FedTo(v) - Taken(v)
         /\ \A i \in 1 .. Len(in[v]) : in[v][i] = Item(Taken(v) + i))'
    BY <1>1, <2>1, <2>3, <2>4 DEF WorkerSound
  <2>6. (/\ Len(out[v]) = Put(v) - Combined(v)
         /\ \A i \in 1 .. Len(out[v]) : out[v][i] = Answer(v, Combined(v) + i))'
    BY <1>1, <2>1, <2>3, <2>4 DEF WorkerSound
  <2>7. (pc[v] \in {"put", "barrier", "waiting"} => val[v] = Item(Taken(v)))'
    BY <1>1, <2>2, <2>3, <2>4 DEF WorkerSound
  <2>8. (pc[v] = "ended" <=> (Round > 0 /\ Item(Round) = STOP))'
    BY <2>1, <2>2, <2>4 DEF WorkerSound
  <2> QED
    BY <2>5, <2>6, <2>7, <2>8 DEF WorkerSound
<1>9. CombinerSound'
  <2>1. Round' = Round
    BY <1>1, <1>3 DEF Round
  <2>2. \A k : Item(k)' = Item(k) /\ \A v : Answer(v, k)' = Answer(v, k)
    BY <1>1 DEF Item, Answer, func
  <2>3. (Accepted(Len(printed)) /\ \A k \in 1 .. Len(printed) : printed[k] = Result(k))'
    BY <1>1 DEF CombinerSound, Accepted, Result
  <2> QED
    BY <1>1, <1>3, <2>1, <2>2, <2>3 DEF CombinerSound
<1> QED
  BY <1>5, <1>6, <1>7, <1>8, <1>9

\* The last one lets all three through.  The round that ends has an answer of
\* either worker, which thread 3 now combines; the worker that holds the end
\* marker ends.
LEMMA ReleaseSound ==
  ASSUME IInv, NEW t \in Threads, pc[t] = "barrier",
         waiting \cup {t} = Threads, waiting' = {},
         pc' = [u \in DOMAIN pc |-> IF u \in Threads THEN Beyond(u) ELSE pc[u]],
         UNCHANGED <<input, lines, item, ret, queues, val, printed>>
  PROVE  IInv'
<1> USE DEF IInv
<1>1. UNCHANGED <<input, lines, item, ret, in, out, val, printed>>
  BY DEF queues
<1>2. \A u \in Threads : pc[u] \in {"barrier", "waiting"}
  BY DEF TypeOK
<1>3. DOMAIN pc = {0} \cup Threads
  BY DEF Shapes
<1>4. pc'[0] = pc[0] /\ pc'[3] = "take 1"
      /\ \A v \in Workers : /\ val[v] < 0 => pc'[v] = "ended"
                            /\ ~(val[v] < 0) => pc'[v] = "take"
  <2>1. pc'[0] = pc[0]
    BY <1>3 DEF Threads
  <2>2. \A u \in Threads : pc'[u] = Beyond(u)
    BY <1>3
  <2>3. Beyond(3) = "take 1"
    BY DEF Beyond
  <2>4. 3 \in Threads /\ Workers \subseteq Threads /\ 3 \notin Workers
    BY DEF Threads, Workers
  <2>5. ASSUME NEW v \in Workers
        PROVE  /\ val[v] < 0 => pc'[v] = "ended"
               /\ ~(val[v] < 0) => pc'[v] = "take"
    <3>1. pc'[v] = Beyond(v) /\ v # 3
      BY <2>2, <2>4
    <3>2. CASE val[v] < 0
      BY <3>1, <3>2 DEF Beyond
    <3>3. CASE ~(val[v] < 0)
      BY <3>1, <3>3 DEF Beyond
    <3> QED
      BY <3>2, <3>3
  <2> QED
    BY <2>1, <2>2, <2>3, <2>4, <2>5
<1>5. pc' \in [{0} \cup Threads -> Places]
  BY <1>3, <1>4 DEF Places, Threads, Workers, Shapes
<1>6. pc[0] # "returned"
  BY DEF MainSound
<1>7. Round = Len(printed) /\ Round' = Round + 1 /\ Round \in Nat
  <2>1. Len(printed) \in Nat
    BY LenProperties DEF TypeOK
  <2>2. Round = Len(printed)
    BY <1>2 DEF Round, Threads
  <2> QED
    BY <1>1, <1>4, <2>1, <2>2 DEF Round
<1>8. TypeOK'
  <2>1. \A u \in Threads : pc'[u] # "waiting"
    BY <1>4 DEF Threads, Workers
  <2>2. waiting' = {u \in Threads : pc'[u] = "waiting"} /\ waiting' # Threads
    BY <2>1 DEF Threads
  <2> QED
    BY <1>1, <1>4, <2>2 DEF TypeOK
<1>9. Shapes'
  BY <1>1, <1>5 DEF Shapes
<1>10. MainSound'
  BY <1>1, <1>4, <1>6, MainFrame
<1>11. ASSUME NEW v \in Workers PROVE WorkerSound(v)'
  <2>1. pc[v] \in {"barrier", "waiting"}
    BY <1>2 DEF Threads, Workers
  <2>2. Taken(v) = Round + 1 /\ Put(v) = Round + 1
    BY <2>1 DEF Taken, Put
  <2>a. pc'[v] \in {"take", "ended"}
    BY <1>4
  <2>3. Taken(v)' = Round' /\ Put(v)' = Round'
    BY <1>7, <2>a DEF Taken, Put
  <2>b. pc[3] \in {"barrier", "waiting"} /\ pc'[3] = "take 1" /\ pc'[0] = pc[0]
    BY <1>2, <1>4 DEF Threads
  <2>4. Combined(v)' = Combined(v) /\ FedTo(v)' = FedTo(v)
    <3>1. pc[3] \notin Holding(v) /\ pc'[3] \notin Holding(v)
      <4>1. Holding(v) \subseteq {"take 2", "print", "ended"}
        BY DEF Holding
      <4> QED
        BY <2>b, <4>1
    <3>2. Len(printed) \in Nat
      BY <1>7
    <3>3. Combined(v) = Len(printed)
      BY <3>1, <3>2 DEF Combined
    <3>4. Combined(v)' = Len(printed)
      <4>1. Holding(v)' = Holding(v)
        BY DEF Holding
      <4> QED
        BY <1>1, <3>1, <3>2, <4>1 DEF Combined
    <3>5. FedTo(v)' = FedTo(v)
      BY <1>1, <2>b DEF FedTo, Feeding
    <3> QED
      BY <3>3, <3>4, <3>5
  <2>5. \A k : Item(k)' = Item(k) /\ Answer(v, k)' = Answer(v, k)
    BY <1>1 DEF Item, Answer, func
  <2>6. (/\ Len(in[v]) = FedTo(v) - Taken(v)
         /\ \A i \in 1 .. Len(in[v]) : in[v][i] = Item(Taken(v) + i))'
    BY <1>1, <1>7, <2>2, <2>3, <2>4, <2>5, SMTT(60) DEF WorkerSound
  <2>7. (/\ Len(out[v]) = Put(v) - Combined(v)
         /\ \A i \in 1 .. Len(out[v]) : out[v][i] = Answer(v, Combined(v) + i))'
    BY <1>1, <1>7, <2>2, <2>3, <2>4, <2>5 DEF WorkerSound
  <2>8. pc'[v] \notin {"put", "barrier", "waiting"}
    BY <2>a
  <2>9. (pc[v] = "ended" <=> (Round > 0 /\ Item(Round) = STOP))'
    <3>1. val[v] = Item(Round + 1)
      BY <2>1, <2>2 DEF WorkerSound
    <3>2. val[v] < 0 <=> Item(Round + 1) = STOP
      BY <3>1, ItemTyped DEF Numbers, STOP
    <3>3. pc'[v] = "ended" <=> val[v] < 0
      BY <1>4
    <3>4. Round' > 0 /\ Item(Round)' = Item(Round + 1)
      BY <1>7, <2>5
    <3> QED
      BY <3>2, <3>3, <3>4
  <2> QED
    BY <2>6, <2>7, <2>8, <2>9 DEF WorkerSound
<1>12. CombinerSound'
  <2>1. (Accepted(Len(printed)) /\ \A k \in 1 .. Len(printed) : printed[k] = Result(k))'
    BY <1>1 DEF CombinerSound, Accepted, Result
  <2> QED
    BY <1>4, <2>1 DEF CombinerSound
<1> QED
  BY <1>8, <1>9, <1>10, <1>11, <1>12

LEMMA ArrivesSound == \A t \in Threads : IInv /\ Arrives(t) => IInv'
<1> SUFFICES ASSUME NEW t \in Threads, IInv, Arrives(t) PROVE IInv'
  OBVIOUS
<1>1. pc[t] = "barrier" /\ UNCHANGED <<input, lines, item, ret, queues, val, printed>>
  BY DEF Arrives
<1>2. CASE waiting \cup {t} # Threads
  BY <1>1, <1>2, WaitsSound DEF Arrives
<1>3. CASE waiting \cup {t} = Threads
  BY <1>1, <1>3, ReleaseSound DEF Arrives
<1> QED
  BY <1>2, <1>3

-------------------------------------------------------------------------------
(* thread3_func *)

\* Behind the barrier every worker has put the answer of this round.
LEMMA AnswerIsThere ==
  ASSUME IInv, NEW w \in Workers, Round = Len(printed) + 1, Combined(w) = Len(printed)
  PROVE  out[w] # <<>> /\ out[w][1] = Answer(w, Round)
<1>1. Len(printed) \in Nat /\ Len(out[w]) \in Nat /\ Put(w) \in Nat
  BY Counts DEF IInv
<1>2. Put(w) >= Round
  BY <1>1 DEF Put
<1>3. WorkerSound(w) /\ TypeOK
  BY DEF IInv
<1>4. /\ Len(out[w]) = Put(w) - Combined(w)
      /\ \A i \in 1 .. Len(out[w]) : out[w][i] = Answer(w, Combined(w) + i)
  BY <1>3 DEF WorkerSound
<1>5. Len(out[w]) > 0
  BY <1>1, <1>2, <1>4
<1>6. 1 \in 1 .. Len(out[w]) /\ Combined(w) + 1 = Round
  BY <1>1, <1>5
<1>7. out[w][1] = Answer(w, Round)
  BY <1>4, <1>6
<1>8. out[w] # <<>>
  <2>1. out[w] \in Seq(Nat \cup {STOP})
    BY <1>3 DEF TypeOK
  <2> QED
    BY <1>5, <2>1, Removed
<1> QED
  BY <1>7, <1>8

LEMMA HoldingOf ==
  /\ Holding(1) = {"take 2", "print", "ended"}
  /\ Holding(2) = {"print", "ended"}
BY DEF Holding

\* What remains known of a worker when thread 3 takes its answer.
LEMMA AnswerTaken ==
  ASSUME TypeOK, NEW w \in Workers, WorkerSound(w), out[w] # <<>>, out'[w] = Rest(out[w]),
         input' = input, in'[w] = in[w], pc'[w] = pc[w], val'[w] = val[w],
         Round' = Round, Combined(w)' = Combined(w) + 1, FedTo(w)' = FedTo(w)
  PROVE  WorkerSound(w)'
<1>1. \A k : Item(k)' = Item(k) /\ Answer(w, k)' = Answer(w, k)
  BY DEF Item, Answer, func
<1>2. Taken(w)' = Taken(w) /\ Put(w)' = Put(w)
  BY DEF Taken, Put
<1>3. /\ Len(out[w]) \in Nat
      /\ Len(out'[w]) = Len(out[w]) - 1
      /\ \A i \in 1 .. Len(out[w]) - 1 : out'[w][i] = out[w][i + 1]
  <2>1. out[w] \in Seq(Nat \cup {STOP})
    BY DEF TypeOK
  <2> QED
    BY <2>1, Removed, ZenonT(60)
<1>4. /\ Len(out[w]) = Put(w) - Combined(w)
      /\ \A i \in 1 .. Len(out[w]) : out[w][i] = Answer(w, Combined(w) + i)
      /\ Put(w) \in Nat /\ Combined(w) \in Nat
  BY Counts DEF WorkerSound
<1>5. (Len(out[w]) = Put(w) - Combined(w))'
  BY <1>2, <1>3, <1>4
<1>6. ASSUME NEW i \in 1 .. Len(out'[w]) PROVE out'[w][i] = Answer(w, (Combined(w) + 1) + i)
  <2>1. i \in 1 .. Len(out[w]) - 1 /\ i + 1 \in 1 .. Len(out[w])
    BY <1>3
  <2>2. Combined(w) + (i + 1) = (Combined(w) + 1) + i
    BY <1>4
  <2> QED
    BY <1>3, <1>4, <2>1, <2>2
<1>7. (\A i \in 1 .. Len(out[w]) : out[w][i] = Answer(w, Combined(w) + i))'
  BY <1>1, <1>6
<1>8. (/\ Len(in[w]) = FedTo(w) - Taken(w)
       /\ \A i \in 1 .. Len(in[w]) : in[w][i] = Item(Taken(w) + i))'
  BY <1>1, <1>2 DEF WorkerSound
<1>9. (/\ pc[w] \in {"put", "barrier", "waiting"} => val[w] = Item(Taken(w))
       /\ pc[w] = "ended" <=> (Round > 0 /\ Item(Round) = STOP))'
  BY <1>1, <1>2 DEF WorkerSound
<1> QED
  BY <1>5, <1>7, <1>8, <1>9 DEF WorkerSound

LEMMA TakesFirstSound == IInv /\ TakesFirst => IInv'
<1> SUFFICES ASSUME IInv, TakesFirst PROVE IInv'
  OBVIOUS
<1> USE DEF IInv
<1>1. /\ UNCHANGED <<input, lines, item, ret, in, waiting, printed>>
      /\ pc[3] = "take 1"
      /\ val' = [val EXCEPT ![3] = Front(out[1])]
      /\ out' = [out EXCEPT ![1] = Rest(@)]
  BY DEF TakesFirst
<1>2. 3 \in Threads /\ 1 \in Workers /\ 2 \in Workers /\ Workers \subseteq Threads \ {3}
      /\ Workers = {1, 2}
  BY DEF Workers, Threads
<1>3. /\ pc' \in [{0} \cup Threads -> Places]
      /\ pc'[3] = "take 2" /\ pc'[0] = pc[0]
      /\ \A u \in Threads \ {3} : pc'[u] = pc[u]
  <2>1. pc \in [{0} \cup Threads -> Places] /\ Goes(3, "take 2") /\ "take 2" \in Places
    BY DEF TakesFirst, Shapes, Places
  <2> QED
    BY <1>2, <2>1, ThreadGoes
<1>4. pc[0] # "returned"
  BY <1>1, <1>2 DEF MainSound
<1>5. /\ out[1] # <<>> /\ out[1][1] = Answer(1, Round)
      /\ Round = Len(printed) + 1 /\ Len(printed) \in Nat
      /\ Combined(1) = Len(printed)
  <2>1. Len(printed) \in Nat
    BY <1>2, Counts
  <2>2. Round = Len(printed) + 1
    BY <1>1, <2>1 DEF Round
  <2>a. pc[3] \notin Holding(1)
    BY <1>1, HoldingOf
  <2>3. Combined(1) = Len(printed)
    BY <2>1, <2>a DEF Combined
  <2> QED
    BY <1>2, <2>1, <2>2, <2>3, AnswerIsThere
<1>6. /\ out[1] \in Seq(Nat \cup {STOP})
      /\ out'[1] = Rest(out[1]) /\ out'[2] = out[2]
      /\ val'[3] = Front(out[1]) /\ DOMAIN val' = DOMAIN val
      /\ val'[1] = val[1] /\ val'[2] = val[2] /\ val'[4] = val[4]
  <2>1. 1 \in DOMAIN val /\ 2 \in DOMAIN val /\ 3 \in DOMAIN val /\ 4 \in DOMAIN val
    BY DEF Shapes, Threads
  <2>2. out \in [Workers -> Seq(Nat \cup {STOP})]
    BY DEF TypeOK
  <2>3. val'[3] = Front(out[1]) /\ DOMAIN val' = DOMAIN val
    BY <1>1, <2>1
  <2>a. \A j \in DOMAIN val \ {3} : val'[j] = val[j]
    BY <1>1
  <2>4. val'[1] = val[1] /\ val'[2] = val[2] /\ val'[4] = val[4]
    BY <2>1, <2>a
  <2>5. out[1] \in Seq(Nat \cup {STOP}) /\ out'[1] = Rest(out[1]) /\ out'[2] = out[2]
    BY <1>1, <1>2, <2>2
  <2> QED
    BY <2>3, <2>4, <2>5
<1>7. Rest(out[1]) \in Seq(Nat \cup {STOP}) /\ val'[3] = Answer(1, Round)
  BY <1>5, <1>6, Removed
<1>8. TypeOK'
  <2>1. out' \in [Workers -> Seq(Nat \cup {STOP})]
    BY <1>1, <1>7 DEF TypeOK
  <2>2. {t \in Threads : pc'[t] = "waiting"} = {t \in Threads : pc[t] = "waiting"}
    BY <1>1, <1>3
  <2>3. \A v \in Workers : pc'[v] \in {"take", "put", "barrier", "waiting", "ended"}
    BY <1>2, <1>3 DEF TypeOK
  <2>4. \A j \in {3, 4} : val'[j] \in Nat \cup {EMPTY, STOP}
    <3>1. Answer(1, Round) \in Nat \cup {STOP} /\ val[4] \in Nat \cup {EMPTY, STOP}
      BY <1>2, AnswerTyped DEF TypeOK
    <3> QED
      BY <1>6, <1>7, <3>1
  <2>5. \A v \in Workers : val'[v] \in Numbers \cup {EMPTY, STOP}
    BY <1>2, <1>6 DEF TypeOK
  <2> QED
    BY <1>1, <1>3, <2>1, <2>2, <2>3, <2>4, <2>5 DEF TypeOK
<1>9. Shapes'
  BY <1>1, <1>3, <1>6 DEF Shapes
<1>10. MainSound'
  BY <1>1, <1>3, <1>4, MainFrame
<1>11. Round' = Round
  BY <1>1, <1>3 DEF Round
<1>12. ASSUME NEW v \in Workers PROVE WorkerSound(v)'
  <2>1. pc'[v] = pc[v] /\ val'[v] = val[v] /\ in'[v] = in[v]
    BY <1>1, <1>2, <1>3, <1>6
  <2>2. FedTo(v)' = FedTo(v)
    BY <1>1, <1>3 DEF FedTo, Feeding
  <2>3. CASE v = 1
    <3>1. Combined(1)' = Combined(1) + 1
      BY <1>1, <1>3, <1>5 DEF Combined, Holding
    <3> QED
      BY <1>1, <1>5, <1>6, <1>11, <2>1, <2>2, <2>3, <3>1, AnswerTaken
  <2>4. CASE v = 2
    <3>1. Combined(2)' = Combined(2)
      <4>1. pc[3] \notin Holding(2) /\ pc'[3] \notin Holding(2)
        BY <1>1, <1>3, HoldingOf
      <4> QED
        BY <1>1, <4>1 DEF Combined, Holding
    <3> QED
      BY <1>1, <1>6, <1>11, <2>1, <2>2, <2>4, <3>1, WorkerFrame
  <2> QED
    BY <1>2, <2>3, <2>4
<1>13. CombinerSound'
  <2>1. (Accepted(Len(printed)) /\ \A k \in 1 .. Len(printed) : printed[k] = Result(k))'
    BY <1>1 DEF CombinerSound, Accepted, Result
  <2>2. Answer(1, Round)' = Answer(1, Round)
    BY <1>1, <1>11 DEF Answer, Item, func
  <2> QED
    BY <1>3, <1>7, <2>1, <2>2 DEF CombinerSound
<1> QED
  BY <1>8, <1>9, <1>10, <1>12, <1>13

LEMMA TakesSecondSound == IInv /\ TakesSecond => IInv'
<1> SUFFICES ASSUME IInv, TakesSecond PROVE IInv'
  OBVIOUS
<1> USE DEF IInv
<1>1. /\ UNCHANGED <<input, lines, item, ret, in, waiting, printed>>
      /\ pc[3] = "take 2"
      /\ val' = [val EXCEPT ![4] = Front(out[2])]
      /\ out' = [out EXCEPT ![2] = Rest(@)]
  BY DEF TakesSecond
<1>2. 3 \in Threads /\ 1 \in Workers /\ 2 \in Workers /\ Workers \subseteq Threads \ {3}
      /\ Workers = {1, 2}
  BY DEF Workers, Threads
<1>3. pc[0] # "returned"
  BY <1>1, <1>2 DEF MainSound
<1>4. /\ out[2] # <<>> /\ out[2][1] = Answer(2, Round)
      /\ Round = Len(printed) + 1 /\ Len(printed) \in Nat
      /\ Combined(2) = Len(printed)
  <2>1. Len(printed) \in Nat
    BY <1>2, Counts
  <2>2. Round = Len(printed) + 1
    BY <1>1, <2>1 DEF Round
  <2>a. pc[3] \notin Holding(2)
    BY <1>1, HoldingOf
  <2>3. Combined(2) = Len(printed)
    BY <2>1, <2>a DEF Combined
  <2> QED
    BY <1>2, <2>1, <2>2, <2>3, AnswerIsThere
<1>5. /\ out[2] \in Seq(Nat \cup {STOP})
      /\ out'[2] = Rest(out[2]) /\ out'[1] = out[1]
      /\ val'[4] = Front(out[2]) /\ DOMAIN val' = DOMAIN val
      /\ val'[1] = val[1] /\ val'[2] = val[2] /\ val'[3] = val[3]
  <2>1. 1 \in DOMAIN val /\ 2 \in DOMAIN val /\ 3 \in DOMAIN val /\ 4 \in DOMAIN val
    BY DEF Shapes, Threads
  <2>2. out \in [Workers -> Seq(Nat \cup {STOP})]
    BY DEF TypeOK
  <2>3. val'[4] = Front(out[2]) /\ DOMAIN val' = DOMAIN val
    BY <1>1, <2>1
  <2>a. \A j \in DOMAIN val \ {4} : val'[j] = val[j]
    BY <1>1
  <2>4. val'[1] = val[1] /\ val'[2] = val[2] /\ val'[3] = val[3]
    BY <2>1, <2>a
  <2>5. out[2] \in Seq(Nat \cup {STOP}) /\ out'[2] = Rest(out[2]) /\ out'[1] = out[1]
    BY <1>1, <1>2, <2>2
  <2> QED
    BY <2>3, <2>4, <2>5
<1>6. Rest(out[2]) \in Seq(Nat \cup {STOP}) /\ val'[4] = Answer(2, Round)
  BY <1>4, <1>5, Removed
<1>7. val[3] = Answer(1, Round)
  BY <1>1 DEF CombinerSound
<1> DEFINE step == IF val[3] < 0 \/ val'[4] < 0 THEN "ended" ELSE "print"
<1>8. /\ Item(Round) = STOP => step = "ended"
      /\ Item(Round) # STOP => step = "print"
  <2>1. CASE Item(Round) = STOP
    <3>1. val[3] < 0
      BY <1>2, <1>7, <2>1, AnswerTyped
    <3> QED
      BY <2>1, <3>1
  <2>2. CASE Item(Round) # STOP
    <3>1. ~(val[3] < 0) /\ ~(val'[4] < 0)
      BY <1>2, <1>6, <1>7, <2>2, AnswerTyped
    <3> QED
      BY <2>2, <3>1
  <2> QED
    BY <2>1, <2>2
<1>9. Goes(3, step)
  BY DEF TakesSecond
<1> HIDE DEF step
<1>10. /\ pc' \in [{0} \cup Threads -> Places]
       /\ pc'[3] = step /\ pc'[0] = pc[0]
       /\ \A u \in Threads \ {3} : pc'[u] = pc[u]
  <2>1. pc \in [{0} \cup Threads -> Places] /\ step \in Places
    BY <1>8 DEF Shapes, Places
  <2> QED
    BY <1>2, <1>9, <2>1, ThreadGoes
<1>11. pc'[3] \in {"print", "ended"}
  BY <1>8, <1>10
<1>12. TypeOK'
  <2>1. out' \in [Workers -> Seq(Nat \cup {STOP})]
    BY <1>1, <1>6 DEF TypeOK
  <2>2. {t \in Threads : pc'[t] = "waiting"} = {t \in Threads : pc[t] = "waiting"}
    BY <1>1, <1>10, <1>11
  <2>3. \A v \in Workers : pc'[v] \in {"take", "put", "barrier", "waiting", "ended"}
    BY <1>2, <1>10 DEF TypeOK
  <2>4. \A j \in {3, 4} : val'[j] \in Nat \cup {EMPTY, STOP}
    <3>1. Answer(2, Round) \in Nat \cup {STOP} /\ val[3] \in Nat \cup {EMPTY, STOP}
      BY <1>2, AnswerTyped DEF TypeOK
    <3> QED
      BY <1>5, <1>6, <3>1
  <2>5. \A v \in Workers : val'[v] \in Numbers \cup {EMPTY, STOP}
    BY <1>2, <1>5 DEF TypeOK
  <2> QED
    BY <1>1, <1>10, <1>11, <2>1, <2>2, <2>3, <2>4, <2>5 DEF TypeOK
<1>13. Shapes'
  BY <1>1, <1>5, <1>10 DEF Shapes
<1>14. MainSound'
  BY <1>1, <1>3, <1>10, MainFrame
<1>15. Round' = Round
  BY <1>1, <1>11 DEF Round
<1>16. ASSUME NEW v \in Workers PROVE WorkerSound(v)'
  <2>1. pc'[v] = pc[v] /\ val'[v] = val[v] /\ in'[v] = in[v]
    BY <1>1, <1>2, <1>5, <1>10
  <2>2. FedTo(v)' = FedTo(v)
    BY <1>1, <1>10 DEF FedTo, Feeding
  <2>3. CASE v = 2
    <3>1. Combined(2)' = Combined(2) + 1
      BY <1>1, <1>4, <1>11 DEF Combined, Holding
    <3> QED
      BY <1>1, <1>4, <1>5, <1>15, <2>1, <2>2, <2>3, <3>1, AnswerTaken
  <2>4. CASE v = 1
    <3>1. Combined(1)' = Combined(1)
      BY <1>1, <1>11 DEF Combined, Holding
    <3> QED
      BY <1>1, <1>5, <1>15, <2>1, <2>2, <2>4, <3>1, WorkerFrame
  <2> QED
    BY <1>2, <2>3, <2>4
<1>17. CombinerSound'
  <2>1. (Accepted(Len(printed)) /\ \A k \in 1 .. Len(printed) : printed[k] = Result(k))'
    BY <1>1 DEF CombinerSound, Accepted, Result
  <2>2. /\ Answer(1, Round)' = Answer(1, Round) /\ Answer(2, Round)' = Answer(2, Round)
        /\ Item(Round)' = Item(Round)
    BY <1>1, <1>15 DEF Answer, Item, func
  <2>3. (pc[3] = "print" => Item(Round) # STOP)' /\ (pc[3] = "ended" => Item(Round) = STOP)'
    BY <1>8, <1>10, <2>2
  <2> QED
    BY <1>5, <1>6, <1>7, <2>1, <2>2, <2>3 DEF CombinerSound
<1> QED
  BY <1>12, <1>13, <1>14, <1>16, <1>17

LEMMA PrintsSound == IInv /\ Prints => IInv'
<1> SUFFICES ASSUME IInv, Prints PROVE IInv'
  OBVIOUS
<1> USE DEF IInv
<1>1. /\ UNCHANGED <<input, lines, item, ret, in, out, waiting, val>>
      /\ pc[3] = "print"
      /\ printed' = Append(printed, function_3(val[3] * val[4]))
  BY DEF Prints, queues
<1>2. 3 \in Threads /\ 1 \in Workers /\ 2 \in Workers /\ Workers \subseteq Threads \ {3}
  BY DEF Workers, Threads
<1>3. /\ pc' \in [{0} \cup Threads -> Places]
      /\ pc'[3] = "barrier" /\ pc'[0] = pc[0]
      /\ \A u \in Threads \ {3} : pc'[u] = pc[u]
  <2>1. pc \in [{0} \cup Threads -> Places] /\ Goes(3, "barrier") /\ "barrier" \in Places
    BY DEF Prints, Shapes, Places
  <2> QED
    BY <1>2, <2>1, ThreadGoes
<1>4. pc[0] # "returned"
  BY <1>1, <1>2 DEF MainSound
<1>5. Len(printed) \in Nat /\ Round = Len(printed) + 1 /\ printed \in Seq(Nat)
  BY <1>1, <1>2, Counts DEF Round, TypeOK
<1>6. /\ input[Round] \in Numbers
      /\ function_3(val[3] * val[4]) = Result(Round)
      /\ Result(Round) \in Nat
  <2>1. Item(Round) # STOP /\ val[3] = Answer(1, Round) /\ val[4] = Answer(2, Round)
    BY <1>1 DEF CombinerSound
  <2>2. /\ input[Round] \in Numbers
        /\ val[3] = function_1[input[Round]] /\ val[4] = function_2[input[Round]]
    BY <1>2, <2>1, AnswerTyped DEF func
  <2>3. val[3] \in Nat /\ val[4] \in Nat
    BY <2>2, PipelineAssumption
  <2>4. val[3] * val[4] \in Nat
    BY <2>3
  <2>5. function_3(val[3] * val[4]) \in Nat
    BY <2>4 DEF function_3
  <2> QED
    BY <2>2, <2>5 DEF Result
<1>7. /\ printed' \in Seq(Nat)
      /\ Len(printed') = Len(printed) + 1
      /\ printed'[Len(printed) + 1] = Result(Round)
      /\ \A i \in 1 .. Len(printed) : printed'[i] = printed[i]
  BY <1>1, <1>5, <1>6, Appended
<1>8. TypeOK'
  <2>1. {t \in Threads : pc'[t] = "waiting"} = {t \in Threads : pc[t] = "waiting"}
    BY <1>1, <1>3
  <2>2. \A v \in Workers : pc'[v] \in {"take", "put", "barrier", "waiting", "ended"}
    BY <1>2, <1>3 DEF TypeOK
  <2> QED
    BY <1>1, <1>3, <1>7, <2>1, <2>2 DEF TypeOK
<1>9. Shapes'
  BY <1>1, <1>3 DEF Shapes
<1>10. MainSound'
  BY <1>1, <1>3, <1>4, MainFrame
<1>11. Round' = Round
  BY <1>3, <1>5, <1>7 DEF Round
<1>12. ASSUME NEW v \in Workers PROVE WorkerSound(v)'
  <2>1. pc'[v] = pc[v]
    BY <1>2, <1>3
  <2>2. Combined(v)' = Combined(v)
    BY <1>1, <1>3, <1>5, <1>7 DEF Combined, Holding
  <2>3. FedTo(v)' = FedTo(v)
    BY <1>1, <1>3 DEF FedTo, Feeding
  <2> QED
    BY <1>1, <1>11, <2>1, <2>2, <2>3, WorkerFrame
<1>13. CombinerSound'
  <2>1. Accepted(Len(printed)) /\ \A k \in 1 .. Len(printed) : printed[k] = Result(k)
    BY DEF CombinerSound
  <2>2. \A k \in 1 .. Len(printed') : k \in 1 .. Len(printed) \/ k = Len(printed) + 1
    BY <1>5, <1>7
  <2>3. Accepted(Len(printed))'
    BY <1>1, <1>5, <1>6, <2>1, <2>2 DEF Accepted
  <2>4. \A k : Result(k)' = Result(k)
    BY <1>1 DEF Result
  <2>5. (\A k \in 1 .. Len(printed) : printed[k] = Result(k))'
    BY <1>5, <1>7, <2>1, <2>2, <2>4
  <2> QED
    BY <1>3, <2>3, <2>5 DEF CombinerSound
<1> QED
  BY <1>8, <1>9, <1>10, <1>12, <1>13

-------------------------------------------------------------------------------
(* The theorems *)

LEMMA UnchangedSound == IInv /\ UNCHANGED vars => IInv'
<1> SUFFICES ASSUME IInv, UNCHANGED vars PROVE IInv'
  OBVIOUS
<1>1. UNCHANGED <<input, lines, item, ret, in, out, waiting, pc, val, printed>>
  BY DEF vars, queues
<1>2. TypeOK' /\ Shapes'
  BY <1>1 DEF IInv, TypeOK, Shapes
<1>3. MainSound' /\ CombinerSound'
  BY <1>1 DEF IInv, MainSound, CombinerSound, Accepted, Item, Round, Answer, func, Result
<1>4. ASSUME NEW w \in Workers PROVE WorkerSound(w)'
  <2>1. WorkerSound(w)
    BY DEF IInv
  <2>2. Round' = Round /\ Combined(w)' = Combined(w) /\ FedTo(w)' = FedTo(w)
    BY <1>1 DEF Round, Combined, Holding, FedTo, Feeding
  <2> QED
    BY <1>1, <2>1, <2>2, WorkerFrame
<1> QED
  BY <1>2, <1>3, <1>4 DEF IInv

LEMMA StepSound == IInv /\ [Next]_vars => IInv'
<1> SUFFICES ASSUME IInv, [Next]_vars PROVE IInv'
  OBVIOUS
<1>1. CASE Main
  BY <1>1, MainReadsSound, MainMeetsEndSound, MainFeedsSound, MainJoinsSound DEF Main
<1>2. CASE Combiner
  BY <1>2, ArrivesSound, TakesFirstSound, TakesSecondSound, PrintsSound DEF Combiner, Threads
<1>3. CASE Terminated
  BY <1>3, UnchangedSound DEF Terminated
<1>4. ASSUME NEW w \in Workers, Worker(w) PROVE IInv'
  <2>1. w \in Threads
    BY DEF Workers, Threads
  <2> QED
    BY <1>4, <2>1, TakesSound, PutsSound, ArrivesSound DEF Worker
<1>5. CASE UNCHANGED vars
  BY <1>5, UnchangedSound
<1> QED
  BY <1>1, <1>2, <1>3, <1>4, <1>5 DEF Next

\* The queues hold exactly the lines between one thread and the next, whatever
\* the input, and however the scheduler lets main run ahead of the workers.
THEOREM AlwaysSound == Spec => []IInv
BY InitSound, StepSound, PTL DEF Spec

\* Every variable keeps its type.
THEOREM AlwaysTyped == Spec => []TypeOK
<1>1. IInv => TypeOK
  BY DEF IInv
<1> QED
  BY <1>1, AlwaysSound, PTL

\* A number is not the end marker.
LEMMA ItemStops ==
  ASSUME NEW k
  PROVE  Item(k) = STOP <=> input[k] \notin Numbers
BY DEF Item, Numbers, STOP

\* What is printed is the results of the lines read, in their order, each of
\* both workers' answers to one line, and thread 3 never takes an empty queue
\* for the end.
THEOREM AlwaysInOrder == Spec => []ResultsInOrder
<1>1. IInv => ResultsInOrder
  <2> SUFFICES ASSUME IInv PROVE ResultsInOrder
    OBVIOUS
  <2>1. 1 \in Workers /\ 2 \in Workers
    BY DEF Workers
  <2>2. /\ Len(printed) \in Nat /\ lines \in Nat /\ Round \in Nat
        /\ Len(in[1]) \in Nat /\ Taken(1) \in Nat /\ FedTo(1) \in Int
    BY <2>1, Counts DEF IInv
  <2>3. Len(printed) <= Round /\ Round <= Taken(1) /\ FedTo(1) <= lines
    <3>1. Len(printed) <= Round
      BY <2>2 DEF Round
    <3>2. Round <= Taken(1)
      BY <2>2 DEF Taken
    <3>3. FedTo(1) <= lines
      BY <2>2 DEF FedTo
    <3> QED
      BY <3>1, <3>2, <3>3
  <2>4. Len(in[1]) = FedTo(1) - Taken(1)
    BY <2>1 DEF IInv, WorkerSound
  <2>5. Len(printed) <= lines
    BY <2>2, <2>3, <2>4
  <2>6. Accepted(Len(printed)) /\ \A k \in 1 .. Len(printed) : printed[k] = Result(k)
    BY DEF IInv, CombinerSound
  <2>7. ASSUME NEW w \in Workers, pc[3] \in {"take 1", "take 2"}, pc[3] \notin Holding(w)
        PROVE  out[w] # <<>>
    <3>1. pc[3] \notin {"barrier", "waiting"}
      BY <2>7
    <3>2. Round = Len(printed) + 1
      BY <2>2, <3>1 DEF Round
    <3>3. pc[3] \notin Holding(w)
      BY <2>7
    <3>4. Combined(w) = Len(printed)
      BY <2>2, <3>3 DEF Combined
    <3> QED
      BY <3>2, <3>4, AnswerIsThere
  <2>8. pc[3] = "take 1" => out[1] # <<>> /\ out[2] # <<>>
    BY <2>1, <2>7, HoldingOf
  <2>9. pc[3] = "take 2" => out[2] # <<>>
    BY <2>1, <2>7, HoldingOf
  <2> QED
    BY <2>5, <2>6, <2>8, <2>9 DEF ResultsInOrder
<1> QED
  BY <1>1, AlwaysSound, PTL

\* When main returns, every number before the line that ended the input has been
\* printed, the exit status tells whether that line was 0, and no thread and no
\* value is left where main destroys the barrier and frees the queues.
THEOREM AlwaysComplete == Spec => []CompleteOnReturn
<1>1. IInv => CompleteOnReturn
  <2> SUFFICES ASSUME IInv, pc[0] = "returned" PROVE CompleteOnReturn!2
    BY DEF CompleteOnReturn
  <2>1. \A t \in Threads : pc[t] = "ended"
    BY DEF IInv, MainSound
  <2>2. 1 \in Workers /\ pc[3] = "ended" /\ \A w \in Workers : pc[w] = "ended"
    BY <2>1 DEF Workers, Threads
  <2>3. Len(printed) \in Nat /\ lines \in Nat
    BY <2>2, Counts DEF IInv
  <2>4. Round = Len(printed) + 1
    BY <2>2, <2>3 DEF Round
  <2>5. ASSUME NEW w \in Workers
        PROVE  /\ Taken(w) = Round /\ Put(w) = Round /\ Combined(w) = Round
               /\ FedTo(w) = lines
    <3>1. Taken(w) = Round /\ Put(w) = Round
      BY <2>2, <2>3, <2>4 DEF Taken, Put
    <3>2. pc[3] \in Holding(w)
      BY <2>2 DEF Holding
    <3>3. Combined(w) = Round
      BY <2>3, <2>4, <3>2 DEF Combined
    <3>4. pc[0] \notin Feeding(w)
      <4>1. Feeding(w) \subseteq {"feed 1", "feed 2"}
        BY DEF Feeding
      <4> QED
        BY <4>1
    <3>5. FedTo(w) = lines
      BY <3>4 DEF FedTo
    <3> QED
      BY <3>1, <3>3, <3>5
  <2>6. ASSUME NEW w \in Workers
        PROVE  /\ Len(in[w]) = lines - Round /\ Len(in[w]) \in Nat
               /\ Len(out[w]) = 0
    <3>1. /\ Len(in[w]) = FedTo(w) - Taken(w) /\ Len(in[w]) \in Nat
          /\ Len(out[w]) = Put(w) - Combined(w) /\ Len(out[w]) \in Nat
      BY Counts DEF IInv, WorkerSound
    <3> QED
      BY <2>3, <2>4, <2>5, <3>1
  <2>7. Item(Round) = STOP
    BY <2>2 DEF IInv, WorkerSound
  <2>8. input[Round] \notin Numbers
    BY <2>7, ItemStops
  <2>9. lines = Round
    <3>1. Round <= lines
      BY <2>2, <2>3, <2>4, <2>6
    <3>2. ~(Round <= lines - 1)
      <4> SUFFICES ASSUME Round <= lines - 1 PROVE FALSE
        OBVIOUS
      <4>1. Round \in 1 .. lines - 1
        BY <2>3, <2>4
      <4>2. input[Round] \in Numbers
        BY <4>1 DEF IInv, MainSound, Accepted
      <4> QED
        BY <2>8, <4>2
    <3> QED
      BY <2>3, <2>4, <3>1, <3>2
  <2>10. ret = IF input[lines] = 0 THEN 1 ELSE 0
    <3>1. ret \in {0, 1} /\ (ret = 1 <=> (lines > 0 /\ input[lines] = 0))
      BY DEF IInv, TypeOK, MainSound
    <3>2. lines > 0
      BY <2>3, <2>4, <2>9
    <3> QED
      BY <3>1, <3>2
  <2>11. ASSUME NEW w \in Workers PROVE in[w] = <<>> /\ out[w] = <<>>
    <3>1. in[w] \in Seq(Numbers \cup {STOP}) /\ out[w] \in Seq(Nat \cup {STOP})
      BY DEF IInv, TypeOK
    <3>2. Len(in[w]) = 0 /\ Len(out[w]) = 0
      BY <2>3, <2>6, <2>9
    <3> QED
      BY <3>1, <3>2, Removed
  <2>12. waiting = {}
    BY <2>1 DEF IInv, TypeOK
  <2> QED
    BY <2>3, <2>4, <2>8, <2>9, <2>10, <2>11, <2>12
<1> QED
  BY <1>1, AlwaysSound, PTL

================================================================================
