------------------------------- MODULE QueueProofs -------------------------------
(***************************************************************************)
(* What holds of Queue for every set of threads, every set of values and   *)
(* any finite memory.                                                      *)
(***************************************************************************)
EXTENDS Queue, FiniteSetTheorems, SequenceTheorems, WellFoundedInduction, TLAPS

-------------------------------------------------------------------------------
(* The inductive invariant: some sequence of nodes is the list *)

Inside == {"add", "link", "back", "remove", "free"}
Holding == {"link", "free"}

\* The mutex is held by the thread that is in a locked call.
OneInside == \A t \in Threads : pc[t] \in Inside <=> mutex = t

\* From front the nodes of c are reached one after another.
Linked(c) ==
  /\ \A j, k \in 1 .. Len(c) : c[j] = c[k] => j = k
  /\ Len(c) = 0 => front = NULL
  /\ Len(c) > 0 => front = c[1]
  /\ \A k \in 1 .. Len(c) : k < Len(c) => next[c[k]] = c[k + 1]
  /\ \A k \in 1 .. Len(c) : k = Len(c) => next[c[k]] = NULL

\* Unless a node is being added, back is the last of them.
Ended(c) ==
  (\A t \in Threads : pc[t] # "back") =>
    /\ Len(c) = 0 => back = NULL
    /\ Len(c) > 0 => back = c[Len(c)]

InChain(n, c) == \E k \in 1 .. Len(c) : c[k] = n

\* The memory in use is the list and the node in the hands of a thread.
Kept(c) ==
  /\ \A n \in Nodes : n \in allocated
       <=> InChain(n, c) \/ \E t \in Threads : pc[t] \in Holding /\ node[t] = n
  /\ \A k \in 1 .. Len(c) : val[c[k]] \in Values

\* What a thread in a call has in its hands.
AtHand(t, c) ==
  /\ pc[t] \in {"add", "link", "back"} => arg[t] \in Values
  /\ pc[t] \in Holding => /\ node[t] \in Nodes
                          /\ ~ InChain(node[t], c)
                          /\ next[node[t]] \in Nodes \cup {NULL}
                          /\ val[node[t]] \in Values
  /\ pc[t] = "link" => next[node[t]] = NULL /\ val[node[t]] = arg[t]
  /\ pc[t] = "back" => Len(c) > 0 /\ node[t] = c[Len(c)]

IsList(c) == Linked(c) /\ Ended(c) /\ Kept(c) /\ \A t \in Threads : AtHand(t, c)

Sound(c) ==
  /\ TypeOK
  /\ DOMAIN done = Threads
  /\ OneInside
  /\ IsList(c)

IInv == \E c \in Seq(Nodes) : Sound(c)

-------------------------------------------------------------------------------
(* Threads *)

LEMMA Alone ==
  ASSUME OneInside, NEW t \in Threads, pc[t] \in Inside
  PROVE  mutex = t /\ \A u \in Threads \ {t} : pc[u] \notin Inside
BY DEF OneInside

LEMMA Nobody ==
  ASSUME OneInside, mutex = NULL
  PROVE  \A u \in Threads : pc[u] \notin Inside
BY QueueAssumption DEF OneInside

Steps == {"idle", "add", "link", "back", "remove", "free", "count"}

LEMMA Moves ==
  ASSUME TypeOK, NEW t \in Threads, NEW s \in Steps, Goes(t, s)
  PROVE  /\ pc' \in [Threads -> Steps]
         /\ pc'[t] = s
         /\ \A u \in Threads \ {t} : pc'[u] = pc[u]
BY DEF TypeOK, Goes, Steps

LEMMA Returning ==
  ASSUME TypeOK, NEW t \in Threads, NEW op, NEW v, Returns(t, op, v)
  PROVE  /\ pc' \in [Threads -> Steps]
         /\ pc'[t] = "idle"
         /\ arg' \in [Threads -> Values \cup {EMPTY}]
         /\ node' \in [Threads -> Nodes \cup {NULL, Junk}]
         /\ i' \in [Threads -> Nat]
         /\ i'[t] = 0
         /\ DOMAIN done' = DOMAIN done
         /\ t \in DOMAIN done => done'[t] = [op |-> op, val |-> v]
         /\ \A u \in Threads \ {t} : /\ pc'[u] = pc[u]
                                     /\ arg'[u] = arg[u]
                                     /\ node'[u] = node[u]
                                     /\ i'[u] = i[u]
                                     /\ u \in DOMAIN done => done'[u] = done[u]
<1>1. "idle" \in Steps
  BY DEF Steps
<1>2. /\ pc' \in [Threads -> Steps] /\ pc'[t] = "idle"
      /\ \A u \in Threads \ {t} : pc'[u] = pc[u]
  BY <1>1, Moves DEF Returns
<1>3. /\ arg' \in [Threads -> Values \cup {EMPTY}]
      /\ \A u \in Threads \ {t} : arg'[u] = arg[u]
  BY DEF Returns, TypeOK
<1>4. /\ node' \in [Threads -> Nodes \cup {NULL, Junk}]
      /\ \A u \in Threads \ {t} : node'[u] = node[u]
  BY DEF Returns, TypeOK
<1>5. /\ i' \in [Threads -> Nat]
      /\ i'[t] = 0
      /\ \A u \in Threads \ {t} : i'[u] = i[u]
  BY DEF Returns, TypeOK
<1>6. /\ DOMAIN done' = DOMAIN done
      /\ t \in DOMAIN done => done'[t] = [op |-> op, val |-> v]
      /\ \A u \in Threads \ {t} : u \in DOMAIN done => done'[u] = done[u]
  BY DEF Returns
<1> QED
  BY <1>2, <1>3, <1>4, <1>5, <1>6

\* A thread enters, stays in or leaves its locked call.
LEMMA StillOneInside ==
  ASSUME OneInside, NEW t \in Threads,
         \A u \in Threads \ {t} : pc'[u] = pc[u],
         \/ mutex = NULL /\ mutex' = t /\ pc'[t] \in Inside
         \/ pc[t] \in Inside /\ mutex' = mutex /\ pc'[t] \in Inside
         \/ pc[t] \in Inside /\ mutex' = NULL /\ pc'[t] \notin Inside
         \/ pc[t] \notin Inside /\ mutex' = mutex /\ pc'[t] \notin Inside
  PROVE  OneInside'
<1>1. CASE mutex = NULL /\ mutex' = t /\ pc'[t] \in Inside
  BY <1>1, Nobody DEF OneInside
<1>2. CASE pc[t] \in Inside /\ mutex' = mutex /\ pc'[t] \in Inside
  BY <1>2, Alone DEF OneInside
<1>3. CASE pc[t] \in Inside /\ mutex' = NULL /\ pc'[t] \notin Inside
  BY <1>3, Alone, QueueAssumption DEF OneInside
<1>4. CASE pc[t] \notin Inside /\ mutex' = mutex /\ pc'[t] \notin Inside
  BY <1>4 DEF OneInside
<1> QED
  BY <1>1, <1>2, <1>3, <1>4

LEMMA ChainFacts ==
  ASSUME NEW c \in Seq(Nodes)
  PROVE  /\ Len(c) \in Nat
         /\ \A k \in 1 .. Len(c) : c[k] \in Nodes /\ c[k] # NULL
         /\ \A n : InChain(n, c) => n \in Nodes
BY LenProperties, ElementOfSeq, QueueAssumption DEF InChain

-------------------------------------------------------------------------------
(* The invariant begins, and survives every action *)

LEMMA Begins == Init => IInv
<1> SUFFICES ASSUME Init PROVE IInv
  OBVIOUS
<1>1. <<>> \in Seq(Nodes) /\ Len(<<>>) = 0
  BY EmptySeq
<1>2. TypeOK /\ DOMAIN done = Threads
  BY DEF Init, TypeOK
<1>3. OneInside
  BY QueueAssumption DEF Init, OneInside, Inside
<1>4. Linked(<<>>) /\ Ended(<<>>) /\ Kept(<<>>)
  BY <1>1 DEF Init, Linked, Ended, Kept, InChain, Holding
<1>5. \A t \in Threads : AtHand(t, <<>>)
  BY DEF Init, AtHand, Holding
<1> QED
  BY <1>1, <1>2, <1>3, <1>4, <1>5 DEF IInv, Sound, IsList

LEMMA StutterSound == \A c : Sound(c) /\ UNCHANGED vars => Sound(c)'
<1> SUFFICES ASSUME NEW c, Sound(c), UNCHANGED vars PROVE Sound(c)'
  OBVIOUS
<1> USE DEF vars, heap, locals
<1>1. TypeOK' /\ (DOMAIN done = Threads)' /\ OneInside'
  BY DEF Sound, TypeOK, OneInside
<1>2. Linked(c)' /\ Ended(c)'
  BY DEF Sound, IsList, Linked, Ended
<1>3. Kept(c)'
  BY DEF Sound, IsList, Kept
<1>4. \A t \in Threads : AtHand(t, c)'
  BY DEF Sound, IsList, AtHand
<1> QED
  BY <1>1, <1>2, <1>3, <1>4 DEF Sound, IsList

LEMMA AddBeginsSound ==
  ASSUME NEW c \in Seq(Nodes), Sound(c), NEW t \in Threads, NEW v \in Values, AddBegins(t, v)
  PROVE  Sound(c)'
<1>1. /\ pc[t] = "idle" /\ mutex = NULL /\ mutex' = t
      /\ arg' = [arg EXCEPT ![t] = v]
      /\ Goes(t, "add")
      /\ front' = front /\ back' = back /\ next' = next /\ val' = val /\ allocated' = allocated
      /\ node' = node /\ i' = i /\ done' = done
  BY DEF AddBegins, Locks, heap
<1>2. TypeOK /\ DOMAIN done = Threads /\ OneInside /\ IsList(c)
  BY DEF Sound
<1>3. /\ pc' \in [Threads -> Steps] /\ pc'[t] = "add"
      /\ \A u \in Threads \ {t} : pc'[u] = pc[u]
  BY <1>1, <1>2, Moves DEF Steps
<1>4. /\ arg' \in [Threads -> Values \cup {EMPTY}] /\ arg'[t] = v
      /\ \A u \in Threads \ {t} : arg'[u] = arg[u]
  BY <1>1, <1>2 DEF TypeOK
<1>5. TypeOK'
  BY <1>1, <1>2, <1>3, <1>4 DEF TypeOK, Steps
<1>6. OneInside'
  BY <1>1, <1>2, <1>3, StillOneInside DEF Inside
<1>7. \A u \in Threads : pc[u] \notin Inside
  BY <1>1, <1>2, Nobody
<1>8. Linked(c)'
  BY <1>1, <1>2 DEF IsList, Linked
<1>9. Ended(c)'
  BY <1>1, <1>2, <1>7 DEF IsList, Ended, Inside
<1>10. Kept(c)'
  BY <1>1, <1>2, <1>3 DEF IsList, Kept, Holding
<1>11. \A u \in Threads : AtHand(u, c)'
  BY <1>3, <1>4, <1>7 DEF AtHand, Holding, Inside
<1> QED
  BY <1>1, <1>2, <1>5, <1>6, <1>8, <1>9, <1>10, <1>11 DEF Sound, IsList

LEMMA AddAllocatesSound ==
  ASSUME NEW c \in Seq(Nodes), Sound(c), NEW t \in Threads, AddAllocates(t)
  PROVE  /\ Sound(c)'
         /\ \A k \in 1 .. Len(c) : val'[c[k]] = val[c[k]]
<1>1. PICK n \in Nodes \ allocated :
        /\ allocated' = allocated \cup {n}
        /\ val' = [val EXCEPT ![n] = arg[t]]
        /\ next' = [next EXCEPT ![n] = NULL]
        /\ node' = [node EXCEPT ![t] = n]
  BY DEF AddAllocates
<1>2. /\ pc[t] = "add"
      /\ Goes(t, "link")
      /\ front' = front /\ back' = back /\ mutex' = mutex /\ arg' = arg /\ i' = i /\ done' = done
  BY DEF AddAllocates
<1>3. TypeOK /\ DOMAIN done = Threads /\ OneInside /\ IsList(c) /\ arg[t] \in Values
  BY <1>2 DEF Sound, IsList, AtHand
<1>4. /\ pc' \in [Threads -> Steps] /\ pc'[t] = "link"
      /\ \A u \in Threads \ {t} : pc'[u] = pc[u]
  BY <1>2, <1>3, Moves DEF Steps
<1>5. /\ node' \in [Threads -> Nodes \cup {NULL, Junk}] /\ node'[t] = n
      /\ \A u \in Threads \ {t} : node'[u] = node[u]
      /\ val' \in [Nodes -> Values \cup {Junk}] /\ val'[n] = arg[t]
      /\ next' \in [Nodes -> Nodes \cup {NULL, Junk}] /\ next'[n] = NULL
      /\ \A m \in Nodes \ {n} : val'[m] = val[m] /\ next'[m] = next[m]
  BY <1>1, <1>3 DEF TypeOK
<1>6. \A u \in Threads \ {t} : pc[u] \notin Inside /\ pc'[u] \notin Inside
  BY <1>2, <1>3, <1>4, Alone DEF Inside
<1>7. pc[t] \notin Holding /\ \A u \in Threads \ {t} : pc[u] \notin Holding
  BY <1>2, <1>6 DEF Holding, Inside
<1>8. \A k \in 1 .. Len(c) : c[k] \in Nodes /\ c[k] # n
  BY <1>1, <1>3, ChainFacts DEF IsList, Kept, InChain
<1>9. TypeOK'
  BY <1>1, <1>2, <1>3, <1>4, <1>5 DEF TypeOK, Steps
<1>10. OneInside'
  BY <1>2, <1>3, <1>4, StillOneInside DEF Inside
<1>11. Linked(c)'
  BY <1>2, <1>3, <1>5, <1>8 DEF IsList, Linked
<1>12. Ended(c)'
  BY <1>2, <1>3, <1>6 DEF IsList, Ended, Inside
<1>13. Kept(c)'
  <2>1. \A m \in Nodes : m \in allocated <=> InChain(m, c)
    BY <1>3, <1>7 DEF IsList, Kept
  <2>2. \A m \in Nodes : (\E u \in Threads : pc'[u] \in Holding /\ node'[u] = m) <=> m = n
    BY <1>4, <1>5, <1>6 DEF Holding, Inside
  <2>3. \A k \in 1 .. Len(c) : val'[c[k]] \in Values
    BY <1>3, <1>5, <1>8 DEF IsList, Kept
  <2> QED
    BY <1>1, <2>1, <2>2, <2>3 DEF Kept, InChain
<1>14. ASSUME NEW u \in Threads PROVE AtHand(u, c)'
  <2>1. CASE u = t
    <3>1. ~ InChain(n, c)
      BY <1>8 DEF InChain
    <3> QED
      BY <1>1, <1>2, <1>3, <1>4, <1>5, <2>1, <3>1 DEF AtHand, InChain, Holding
  <2>2. CASE u # t
    BY <1>6, <2>2 DEF AtHand, Holding, Inside
  <2> QED
    BY <2>1, <2>2
<1> QED
  BY <1>2, <1>3, <1>5, <1>8, <1>9, <1>10, <1>11, <1>12, <1>13, <1>14 DEF Sound, IsList

LEMMA AddLinksSound ==
  ASSUME NEW c \in Seq(Nodes), Sound(c), NEW t \in Threads, AddLinks(t),
         NEW d \in Seq(Nodes), d = Append(c, node[t])
  PROVE  /\ Sound(d)'
         /\ Len(d) = Len(c) + 1
         /\ \A k \in 1 .. Len(d) : val'[d[k]] = val[d[k]]
         /\ val[d[Len(d)]] = arg[t]
<1>1. /\ pc[t] = "link"
      /\ Goes(t, "back")
      /\ back' = back /\ mutex' = mutex /\ val' = val /\ allocated' = allocated
      /\ arg' = arg /\ node' = node /\ i' = i /\ done' = done
      /\ \/ back # NULL /\ next' = [next EXCEPT ![back] = node[t]] /\ front' = front
         \/ back = NULL /\ front' = node[t] /\ next' = next
  BY DEF AddLinks, locals
<1>2. /\ TypeOK /\ DOMAIN done = Threads /\ OneInside /\ IsList(c)
      /\ arg[t] \in Values /\ node[t] \in Nodes /\ ~ InChain(node[t], c)
      /\ next[node[t]] = NULL /\ val[node[t]] = arg[t]
  BY <1>1 DEF Sound, IsList, AtHand, Holding
<1>3. PICK n \in Nodes : n = node[t]
  BY <1>2
<1>4. PICK l \in Nat : l = Len(c)
  BY ChainFacts
<1>5. /\ Len(d) = l + 1 /\ d[l + 1] = n
      /\ \A k \in 1 .. l : d[k] = c[k] /\ c[k] \in Nodes /\ c[k] # n
  BY <1>2, <1>3, <1>4, ChainFacts, AppendProperties DEF InChain
<1>6. \A k \in 1 .. l + 1 : k \in 1 .. l \/ k = l + 1
  BY <1>4
<1>7. /\ pc' \in [Threads -> Steps] /\ pc'[t] = "back"
      /\ \A u \in Threads \ {t} : pc'[u] = pc[u]
  BY <1>1, <1>2, Moves DEF Steps
<1>8. \A u \in Threads \ {t} : pc[u] \notin Inside /\ pc'[u] \notin Inside
  BY <1>1, <1>2, <1>7, Alone DEF Inside
<1>9. /\ l = 0 => back = NULL /\ front = NULL
      /\ l > 0 => back = c[l] /\ front = c[1] /\ back \in Nodes
  <2>1. \A u \in Threads : pc[u] # "back"
    BY <1>1, <1>8 DEF Inside
  <2> QED
    BY <1>2, <1>4, <1>5, <2>1 DEF IsList, Ended, Linked
<1>10. /\ l = 0 => front' = n /\ next' = next
       /\ l > 0 => /\ front' = c[1]
                   /\ next' \in [Nodes -> Nodes \cup {NULL, Junk}]
                   /\ next'[c[l]] = n
                   /\ \A m \in Nodes \ {c[l]} : next'[m] = next[m]
  <2>1. CASE l = 0
    BY <1>1, <1>3, <1>9, <2>1
  <2>2. CASE l > 0
    <3>1. back # NULL /\ back \in Nodes /\ back = c[l]
      BY <1>2, <1>9, <2>2, QueueAssumption
    <3>2. next' = [next EXCEPT ![back] = n] /\ front' = front
      BY <1>1, <1>3, <3>1
    <3> QED
      BY <1>2, <1>9, <2>2, <3>1, <3>2 DEF TypeOK
  <2> QED
    BY <1>4, <2>1, <2>2
<1>11. next' \in [Nodes -> Nodes \cup {NULL, Junk}] /\ front' \in Nodes
  <2>1. CASE l = 0
    BY <1>2, <1>10, <2>1 DEF TypeOK
  <2>2. CASE l > 0
    BY <1>5, <1>10, <2>2
  <2> QED
    BY <1>4, <2>1, <2>2
<1>12. TypeOK'
  BY <1>1, <1>2, <1>7, <1>11 DEF TypeOK, Steps
<1>13. OneInside'
  BY <1>1, <1>2, <1>7, StillOneInside DEF Inside
<1>14. next'[n] = NULL /\ \A k \in 1 .. l : k < l => next'[c[k]] = c[k + 1]
  <2>1. next[n] = NULL /\ \A k \in 1 .. l : k < l => next[c[k]] = c[k + 1]
    BY <1>2, <1>3, <1>4 DEF IsList, Linked
  <2>2. CASE l = 0
    BY <1>10, <2>1, <2>2
  <2>3. CASE l > 0
    <3>1. n # c[l] /\ \A k \in 1 .. l : k < l => c[k] # c[l]
      BY <1>2, <1>4, <1>5, <2>3 DEF IsList, Linked
    <3> QED
      BY <1>5, <1>10, <2>1, <2>3, <3>1
  <2> QED
    BY <1>4, <2>2, <2>3
<1>15. Linked(d)'
  <2>1. \A j, k \in 1 .. l + 1 : d[j] = d[k] => j = k
    <3>1. \A j, k \in 1 .. l : c[j] = c[k] => j = k
      BY <1>2, <1>4 DEF IsList, Linked
    <3> QED
      BY <1>5, <1>6, <3>1
  <2>2. front' = d[1]
    <3>1. CASE l = 0
      BY <1>5, <1>10, <3>1
    <3>2. CASE l > 0
      BY <1>5, <1>10, <3>2
    <3> QED
      BY <1>4, <3>1, <3>2
  <2>3. \A k \in 1 .. l + 1 : k < l + 1 => next'[d[k]] = d[k + 1]
    <3> SUFFICES ASSUME NEW k \in 1 .. l PROVE next'[d[k]] = d[k + 1]
      BY <1>4
    <3>1. CASE k = l
      BY <1>4, <1>5, <1>10, <3>1
    <3>2. CASE k < l
      <4>1. k + 1 \in 1 .. l
        BY <1>4, <3>2
      <4>2. d[k] = c[k] /\ d[k + 1] = c[k + 1]
        BY <1>5, <4>1
      <4> QED
        BY <1>14, <3>2, <4>2
    <3> QED
      BY <1>4, <3>1, <3>2
  <2>4. next'[d[l + 1]] = NULL
    BY <1>5, <1>14
  <2> QED
    BY <1>4, <1>5, <2>1, <2>2, <2>3, <2>4 DEF Linked
<1>16. Ended(d)'
  BY <1>7 DEF Ended
<1>17. \A m : InChain(m, d) <=> InChain(m, c) \/ m = n
  BY <1>4, <1>5, <1>6 DEF InChain
<1>18. \A k \in 1 .. l + 1 : val[d[k]] \in Values
  <2>1. \A k \in 1 .. l : val[d[k]] \in Values
    BY <1>2, <1>4, <1>5 DEF IsList, Kept
  <2>2. val[d[l + 1]] \in Values
    BY <1>2, <1>3, <1>5
  <2> QED
    BY <1>6, <2>1, <2>2
<1>19. Kept(d)'
  <2>1. \A m \in Nodes : m \in allocated <=> InChain(m, c) \/ m = n
    <3>1. \A m \in Nodes : (\E u \in Threads : pc[u] \in Holding /\ node[u] = m) <=> m = n
      BY <1>1, <1>3, <1>8 DEF Holding, Inside
    <3> QED
      BY <1>2, <3>1 DEF IsList, Kept
  <2>2. \A u \in Threads : pc'[u] \notin Holding
    BY <1>7, <1>8 DEF Holding, Inside
  <2> QED
    BY <1>1, <1>5, <1>17, <1>18, <2>1, <2>2 DEF Kept, InChain
<1>20. ASSUME NEW u \in Threads PROVE AtHand(u, d)'
  <2>1. CASE u = t
    BY <1>1, <1>2, <1>3, <1>4, <1>5, <1>7, <2>1 DEF AtHand, Holding
  <2>2. CASE u # t
    BY <1>8, <2>2 DEF AtHand, Holding, Inside
  <2> QED
    BY <2>1, <2>2
<1>21. Sound(d)'
  BY <1>1, <1>2, <1>12, <1>13, <1>15, <1>16, <1>19, <1>20 DEF Sound, IsList
<1> QED
  BY <1>1, <1>2, <1>3, <1>4, <1>5, <1>21

LEMMA AddReturnsSound ==
  ASSUME NEW c \in Seq(Nodes), Sound(c), NEW t \in Threads, AddReturns(t)
  PROVE  Sound(c)'
<1>1. /\ pc[t] = "back"
      /\ back' = node[t] /\ mutex' = NULL
      /\ Returns(t, "addToQueue", arg[t])
      /\ front' = front /\ next' = next /\ val' = val /\ allocated' = allocated
  BY DEF AddReturns, heap
<1>2. TypeOK /\ DOMAIN done = Threads /\ OneInside /\ IsList(c)
  BY DEF Sound
<1>3. Len(c) > 0 /\ node[t] = c[Len(c)] /\ node[t] \in Nodes
  BY <1>1, <1>2, ChainFacts DEF IsList, AtHand
<1>4. /\ pc' \in [Threads -> Steps] /\ pc'[t] = "idle"
      /\ arg' \in [Threads -> Values \cup {EMPTY}]
      /\ node' \in [Threads -> Nodes \cup {NULL, Junk}]
      /\ i' \in [Threads -> Nat]
      /\ DOMAIN done' = DOMAIN done
      /\ \A u \in Threads \ {t} : pc'[u] = pc[u]
  BY <1>1, <1>2, Returning
<1>5. \A u \in Threads \ {t} : pc[u] \notin Inside /\ pc'[u] \notin Inside
  BY <1>1, <1>2, <1>4, Alone DEF Inside
<1>6. \A u \in Threads : pc'[u] \notin Inside
  BY <1>4, <1>5 DEF Inside
<1>7. TypeOK'
  BY <1>1, <1>2, <1>3, <1>4 DEF TypeOK, Steps
<1>8. OneInside'
  BY <1>1, <1>2, <1>4, StillOneInside DEF Inside
<1>9. Linked(c)'
  BY <1>1, <1>2 DEF IsList, Linked
<1>10. Ended(c)'
  BY <1>1, <1>3 DEF Ended
<1>11. Kept(c)'
  BY <1>1, <1>2, <1>5, <1>6 DEF IsList, Kept, Holding, Inside
<1>12. \A u \in Threads : AtHand(u, c)'
  BY <1>6 DEF AtHand, Holding, Inside
<1> QED
  BY <1>2, <1>4, <1>7, <1>8, <1>9, <1>10, <1>11, <1>12 DEF Sound, IsList

LEMMA RemoveBeginsSound ==
  ASSUME NEW c \in Seq(Nodes), Sound(c), NEW t \in Threads, RemoveBegins(t)
  PROVE  Sound(c)'
<1>1. /\ pc[t] = "idle" /\ mutex = NULL /\ mutex' = t
      /\ Goes(t, "remove")
      /\ front' = front /\ back' = back /\ next' = next /\ val' = val /\ allocated' = allocated
      /\ arg' = arg /\ node' = node /\ i' = i /\ done' = done
  BY DEF RemoveBegins, Locks, heap, locals
<1>2. TypeOK /\ DOMAIN done = Threads /\ OneInside /\ IsList(c)
  BY DEF Sound
<1>3. /\ pc' \in [Threads -> Steps] /\ pc'[t] = "remove"
      /\ \A u \in Threads \ {t} : pc'[u] = pc[u]
  BY <1>1, <1>2, Moves DEF Steps
<1>4. \A u \in Threads : pc[u] \notin Inside
  BY <1>1, <1>2, Nobody
<1>5. TypeOK'
  BY <1>1, <1>2, <1>3 DEF TypeOK, Steps
<1>6. OneInside'
  BY <1>1, <1>2, <1>3, StillOneInside DEF Inside
<1>7. Linked(c)'
  BY <1>1, <1>2 DEF IsList, Linked
<1>8. Ended(c)'
  BY <1>1, <1>2, <1>4 DEF IsList, Ended, Inside
<1>9. Kept(c)'
  BY <1>1, <1>2, <1>3 DEF IsList, Kept, Holding
<1>10. \A u \in Threads : AtHand(u, c)'
  BY <1>3, <1>4 DEF AtHand, Holding, Inside
<1> QED
  BY <1>1, <1>2, <1>5, <1>6, <1>7, <1>8, <1>9, <1>10 DEF Sound, IsList

LEMMA RemoveFindsNothingSound ==
  ASSUME NEW c \in Seq(Nodes), Sound(c), NEW t \in Threads, RemoveFindsNothing(t)
  PROVE  Sound(c)'
<1>1. /\ pc[t] = "remove" /\ mutex' = NULL
      /\ Returns(t, "removeFromQueue", EMPTY)
      /\ front' = front /\ back' = back /\ next' = next /\ val' = val /\ allocated' = allocated
  BY DEF RemoveFindsNothing, heap
<1>2. TypeOK /\ DOMAIN done = Threads /\ OneInside /\ IsList(c)
  BY DEF Sound
<1>3. /\ pc' \in [Threads -> Steps] /\ pc'[t] = "idle"
      /\ arg' \in [Threads -> Values \cup {EMPTY}]
      /\ node' \in [Threads -> Nodes \cup {NULL, Junk}]
      /\ i' \in [Threads -> Nat]
      /\ DOMAIN done' = DOMAIN done
      /\ \A u \in Threads \ {t} : pc'[u] = pc[u]
  BY <1>1, <1>2, Returning
<1>4. \A u \in Threads \ {t} : pc[u] \notin Inside
  BY <1>1, <1>2, Alone DEF Inside
<1>5. \A u \in Threads : pc'[u] \notin Inside
  BY <1>3, <1>4 DEF Inside
<1>6. TypeOK'
  BY <1>1, <1>2, <1>3 DEF TypeOK, Steps
<1>7. OneInside'
  BY <1>1, <1>2, <1>3, StillOneInside DEF Inside
<1>8. Linked(c)'
  BY <1>1, <1>2 DEF IsList, Linked
<1>9. Ended(c)'
  BY <1>1, <1>2, <1>4 DEF IsList, Ended, Inside
<1>10. Kept(c)'
  BY <1>1, <1>2, <1>4, <1>5 DEF IsList, Kept, Holding, Inside
<1>11. \A u \in Threads : AtHand(u, c)'
  BY <1>5 DEF AtHand, Holding, Inside
<1> QED
  BY <1>2, <1>3, <1>6, <1>7, <1>8, <1>9, <1>10, <1>11 DEF Sound, IsList

LEMMA RemoveTakesSound ==
  ASSUME NEW c \in Seq(Nodes), Sound(c), NEW t \in Threads, RemoveTakes(t),
         NEW d \in Seq(Nodes), d = Tail(c)
  PROVE  /\ Sound(d)'
         /\ Len(c) = Len(d) + 1
         /\ \A k \in 1 .. Len(d) : d[k] = c[k + 1]
         /\ node'[t] = c[1]
<1>1. /\ pc[t] = "remove" /\ front # NULL
      /\ node' = [node EXCEPT ![t] = front]
      /\ front' = next[front]
      /\ back' = IF next[front] = NULL THEN NULL ELSE back
      /\ Goes(t, "free")
      /\ mutex' = mutex /\ next' = next /\ val' = val /\ allocated' = allocated
      /\ arg' = arg /\ i' = i /\ done' = done
  BY DEF RemoveTakes, heap
<1>2. TypeOK /\ DOMAIN done = Threads /\ OneInside /\ IsList(c)
  BY DEF Sound
<1>3. Len(c) \in Nat /\ Len(c) > 0 /\ front = c[1] /\ front \in Nodes
  BY <1>1, <1>2, ChainFacts DEF IsList, Linked
<1>4. PICK l \in Nat : l + 1 = Len(c)
  <2>1. Len(c) - 1 \in Nat /\ (Len(c) - 1) + 1 = Len(c)
    BY <1>3
  <2> QED
    BY <2>1
<1>5. PICK n \in Nodes : n = front
  BY <1>3
<1>6. Len(d) = l /\ \A k \in 1 .. l : d[k] = c[k + 1] /\ k + 1 \in 1 .. Len(c)
  BY <1>3, <1>4, HeadTailProperties, EmptySeq
<1>7. \A k \in 1 .. Len(c) : k = 1 \/ \E j \in 1 .. l : k = j + 1
  <2> SUFFICES ASSUME NEW k \in 1 .. Len(c), k # 1 PROVE \E j \in 1 .. l : k = j + 1
    OBVIOUS
  <2>1. k - 1 \in 1 .. l /\ k = (k - 1) + 1
    BY <1>4
  <2> QED
    BY <2>1
<1>8. /\ l = 0 => next[n] = NULL
      /\ l > 0 => next[n] = c[2] /\ next[n] \in Nodes
  BY <1>2, <1>3, <1>4, <1>5, ChainFacts DEF IsList, Linked
<1>9. /\ node' \in [Threads -> Nodes \cup {NULL, Junk}] /\ node'[t] = n
      /\ \A u \in Threads \ {t} : node'[u] = node[u]
  BY <1>1, <1>2, <1>5 DEF TypeOK
<1>10. /\ pc' \in [Threads -> Steps] /\ pc'[t] = "free"
       /\ \A u \in Threads \ {t} : pc'[u] = pc[u]
  BY <1>1, <1>2, Moves DEF Steps
<1>11. \A u \in Threads \ {t} : pc[u] \notin Inside /\ pc'[u] \notin Inside
  BY <1>1, <1>2, <1>10, Alone DEF Inside
<1>12. /\ l = 0 => front' = NULL /\ back' = NULL
       /\ l > 0 => front' = c[2] /\ front' \in Nodes /\ back' = back
  BY <1>1, <1>5, <1>8, QueueAssumption
<1>13. front' \in Nodes \cup {NULL} /\ back' \in Nodes \cup {NULL}
  <2>1. CASE l = 0
    BY <1>12, <2>1
  <2>2. CASE l > 0
    BY <1>2, <1>12, <2>2 DEF TypeOK
  <2> QED
    BY <1>4, <2>1, <2>2
<1>14. TypeOK'
  BY <1>1, <1>2, <1>9, <1>10, <1>13 DEF TypeOK, Steps
<1>15. OneInside'
  BY <1>1, <1>2, <1>10, StillOneInside DEF Inside
<1>16. Linked(d)'
  <2>1. \A j, k \in 1 .. l : d[j] = d[k] => j = k
    BY <1>2, <1>4, <1>6 DEF IsList, Linked
  <2>2. l = 0 => front' = NULL
    BY <1>12
  <2>3. l > 0 => front' = d[1]
    BY <1>4, <1>6, <1>12
  <2>4. \A k \in 1 .. l : k < l => next[d[k]] = d[k + 1]
    <3> SUFFICES ASSUME NEW k \in 1 .. l, k < l PROVE next[d[k]] = d[k + 1]
      OBVIOUS
    <3>1. k + 1 \in 1 .. l /\ k + 1 < Len(c) /\ k + 1 \in 1 .. Len(c)
      BY <1>4
    <3>2. d[k] = c[k + 1] /\ d[k + 1] = c[(k + 1) + 1]
      BY <1>6, <3>1
    <3>3. next[c[k + 1]] = c[(k + 1) + 1]
      BY <1>2, <3>1 DEF IsList, Linked
    <3> QED
      BY <3>2, <3>3
  <2>5. \A k \in 1 .. l : k = l => next[d[k]] = NULL
    BY <1>2, <1>4, <1>6 DEF IsList, Linked
  <2> QED
    BY <1>1, <1>6, <2>1, <2>2, <2>3, <2>4, <2>5 DEF Linked
<1>17. Ended(d)'
  <2>1. \A u \in Threads : pc[u] # "back"
    BY <1>1, <1>11 DEF Inside
  <2>2. back = c[Len(c)]
    BY <1>2, <1>3, <2>1 DEF IsList, Ended
  <2>3. l > 0 => back' = d[l]
    BY <1>4, <1>6, <1>12, <2>2
  <2> QED
    BY <1>6, <1>12, <2>3 DEF Ended
<1>18. \A m : InChain(m, c) <=> InChain(m, d) \/ m = n
  <2>1. \A m : InChain(m, d) \/ m = n => InChain(m, c)
    BY <1>3, <1>5, <1>6 DEF InChain
  <2>2. \A m : InChain(m, c) => InChain(m, d) \/ m = n
    BY <1>3, <1>5, <1>6, <1>7 DEF InChain
  <2> QED
    BY <2>1, <2>2
<1>19. ~ InChain(n, d)
  <2> SUFFICES ASSUME NEW k \in 1 .. l, d[k] = n PROVE FALSE
    BY <1>6 DEF InChain
  <2>1. c[k + 1] = c[1] /\ k + 1 \in 1 .. Len(c) /\ 1 \in 1 .. Len(c) /\ k + 1 # 1
    BY <1>3, <1>4, <1>5, <1>6
  <2> QED
    BY <1>2, <2>1 DEF IsList, Linked
<1>20. val[n] \in Values /\ \A k \in 1 .. l : val[d[k]] \in Values
  BY <1>2, <1>3, <1>5, <1>6 DEF IsList, Kept
<1>21. Kept(d)'
  <2>1. \A m \in Nodes : m \in allocated <=> InChain(m, c)
    BY <1>1, <1>2, <1>11 DEF IsList, Kept, Holding, Inside
  <2>2. \A m \in Nodes : (\E u \in Threads : pc'[u] \in Holding /\ node'[u] = m) <=> m = n
    BY <1>9, <1>10, <1>11 DEF Holding, Inside
  <2> QED
    BY <1>1, <1>6, <1>18, <1>20, <2>1, <2>2 DEF Kept, InChain
<1>22. ASSUME NEW u \in Threads PROVE AtHand(u, d)'
  <2>1. CASE u = t
    <3>1. next[n] \in Nodes \cup {NULL}
      BY <1>4, <1>8
    <3> QED
      BY <1>1, <1>9, <1>10, <1>19, <1>20, <2>1, <3>1 DEF AtHand, InChain, Holding
  <2>2. CASE u # t
    BY <1>11, <2>2 DEF AtHand, Holding, Inside
  <2> QED
    BY <2>1, <2>2
<1>23. Sound(d)'
  BY <1>1, <1>2, <1>14, <1>15, <1>16, <1>17, <1>21, <1>22 DEF Sound, IsList
<1> QED
  BY <1>3, <1>4, <1>5, <1>6, <1>9, <1>23

LEMMA RemoveReturnsSound ==
  ASSUME NEW c \in Seq(Nodes), Sound(c), NEW t \in Threads, RemoveReturns(t)
  PROVE  /\ Sound(c)'
         /\ \A k \in 1 .. Len(c) : val'[c[k]] = val[c[k]]
<1>1. /\ pc[t] = "free"
      /\ Returns(t, "removeFromQueue", val[node[t]])
      /\ allocated' = allocated \ {node[t]}
      /\ next' = [next EXCEPT ![node[t]] = Junk]
      /\ val' = [val EXCEPT ![node[t]] = Junk]
      /\ mutex' = NULL /\ front' = front /\ back' = back
  BY DEF RemoveReturns
<1>2. /\ TypeOK /\ DOMAIN done = Threads /\ OneInside /\ IsList(c)
      /\ node[t] \in Nodes /\ ~ InChain(node[t], c)
  BY <1>1 DEF Sound, IsList, AtHand, Holding
<1>3. PICK n \in Nodes : n = node[t]
  BY <1>2
<1>4. /\ pc' \in [Threads -> Steps] /\ pc'[t] = "idle"
      /\ arg' \in [Threads -> Values \cup {EMPTY}]
      /\ node' \in [Threads -> Nodes \cup {NULL, Junk}]
      /\ i' \in [Threads -> Nat]
      /\ DOMAIN done' = DOMAIN done
      /\ \A u \in Threads \ {t} : pc'[u] = pc[u]
  BY <1>1, <1>2, Returning
<1>5. /\ next' \in [Nodes -> Nodes \cup {NULL, Junk}]
      /\ val' \in [Nodes -> Values \cup {Junk}]
      /\ \A m \in Nodes \ {n} : next'[m] = next[m] /\ val'[m] = val[m]
  BY <1>1, <1>2, <1>3 DEF TypeOK
<1>6. \A u \in Threads \ {t} : pc[u] \notin Inside
  BY <1>1, <1>2, Alone DEF Inside
<1>7. \A u \in Threads : pc'[u] \notin Inside
  BY <1>4, <1>6 DEF Inside
<1>8. \A k \in 1 .. Len(c) : c[k] \in Nodes /\ c[k] # n
  BY <1>2, <1>3, ChainFacts DEF InChain
<1>9. TypeOK'
  BY <1>1, <1>2, <1>4, <1>5 DEF TypeOK, Steps
<1>10. OneInside'
  BY <1>1, <1>2, <1>4, StillOneInside DEF Inside
<1>11. Linked(c)'
  BY <1>1, <1>2, <1>5, <1>8 DEF IsList, Linked
<1>12. Ended(c)'
  BY <1>1, <1>2, <1>6 DEF IsList, Ended, Inside
<1>13. Kept(c)'
  <2>1. \A m \in Nodes : m \in allocated <=> InChain(m, c) \/ m = n
    <3>1. \A m \in Nodes : (\E u \in Threads : pc[u] \in Holding /\ node[u] = m) <=> m = n
      BY <1>1, <1>3, <1>6 DEF Holding, Inside
    <3> QED
      BY <1>2, <3>1 DEF IsList, Kept
  <2>2. \A k \in 1 .. Len(c) : val'[c[k]] \in Values
    BY <1>2, <1>5, <1>8 DEF IsList, Kept
  <2>3. \A m \in Nodes : m \in allocated' <=> InChain(m, c)
    BY <1>1, <1>2, <1>3, <2>1
  <2>4. \A u \in Threads : pc'[u] \notin Holding
    BY <1>7 DEF Holding, Inside
  <2> QED
    BY <2>2, <2>3, <2>4 DEF Kept, InChain
<1>14. \A u \in Threads : AtHand(u, c)'
  BY <1>7 DEF AtHand, Holding, Inside
<1> QED
  BY <1>2, <1>4, <1>5, <1>8, <1>9, <1>10, <1>11, <1>12, <1>13, <1>14 DEF Sound, IsList

\* A thread outside the locked calls that leaves the list alone.
LEMMA LeavesListSound ==
  ASSUME NEW c \in Seq(Nodes), Sound(c), NEW t \in Threads,
         TypeOK', DOMAIN done' = Threads,
         front' = front, back' = back, mutex' = mutex,
         next' = next, val' = val, allocated' = allocated,
         pc[t] \notin Inside, pc'[t] \notin Inside,
         \A u \in Threads \ {t} : pc'[u] = pc[u] /\ arg'[u] = arg[u] /\ node'[u] = node[u]
  PROVE  Sound(c)'
<1>1. OneInside /\ IsList(c)
  BY DEF Sound
<1>2. OneInside'
  BY <1>1, StillOneInside
<1>3. Linked(c)'
  BY <1>1 DEF IsList, Linked
<1>4. Ended(c)'
  BY <1>1 DEF IsList, Ended, Inside
<1>5. Kept(c)'
  <2>1. \A u \in Threads : pc'[u] \in Holding <=> pc[u] \in Holding
    BY DEF Holding, Inside
  <2>2. \A u \in Threads : pc[u] \in Holding => node'[u] = node[u]
    BY DEF Holding, Inside
  <2>3. \A m : (\E u \in Threads : pc'[u] \in Holding /\ node'[u] = m)
                 <=> \E u \in Threads : pc[u] \in Holding /\ node[u] = m
    BY <2>1, <2>2
  <2> QED
    BY <1>1, <2>3 DEF IsList, Kept
<1>6. ASSUME NEW u \in Threads PROVE AtHand(u, c)'
  <2>1. CASE u = t
    BY <2>1 DEF AtHand, Holding, Inside
  <2>2. CASE u # t
    BY <1>1, <2>2 DEF IsList, AtHand
  <2> QED
    BY <2>1, <2>2
<1> QED
  BY <1>2, <1>3, <1>4, <1>5, <1>6 DEF Sound, IsList

LEMMA SizeBeginsSound ==
  ASSUME NEW c \in Seq(Nodes), Sound(c), NEW t \in Threads, SizeBegins(t)
  PROVE  Sound(c)'
<1>1. /\ pc[t] = "idle"
      /\ front' = front /\ back' = back /\ mutex' = mutex
      /\ next' = next /\ val' = val /\ allocated' = allocated
      /\ \/ Returns(t, "queueSize", 0)
         \/ /\ node' = [node EXCEPT ![t] = front]
            /\ Goes(t, "count")
            /\ arg' = arg /\ i' = i /\ done' = done
  BY DEF SizeBegins, heap
<1>2. TypeOK /\ DOMAIN done = Threads
  BY DEF Sound
<1>3. CASE Returns(t, "queueSize", 0)
  <2>1. /\ pc' \in [Threads -> Steps] /\ pc'[t] = "idle"
        /\ arg' \in [Threads -> Values \cup {EMPTY}]
        /\ node' \in [Threads -> Nodes \cup {NULL, Junk}]
        /\ i' \in [Threads -> Nat]
        /\ DOMAIN done' = DOMAIN done
        /\ \A u \in Threads \ {t} : pc'[u] = pc[u] /\ arg'[u] = arg[u] /\ node'[u] = node[u]
    BY <1>2, <1>3, Returning, ZenonT(60)
  <2>2. TypeOK'
    BY <1>1, <1>2, <2>1 DEF TypeOK, Steps
  <2> QED
    BY <1>1, <1>2, <2>1, <2>2, LeavesListSound DEF Inside
<1>4. CASE /\ node' = [node EXCEPT ![t] = front]
           /\ Goes(t, "count")
           /\ arg' = arg /\ i' = i /\ done' = done
  <2>1. /\ pc' \in [Threads -> Steps] /\ pc'[t] = "count"
        /\ \A u \in Threads \ {t} : pc'[u] = pc[u]
    BY <1>2, <1>4, Moves DEF Steps
  <2>2. /\ node' \in [Threads -> Nodes \cup {NULL, Junk}]
        /\ \A u \in Threads \ {t} : node'[u] = node[u]
    BY <1>2, <1>4 DEF TypeOK
  <2>3. TypeOK'
    BY <1>1, <1>2, <1>4, <2>1, <2>2 DEF TypeOK, Steps
  <2> QED
    BY <1>1, <1>2, <1>4, <2>1, <2>2, <2>3, LeavesListSound DEF Inside
<1> QED
  BY <1>1, <1>3, <1>4

LEMMA SizeCountsSound ==
  ASSUME NEW c \in Seq(Nodes), Sound(c), NEW t \in Threads, SizeCounts(t)
  PROVE  Sound(c)'
<1>1. /\ pc[t] = "count" /\ node[t] \in Nodes
      /\ front' = front /\ back' = back /\ mutex' = mutex
      /\ next' = next /\ val' = val /\ allocated' = allocated
      /\ \/ Returns(t, "queueSize", i[t] + 1)
         \/ /\ next[node[t]] # NULL
            /\ node' = [node EXCEPT ![t] = next[node[t]]]
            /\ i' = [i EXCEPT ![t] = @ + 1]
            /\ pc' = pc /\ arg' = arg /\ done' = done
  BY DEF SizeCounts, heap
<1>2. TypeOK /\ DOMAIN done = Threads
  BY DEF Sound
<1>3. CASE Returns(t, "queueSize", i[t] + 1)
  <2>1. /\ pc' \in [Threads -> Steps] /\ pc'[t] = "idle"
        /\ arg' \in [Threads -> Values \cup {EMPTY}]
        /\ node' \in [Threads -> Nodes \cup {NULL, Junk}]
        /\ i' \in [Threads -> Nat]
        /\ DOMAIN done' = DOMAIN done
        /\ \A u \in Threads \ {t} : pc'[u] = pc[u] /\ arg'[u] = arg[u] /\ node'[u] = node[u]
    BY <1>2, <1>3, Returning, ZenonT(60)
  <2>2. TypeOK'
    BY <1>1, <1>2, <2>1 DEF TypeOK, Steps
  <2> QED
    BY <1>1, <1>2, <2>1, <2>2, LeavesListSound DEF Inside
<1>4. CASE /\ next[node[t]] # NULL
           /\ node' = [node EXCEPT ![t] = next[node[t]]]
           /\ i' = [i EXCEPT ![t] = @ + 1]
           /\ pc' = pc /\ arg' = arg /\ done' = done
  <2>1. next[node[t]] \in Nodes \cup {Junk}
    BY <1>1, <1>2, <1>4 DEF TypeOK
  <2>2. /\ node' \in [Threads -> Nodes \cup {NULL, Junk}]
        /\ i' \in [Threads -> Nat]
        /\ \A u \in Threads \ {t} : node'[u] = node[u]
    BY <1>2, <1>4, <2>1 DEF TypeOK
  <2>3. TypeOK'
    BY <1>1, <1>2, <1>4, <2>2 DEF TypeOK
  <2> QED
    BY <1>1, <1>2, <1>4, <2>2, <2>3, LeavesListSound DEF Inside
<1> QED
  BY <1>1, <1>3, <1>4

\* What a step of a thread is.
LEMMA StepCases ==
  ASSUME Next
  PROVE  \/ \E t \in Adders, v \in Values : AddBegins(t, v)
         \/ \E t \in Adders : AddAllocates(t)
         \/ \E t \in Adders : AddLinks(t)
         \/ \E t \in Adders : AddReturns(t)
         \/ \E t \in Removers : RemoveBegins(t)
         \/ \E t \in Removers : RemoveFindsNothing(t)
         \/ \E t \in Removers : RemoveTakes(t)
         \/ \E t \in Removers : RemoveReturns(t)
         \/ \E t \in Counters : SizeBegins(t)
         \/ \E t \in Counters : SizeCounts(t)
BY Zenon DEF Next

LEMMA AddedIsSeq ==
  ASSUME NEW c \in Seq(Nodes), Sound(c), NEW t \in Threads, AddLinks(t)
  PROVE  Append(c, node[t]) \in Seq(Nodes)
BY AppendProperties DEF AddLinks, Sound, IsList, AtHand, Holding

LEMMA TakenIsSeq ==
  ASSUME NEW c \in Seq(Nodes), Sound(c), NEW t \in Threads, RemoveTakes(t)
  PROVE  Tail(c) \in Seq(Nodes)
<1>1. Len(c) \in Nat /\ Len(c) # 0
  BY ChainFacts DEF RemoveTakes, Sound, IsList, Linked
<1> QED
  BY <1>1, HeadTailProperties, EmptySeq

LEMMA StepSound == IInv /\ [Next]_vars => IInv'
<1> SUFFICES ASSUME IInv, [Next]_vars PROVE IInv'
  OBVIOUS
<1>1. PICK c \in Seq(Nodes) : Sound(c)
  BY DEF IInv
<1>2. CASE UNCHANGED vars
  BY <1>1, <1>2, StutterSound DEF IInv
<1>3. CASE \E t \in Adders, v \in Values : AddBegins(t, v)
  <2>1. Sound(c)'
    BY <1>1, <1>3, AddBeginsSound DEF Threads
  <2> QED
    BY <2>1 DEF IInv
<1>4. CASE \E t \in Adders : AddAllocates(t)
  <2>1. Sound(c)'
    BY <1>1, <1>4, AddAllocatesSound DEF Threads
  <2> QED
    BY <2>1 DEF IInv
<1>5. CASE \E t \in Adders : AddLinks(t)
  <2>1. PICK t \in Threads : AddLinks(t)
    BY <1>5 DEF Threads
  <2>2. PICK d \in Seq(Nodes) : d = Append(c, node[t])
    BY <1>1, <2>1, AddedIsSeq
  <2>3. Sound(d)'
    BY <1>1, <2>1, <2>2, AddLinksSound
  <2> QED
    BY <2>3 DEF IInv
<1>6. CASE \E t \in Adders : AddReturns(t)
  <2>1. Sound(c)'
    BY <1>1, <1>6, AddReturnsSound DEF Threads
  <2> QED
    BY <2>1 DEF IInv
<1>7. CASE \E t \in Removers : RemoveBegins(t)
  <2>1. Sound(c)'
    BY <1>1, <1>7, RemoveBeginsSound DEF Threads
  <2> QED
    BY <2>1 DEF IInv
<1>8. CASE \E t \in Removers : RemoveFindsNothing(t)
  <2>1. Sound(c)'
    BY <1>1, <1>8, RemoveFindsNothingSound DEF Threads
  <2> QED
    BY <2>1 DEF IInv
<1>9. CASE \E t \in Removers : RemoveTakes(t)
  <2>1. PICK t \in Threads : RemoveTakes(t)
    BY <1>9 DEF Threads
  <2>2. PICK d \in Seq(Nodes) : d = Tail(c)
    BY <1>1, <2>1, TakenIsSeq
  <2>3. Sound(d)'
    BY <1>1, <2>1, <2>2, RemoveTakesSound
  <2> QED
    BY <2>3 DEF IInv
<1>10. CASE \E t \in Removers : RemoveReturns(t)
  <2>1. Sound(c)'
    BY <1>1, <1>10, RemoveReturnsSound DEF Threads
  <2> QED
    BY <2>1 DEF IInv
<1>11. CASE \E t \in Counters : SizeBegins(t)
  <2>1. Sound(c)'
    BY <1>1, <1>11, SizeBeginsSound DEF Threads
  <2> QED
    BY <2>1 DEF IInv
<1>12. CASE \E t \in Counters : SizeCounts(t)
  <2>1. Sound(c)'
    BY <1>1, <1>12, SizeCountsSound DEF Threads
  <2> QED
    BY <2>1 DEF IInv
<1> QED
  BY <1>2, <1>3, <1>4, <1>5, <1>6, <1>7, <1>8, <1>9, <1>10, <1>11, <1>12, StepCases

-------------------------------------------------------------------------------
(* The list as the properties of Queue read it off the memory *)

\* Every non-empty set of natural numbers has a least element.
LEMMA LeastNumber ==
  ASSUME NEW T, T \subseteq Nat, T # {}
  PROVE  \E x \in T : \A y \in T : x <= y
<1> DEFINE R == OpToRel(<, Nat)
<1>1. IsWellFoundedOn(R, Nat)
  BY NatLessThanWellFounded, Zenon
<1> HIDE DEF R
<1>2. PICK x \in T : \A y \in T : ~ (<<y, x>> \in R)
  BY <1>1, WFMin
<1>3. \A y \in T : y < x => <<y, x>> \in R
  BY DEF R, OpToRel
<1>4. \A y \in T : ~ (y < x)
  BY <1>2, <1>3
<1>5. \A y \in T : y \in Nat
  OBVIOUS
<1>6. \A y \in T : x <= y
  BY <1>4, <1>5
<1> QED
  BY <1>6

\* The node k steps behind the front is the one at place k + 1 of the list.
LEMMA BehindIs ==
  ASSUME NEW c \in Seq(Nodes), Sound(c), NEW k \in Nat
  PROVE  /\ k < Len(c) => Behind(k) = c[k + 1]
         /\ k >= Len(c) => Behind(k) = NULL
<1> DEFINE Place(j) == IF j < Len(c) THEN c[j + 1] ELSE NULL
           g == [j \in 0 .. k |-> Place(j)]
<1>1. /\ TypeOK /\ IsList(c) /\ Len(c) \in Nat
  BY ChainFacts DEF Sound
<1>2. \A j \in 0 .. k : j # 0 => j - 1 \in 0 .. k /\ (j - 1) + 1 = j
  OBVIOUS
<1>3. Follow(NULL) = NULL
  BY <1>1, QueueAssumption DEF TypeOK, Follow
<1>4. \A n \in Nodes : InChain(n, c) => Follow(n) = next[n]
  BY <1>1 DEF IsList, Kept, Follow
<1>5. Place(0) = front
  BY <1>1 DEF IsList, Linked
<1>6. ASSUME NEW j \in Nat, j # 0 PROVE Place(j) = Follow(Place(j - 1))
  <2>1. CASE j < Len(c)
    <3>1. j \in 1 .. Len(c) /\ j - 1 < Len(c) /\ (j - 1) + 1 = j
      BY <1>1, <1>6, <2>1
    <3>2. c[j] \in Nodes /\ InChain(c[j], c) /\ next[c[j]] = c[j + 1]
      BY <1>1, <2>1, <3>1, ChainFacts DEF IsList, Linked, InChain
    <3> QED
      BY <1>4, <2>1, <3>1, <3>2
  <2>2. CASE j = Len(c)
    <3>1. j \in 1 .. Len(c) /\ j - 1 < Len(c) /\ (j - 1) + 1 = j /\ ~ (j < Len(c))
      BY <1>1, <1>6, <2>2
    <3>2. c[j] \in Nodes /\ InChain(c[j], c) /\ next[c[j]] = NULL
      BY <1>1, <2>2, <3>1, ChainFacts DEF IsList, Linked, InChain
    <3> QED
      BY <1>4, <3>1, <3>2
  <2>3. CASE j > Len(c)
    <3>1. ~ (j < Len(c)) /\ ~ (j - 1 < Len(c))
      BY <1>1, <2>3
    <3> QED
      BY <1>3, <3>1
  <2> QED
    BY <1>1, <2>1, <2>2, <2>3
<1> HIDE DEF Place
<1>7. g = [j \in 0 .. k |-> IF j = 0 THEN front ELSE Follow(g[j - 1])]
  <2>1. \A j \in 0 .. k : Place(j) = IF j = 0 THEN front ELSE Follow(g[j - 1])
    BY <1>2, <1>5, <1>6
  <2> QED
    BY <2>1
<1> HIDE DEF g
<1>8. PICK f : /\ f = [j \in 0 .. k |-> IF j = 0 THEN front ELSE Follow(f[j - 1])]
               /\ Behind(k) = f[k]
  BY <1>7 DEF Behind
<1>9. f[0] = front /\ \A j \in 0 .. k : j # 0 => f[j] = Follow(f[j - 1])
  BY <1>8
<1> DEFINE Bad == {j \in 0 .. k : f[j] # Place(j)}
<1>10. Bad = {}
  <2> SUFFICES ASSUME Bad # {} PROVE FALSE
    OBVIOUS
  <2>1. PICK j \in Bad : \A m \in Bad : j <= m
    <3>1. Bad \subseteq Nat
      OBVIOUS
    <3> QED
      BY <3>1, LeastNumber
  <2>2. j # 0
    BY <1>5, <1>9
  <2>3. j - 1 \in 0 .. k /\ j - 1 \notin Bad /\ j \in Nat
    BY <1>2, <2>1, <2>2
  <2>4. f[j - 1] = Place(j - 1)
    BY <2>3
  <2>5. f[j] = Place(j)
    BY <1>6, <1>9, <2>2, <2>3, <2>4
  <2> QED
    BY <2>5
<1>11. Behind(k) = Place(k)
  BY <1>8, <1>10
<1> QED
  BY <1>1, <1>11 DEF Place

LEMMA ListFits ==
  ASSUME NEW c \in Seq(Nodes), Sound(c)
  PROVE  Len(c) \in Nat /\ Cardinality(Nodes) \in Nat /\ Len(c) <= Cardinality(Nodes)
<1>1. IsList(c) /\ Len(c) \in Nat /\ \A k \in 1 .. Len(c) : c[k] \in Nodes
  BY ChainFacts DEF Sound
<1> DEFINE f == [k \in 1 .. Len(c) |-> c[k]]
<1>2. f \in Injection(1 .. Len(c), Nodes)
  BY <1>1 DEF IsList, Linked, Injection, IsInjective
<1> HIDE DEF f
<1>3. Cardinality(1 .. Len(c)) <= Cardinality(Nodes)
  <2>1. IsFiniteSet(Nodes)
    BY QueueAssumption
  <2> QED
    BY <1>2, <2>1, FS_Injection
<1>4. Cardinality(1 .. Len(c)) = Len(c)
  <2>1. PICK l \in Nat : l = Len(c)
    BY <1>1
  <2>2. Cardinality(1 .. l) = IF 1 > l THEN 0 ELSE l - 1 + 1
    BY FS_Interval
  <2>3. Cardinality(1 .. l) = l
    BY <2>2
  <2> QED
    BY <2>1, <2>3
<1> QED
  BY <1>1, <1>3, <1>4, QueueAssumption, FS_CardinalityType

\* Length and Chain are those of the sequence that the invariant speaks of.
LEMMA ChainIs ==
  \A c \in Seq(Nodes) : Sound(c) => Length = Len(c) /\ Chain = c
<1> SUFFICES ASSUME NEW c \in Seq(Nodes), Sound(c) PROVE Length = Len(c) /\ Chain = c
  OBVIOUS
<1>1. PICK l \in Nat : l = Len(c)
  BY ChainFacts
<1>2. Cardinality(Nodes) \in Nat /\ l <= Cardinality(Nodes)
  BY <1>1, ListFits
<1>3. \A k \in Nat : Behind(k) \in Nodes <=> k < l
  <2> SUFFICES ASSUME NEW k \in Nat PROVE Behind(k) \in Nodes <=> k < l
    OBVIOUS
  <2>1. CASE k < l
    <3>1. k + 1 \in 1 .. l
      BY <2>1
    <3> QED
      BY <1>1, <2>1, <3>1, BehindIs, ChainFacts
  <2>2. CASE k >= l
    BY <1>1, <2>2, BehindIs, QueueAssumption
  <2> QED
    BY <2>1, <2>2
<1>4. {k \in 0 .. Cardinality(Nodes) : Behind(k) \in Nodes} = 0 .. l - 1
  BY <1>2, <1>3
<1>5. Cardinality(0 .. l - 1) = l
  BY FS_Interval
<1>6. Length = l
  BY <1>4, <1>5 DEF Length
<1>7. \A k \in 1 .. l : Behind(k - 1) = c[k]
  <2> SUFFICES ASSUME NEW k \in 1 .. l PROVE Behind(k - 1) = c[k]
    OBVIOUS
  <2>1. k - 1 \in Nat /\ k - 1 < l /\ (k - 1) + 1 = k
    OBVIOUS
  <2> QED
    BY <1>1, <2>1, BehindIs
<1>8. Chain = [k \in 1 .. l |-> c[k]]
  BY <1>6, <1>7 DEF Chain
<1>9. c = [k \in 1 .. l |-> c[k]]
  BY <1>1
<1> QED
  BY <1>1, <1>6, <1>8, <1>9

LEMMA ChainNext == (\A c \in Seq(Nodes) : Sound(c) => Length = Len(c) /\ Chain = c)'
BY ChainIs, PTL

LEMMA Whole == IInv => ListWhole
<1> SUFFICES ASSUME IInv PROVE ListWhole
  OBVIOUS
<1>1. PICK c \in Seq(Nodes) : Sound(c)
  BY DEF IInv
<1>2. TypeOK /\ IsList(c)
  BY <1>1 DEF Sound
<1>3. Length = Len(c) /\ Chain = c
  BY <1>1, ChainIs
<1>4. Len(c) <= Cardinality(Nodes)
  BY <1>1, ListFits
<1>5. DOMAIN c = 1 .. Len(c)
  BY LenProperties
<1>6. IsInjective(c)
  BY <1>2, <1>5 DEF IsList, Linked, IsInjective
<1> DEFINE inHand == {node[t] : t \in {u \in Threads : pc[u] \in {"link", "free"}}}
<1>7. \A n : n \in Range(c) <=> InChain(n, c)
  BY <1>5 DEF Range, InChain
<1>8. \A n : n \in inHand <=> \E t \in Threads : pc[t] \in Holding /\ node[t] = n
  BY DEF Holding
<1> HIDE DEF inHand
<1>9. Range(c) \cap inHand = {}
  BY <1>2, <1>7, <1>8 DEF IsList, AtHand
<1>10. allocated = Range(c) \cup inHand
  <2>1. allocated \subseteq Nodes /\ \A n : n \in Range(c) \/ n \in inHand => n \in Nodes
    BY <1>2, <1>7, <1>8, ChainFacts DEF TypeOK, IsList, AtHand
  <2>2. \A n \in Nodes : n \in allocated <=> n \in Range(c) \/ n \in inHand
    BY <1>2, <1>7, <1>8 DEF IsList, Kept
  <2> QED
    BY <2>1, <2>2
<1>11. (\A t \in Threads : pc[t] # "back") => back = IF Len(c) = 0 THEN NULL ELSE c[Len(c)]
  BY <1>2, ChainFacts DEF IsList, Ended
<1>12. ~ (\E t \in Threads : pc[t] = "back")
         => back = IF Len(c) = 0 THEN NULL ELSE c[Len(c)]
  BY <1>11
<1> QED
  BY <1>3, <1>4, <1>6, <1>9, <1>10, <1>12 DEF ListWhole, inHand

-------------------------------------------------------------------------------
(* For every set of threads, every set of values and any finite memory *)

\* In every state, whatever the interleaving of the calls, some sequence of
\* nodes is the list: front, the next pointers and back lead along it, and the
\* memory that malloc gave is this sequence and the one node in the hands of
\* the thread that holds the mutex (addToQueue and removeFromQueue; queueSize,
\* which does not lock, changes none of it).
THEOREM AlwaysSound == Spec => []IInv
BY Begins, StepSound, PTL DEF Spec

\* Fields and locals keep the types of their declarations: front and back, by
\* which the locked calls walk the list, are never junk, however many threads add
\* and remove.  The local of queueSize may be.
THEOREM AlwaysTyped == Spec => []TypeOK
<1>1. IInv => TypeOK
  BY DEF IInv, Sound
<1> QED
  BY <1>1, AlwaysSound, PTL

\* The list that front leads along has no node twice and ends where back says,
\* and no node leaks or is freed while it is linked.
THEOREM AlwaysWhole == Spec => []ListWhole
BY AlwaysSound, Whole, PTL

-------------------------------------------------------------------------------
(* The calls take effect one at a time, as on a FIFO queue, when no more   *)
(* than one thread removes, and it is the only one that counts.            *)

\* queueSize is at the place of the list that its count says.
Counting(t, c) ==
  /\ pc[t] = "count" => /\ t \in Counters
                        /\ i[t] < Len(c)
                        /\ node[t] = c[i[t] + 1]
  /\ pc[t] # "count" => i[t] = 0
Counts(c) == \A t \in Threads : Counting(t, c)

RInv == \E c \in Seq(Nodes) : Sound(c) /\ Counts(c)

\* What Queue stands for in FifoQueue.
Queued == [k \in 1 .. Length |-> val[Chain[k]]]
InEffects == [t \in Threads |-> InEffect(t)]

LEMMA QueuedIs ==
  \A c \in Seq(Nodes) : Sound(c) =>
    /\ Queued \in Seq(Values)
    /\ Len(Queued) = Len(c)
    /\ \A k \in 1 .. Len(c) : Queued[k] = val[c[k]]
<1> SUFFICES ASSUME NEW c \in Seq(Nodes), Sound(c)
             PROVE  /\ Queued \in Seq(Values)
                    /\ Len(Queued) = Len(c)
                    /\ \A k \in 1 .. Len(c) : Queued[k] = val[c[k]]
  OBVIOUS
<1>1. PICK l \in Nat : l = Len(c)
  BY ChainFacts
<1>2. Queued = [k \in 1 .. l |-> val[c[k]]]
  BY <1>1, ChainIs DEF Queued
<1>3. \A k \in 1 .. l : val[c[k]] \in Values
  BY <1>1 DEF Sound, IsList, Kept
<1>4. Queued \in Seq(Values) /\ Len(Queued) = l
  BY <1>2, <1>3
<1> QED
  BY <1>1, <1>2, <1>4

LEMMA QueuedNext ==
  (\A c \in Seq(Nodes) : Sound(c) =>
     /\ Queued \in Seq(Values)
     /\ Len(Queued) = Len(c)
     /\ \A k \in 1 .. Len(c) : Queued[k] = val[c[k]])'
BY QueuedIs, PTL

LEMMA SameQueued ==
  ASSUME NEW c \in Seq(Nodes), Sound(c), Sound(c)',
         \A k \in 1 .. Len(c) : val'[c[k]] = val[c[k]]
  PROVE  Queued' = Queued
<1>1. PICK q \in Seq(Values) : q = Queued
  BY QueuedIs
<1>2. PICK r \in Seq(Values) : r = Queued'
  BY QueuedNext
<1>3. Len(q) = Len(c) /\ Len(r) = Len(c)
  BY <1>1, <1>2, QueuedIs, QueuedNext
<1>4. \A k \in 1 .. Len(c) : q[k] = r[k]
  BY <1>1, <1>2, QueuedIs, QueuedNext
<1>5. q = r
  BY <1>3, <1>4, SeqEqual
<1> QED
  BY <1>1, <1>2, <1>5

\* A call of another thread stays as it is.
LEMMA EffectKept ==
  ASSUME NEW u \in Threads,
         pc'[u] = pc[u], arg'[u] = arg[u], node'[u] = node[u], done'[u] = done[u],
         pc[u] = "free" => val'[node[u]] = val[node[u]]
  PROVE  InEffect(u)' = InEffect(u)
<1>1. CASE pc[u] = "back"
  BY <1>1 DEF InEffect
<1>2. CASE pc[u] = "free"
  BY <1>2 DEF InEffect
<1>3. CASE pc[u] # "back" /\ pc[u] # "free"
  BY <1>3 DEF InEffect
<1> QED
  BY <1>1, <1>2, <1>3

LEMMA OneTakesEffect ==
  ASSUME NEW t \in Threads, NEW op, NEW v,
         InEffect(t)' = [op |-> op, val |-> v],
         \A u \in Threads \ {t} : InEffect(u)' = InEffect(u)
  PROVE  InEffects' = [InEffects EXCEPT ![t] = [op |-> op, val |-> v]]
BY DEF InEffects

LEMMA NoneTakesEffect ==
  ASSUME \A u \in Threads : InEffect(u)' = InEffect(u)
  PROVE  InEffects' = InEffects
BY DEF InEffects

LEMMA Stutters ==
  ASSUME Queued' = Queued, InEffects' = InEffects
  PROVE  UNCHANGED Abstract!vars
BY DEF Abstract!vars, Queued, InEffects

LEMMA AddBeginsImplements ==
  ASSUME NEW c \in Seq(Nodes), Sound(c), Counts(c),
         NEW t \in Threads, NEW v \in Values, AddBegins(t, v)
  PROVE  Counts(c)' /\ UNCHANGED Abstract!vars
<1>1. /\ pc[t] = "idle" /\ Goes(t, "add") /\ arg' = [arg EXCEPT ![t] = v]
      /\ val' = val /\ node' = node /\ i' = i /\ done' = done /\ TypeOK
  BY DEF AddBegins, heap, Sound
<1>2. pc'[t] = "add" /\ \A u \in Threads \ {t} : pc'[u] = pc[u] /\ arg'[u] = arg[u]
  BY <1>1, Moves DEF Steps, TypeOK
<1>3. Counts(c)'
  BY <1>1, <1>2 DEF Counts, Counting
<1>4. InEffect(t)' = InEffect(t)
  BY <1>1, <1>2 DEF InEffect
<1>5. \A u \in Threads \ {t} : InEffect(u)' = InEffect(u)
  BY <1>1, <1>2, EffectKept
<1>6. Queued' = Queued
  BY <1>1, AddBeginsSound, SameQueued
<1> QED
  BY <1>3, <1>4, <1>5, <1>6, NoneTakesEffect, Stutters

LEMMA AddAllocatesImplements ==
  ASSUME NEW c \in Seq(Nodes), Sound(c), Counts(c), NEW t \in Threads, AddAllocates(t)
  PROVE  Counts(c)' /\ UNCHANGED Abstract!vars
<1>1. /\ pc[t] = "add" /\ Goes(t, "link")
      /\ arg' = arg /\ i' = i /\ done' = done
      /\ \E n : node' = [node EXCEPT ![t] = n]
      /\ TypeOK /\ OneInside
  BY DEF AddAllocates, Sound
<1>2. /\ pc'[t] = "link"
      /\ \A u \in Threads \ {t} : pc'[u] = pc[u] /\ node'[u] = node[u]
  BY <1>1, Moves DEF Steps, TypeOK
<1>3. \A u \in Threads \ {t} : pc[u] # "free"
  BY <1>1, Alone DEF Inside
<1>4. Counts(c)'
  BY <1>1, <1>2 DEF Counts, Counting
<1>5. InEffect(t)' = InEffect(t)
  BY <1>1, <1>2 DEF InEffect
<1>6. \A u \in Threads \ {t} : InEffect(u)' = InEffect(u)
  BY <1>1, <1>2, <1>3, EffectKept
<1>7. Queued' = Queued
  BY AddAllocatesSound, SameQueued
<1> QED
  BY <1>4, <1>5, <1>6, <1>7, NoneTakesEffect, Stutters

LEMMA AddLinksImplements ==
  ASSUME NEW c \in Seq(Nodes), Sound(c), Counts(c), NEW t \in Threads, AddLinks(t),
         NEW d \in Seq(Nodes), d = Append(c, node[t])
  PROVE  Counts(d)' /\ Abstract!Add(t, arg[t]) /\ arg[t] \in Values
<1>1. /\ pc[t] = "link" /\ Goes(t, "back")
      /\ val' = val /\ arg' = arg /\ node' = node /\ i' = i /\ done' = done
      /\ TypeOK /\ arg[t] \in Values /\ node[t] \in Nodes
  BY DEF AddLinks, locals, Sound, IsList, AtHand, Holding
<1>2. pc'[t] = "back" /\ \A u \in Threads \ {t} : pc'[u] = pc[u]
  BY <1>1, Moves DEF Steps
<1>3. Sound(d)' /\ Len(d) = Len(c) + 1 /\ val[d[Len(d)]] = arg[t]
  BY AddLinksSound
<1>4. PICK l \in Nat : l = Len(c)
  BY ChainFacts
<1>5. \A k \in 1 .. l : d[k] = c[k]
  BY <1>1, <1>4, AppendProperties
<1>6. ASSUME NEW u \in Threads PROVE Counting(u, d)'
  <2>1. Counting(u, c) /\ i[u] \in Nat
    BY <1>1 DEF Counts, TypeOK
  <2>2. CASE u = t
    BY <1>1, <1>2, <2>1, <2>2 DEF Counting
  <2>3. CASE u # t
    <3>1. pc[u] = "count" => i[u] + 1 \in 1 .. l /\ i[u] < l + 1
      BY <1>4, <2>1 DEF Counting
    <3> QED
      BY <1>1, <1>2, <1>3, <1>4, <1>5, <2>1, <2>3, <3>1 DEF Counting
  <2> QED
    BY <2>2, <2>3
<1>7. Counts(d)'
  BY <1>6 DEF Counts
<1>8. InEffect(t)' = [op |-> "addToQueue", val |-> arg[t]]
  BY <1>1, <1>2 DEF InEffect
<1>9. \A u \in Threads \ {t} : InEffect(u)' = InEffect(u)
  BY <1>1, <1>2, EffectKept
<1>10. Queued' = Append(Queued, arg[t])
  <2>1. PICK q \in Seq(Values) : q = Queued
    BY QueuedIs
  <2>2. PICK r \in Seq(Values) : r = Queued'
    BY <1>3, QueuedNext
  <2>3. PICK a \in Seq(Values) : a = Append(q, arg[t])
    BY <1>1, AppendProperties
  <2>4. Len(q) = l /\ \A k \in 1 .. l : q[k] = val[c[k]]
    BY <1>4, <2>1, QueuedIs
  <2>5. Len(r) = l + 1 /\ \A k \in 1 .. l + 1 : r[k] = val[d[k]]
    BY <1>1, <1>3, <1>4, <2>2, QueuedNext
  <2>6. Len(a) = l + 1 /\ a[l + 1] = arg[t] /\ \A k \in 1 .. l : a[k] = q[k]
    <3>1. PICK v \in Values : v = arg[t]
      BY <1>1
    <3>2. a = Append(q, v)
      BY <2>3, <3>1
    <3>3. Len(a) = Len(q) + 1 /\ a[Len(q) + 1] = v /\ \A k \in 1 .. Len(q) : a[k] = q[k]
      BY <3>2, AppendProperties
    <3> QED
      BY <2>4, <3>1, <3>3
  <2>7. ASSUME NEW k \in 1 .. l + 1 PROVE r[k] = a[k]
    <3>1. CASE k \in 1 .. l
      <4>1. r[k] = val[d[k]]
        BY <2>5
      <4>2. d[k] = c[k] /\ a[k] = q[k] /\ q[k] = val[c[k]]
        BY <1>5, <2>4, <2>6, <3>1
      <4> QED
        BY <4>1, <4>2
    <3>2. CASE k = l + 1
      BY <1>3, <1>4, <2>5, <2>6, <3>2
    <3> QED
      BY <3>1, <3>2
  <2>8. r = a
    BY <2>5, <2>6, <2>7, SeqEqual
  <2> QED
    BY <2>1, <2>2, <2>3, <2>8
<1>11. InEffects' = [InEffects EXCEPT ![t] = [op |-> "addToQueue", val |-> arg[t]]]
  BY <1>8, <1>9, OneTakesEffect
<1> QED
  BY <1>1, <1>7, <1>10, <1>11 DEF Abstract!Add, Abstract!Done, Queued, InEffects

LEMMA AddReturnsImplements ==
  ASSUME NEW c \in Seq(Nodes), Sound(c), Counts(c), NEW t \in Threads, AddReturns(t)
  PROVE  Counts(c)' /\ UNCHANGED Abstract!vars
<1>1. /\ pc[t] = "back" /\ Returns(t, "addToQueue", arg[t]) /\ val' = val
      /\ TypeOK /\ DOMAIN done = Threads
  BY DEF AddReturns, heap, Sound
<1>2. /\ pc'[t] = "idle" /\ i'[t] = 0 /\ done'[t] = [op |-> "addToQueue", val |-> arg[t]]
      /\ \A u \in Threads \ {t} : /\ pc'[u] = pc[u]
                                  /\ arg'[u] = arg[u]
                                  /\ node'[u] = node[u]
                                  /\ i'[u] = i[u]
                                  /\ done'[u] = done[u]
  BY <1>1, Returning
<1>3. Counts(c)'
  BY <1>2 DEF Counts, Counting
<1>4. InEffect(t)' = InEffect(t)
  BY <1>1, <1>2 DEF InEffect
<1>5. \A u \in Threads \ {t} : InEffect(u)' = InEffect(u)
  BY <1>1, <1>2, EffectKept
<1>6. Queued' = Queued
  BY <1>1, AddReturnsSound, SameQueued
<1> QED
  BY <1>3, <1>4, <1>5, <1>6, NoneTakesEffect, Stutters

LEMMA RemoveBeginsImplements ==
  ASSUME NEW c \in Seq(Nodes), Sound(c), Counts(c), NEW t \in Threads, RemoveBegins(t)
  PROVE  Counts(c)' /\ UNCHANGED Abstract!vars
<1>1. /\ pc[t] = "idle" /\ Goes(t, "remove")
      /\ val' = val /\ arg' = arg /\ node' = node /\ i' = i /\ done' = done /\ TypeOK
  BY DEF RemoveBegins, heap, locals, Sound
<1>2. pc'[t] = "remove" /\ \A u \in Threads \ {t} : pc'[u] = pc[u]
  BY <1>1, Moves DEF Steps
<1>3. Counts(c)'
  BY <1>1, <1>2 DEF Counts, Counting
<1>4. InEffect(t)' = InEffect(t)
  BY <1>1, <1>2 DEF InEffect
<1>5. \A u \in Threads \ {t} : InEffect(u)' = InEffect(u)
  BY <1>1, <1>2, EffectKept
<1>6. Queued' = Queued
  BY <1>1, RemoveBeginsSound, SameQueued
<1> QED
  BY <1>3, <1>4, <1>5, <1>6, NoneTakesEffect, Stutters

LEMMA RemoveFindsNothingImplements ==
  ASSUME NEW c \in Seq(Nodes), Sound(c), Counts(c), NEW t \in Threads, RemoveFindsNothing(t)
  PROVE  Counts(c)' /\ Abstract!Remove(t)
<1>1. /\ pc[t] = "remove" /\ front = NULL /\ Returns(t, "removeFromQueue", EMPTY) /\ val' = val
      /\ TypeOK /\ DOMAIN done = Threads /\ IsList(c)
  BY DEF RemoveFindsNothing, heap, Sound
<1>2. /\ pc'[t] = "idle" /\ i'[t] = 0
      /\ done'[t] = [op |-> "removeFromQueue", val |-> EMPTY]
      /\ \A u \in Threads \ {t} : /\ pc'[u] = pc[u]
                                  /\ arg'[u] = arg[u]
                                  /\ node'[u] = node[u]
                                  /\ i'[u] = i[u]
                                  /\ done'[u] = done[u]
  BY <1>1, Returning
<1>3. Counts(c)'
  BY <1>2 DEF Counts, Counting
<1>4. InEffect(t)' = [op |-> "removeFromQueue", val |-> EMPTY]
  BY <1>2 DEF InEffect
<1>5. \A u \in Threads \ {t} : InEffect(u)' = InEffect(u)
  BY <1>1, <1>2, EffectKept
<1>6. Queued' = Queued
  BY <1>1, RemoveFindsNothingSound, SameQueued
<1>7. Queued = <<>>
  <2>1. Len(c) = 0
    BY <1>1, ChainFacts DEF IsList, Linked
  <2> QED
    BY <2>1, QueuedIs, EmptySeq
<1>8. InEffects' = [InEffects EXCEPT ![t] = [op |-> "removeFromQueue", val |-> EMPTY]]
  BY <1>4, <1>5, OneTakesEffect
<1> QED
  BY <1>3, <1>6, <1>7, <1>8 DEF Abstract!Remove, Abstract!Done, Queued, InEffects

LEMMA RemoveTakesImplements ==
  ASSUME NEW c \in Seq(Nodes), Sound(c), Counts(c), NEW t \in Threads, RemoveTakes(t),
         Counters \subseteq {t},
         NEW d \in Seq(Nodes), d = Tail(c)
  PROVE  Counts(d)' /\ Abstract!Remove(t)
<1>1. /\ pc[t] = "remove" /\ Goes(t, "free")
      /\ val' = val /\ arg' = arg /\ i' = i /\ done' = done
      /\ \E n : node' = [node EXCEPT ![t] = n]
      /\ TypeOK /\ OneInside
  BY DEF RemoveTakes, heap, Sound
<1>2. /\ pc'[t] = "free"
      /\ \A u \in Threads \ {t} : pc'[u] = pc[u] /\ node'[u] = node[u]
  BY <1>1, Moves DEF Steps, TypeOK
<1>3. /\ Sound(d)' /\ Len(c) = Len(d) + 1 /\ node'[t] = c[1]
      /\ \A k \in 1 .. Len(d) : d[k] = c[k + 1]
  BY RemoveTakesSound
<1>4. PICK l \in Nat : l = Len(d) /\ l + 1 = Len(c)
  BY <1>3, ChainFacts
<1>5. Counts(d)'
  <2>1. \A u \in Threads : pc[u] # "count" /\ pc'[u] # "count" /\ i'[u] = i[u]
    BY <1>1, <1>2 DEF Counts, Counting
  <2> QED
    BY <2>1 DEF Counts, Counting
<1>6. PICK q \in Seq(Values) : q = Queued
  BY QueuedIs
<1>7. PICK r \in Seq(Values) : r = Queued'
  BY <1>3, QueuedNext
<1>8. /\ Len(q) = l + 1 /\ 1 \in 1 .. Len(c)
      /\ \A k \in 1 .. l + 1 : q[k] = val[c[k]]
  BY <1>4, <1>6, QueuedIs
<1>9. Len(r) = l /\ \A k \in 1 .. l : r[k] = val[d[k]]
  BY <1>1, <1>3, <1>4, <1>7, QueuedNext
<1>10. q # <<>>
  BY <1>8, EmptySeq
<1>11. PICK a \in Seq(Values) : a = Tail(q)
  BY <1>10, HeadTailProperties
<1>12. Len(a) = l /\ \A k \in 1 .. l : a[k] = q[k + 1]
  BY <1>8, <1>10, <1>11, HeadTailProperties
<1>13. r = a
  <2>1. ASSUME NEW k \in 1 .. l PROVE r[k] = a[k]
    <3>1. k + 1 \in 1 .. l + 1
      BY <1>4
    <3>2. a[k] = q[k + 1] /\ q[k + 1] = val[c[k + 1]]
      BY <1>8, <1>12, <3>1
    <3>3. r[k] = val[d[k]] /\ d[k] = c[k + 1]
      BY <1>3, <1>4, <1>9
    <3> QED
      BY <3>2, <3>3
  <2> QED
    BY <1>9, <1>12, <2>1, SeqEqual
<1>14. Head(q) = val[c[1]]
  <2>1. Head(q) = q[1] /\ 1 \in 1 .. l + 1
    BY <1>4
  <2> QED
    BY <1>8, <2>1
<1>15. InEffect(t)' = [op |-> "removeFromQueue", val |-> Head(q)]
  BY <1>1, <1>2, <1>3, <1>14 DEF InEffect
<1>16. \A u \in Threads \ {t} : InEffect(u)' = InEffect(u)
  BY <1>1, <1>2, EffectKept
<1>17. InEffects' = [InEffects EXCEPT ![t] = [op |-> "removeFromQueue", val |-> Head(q)]]
  BY <1>15, <1>16, OneTakesEffect
<1>18. Queued # <<>> /\ Queued' = Tail(Queued)
  BY <1>6, <1>7, <1>10, <1>11, <1>13
<1>19. InEffects' = [InEffects EXCEPT ![t] = [op |-> "removeFromQueue", val |-> Head(Queued)]]
  BY <1>6, <1>17
<1> QED
  BY <1>5, <1>18, <1>19 DEF Abstract!Remove, Abstract!Done, Queued, InEffects

LEMMA RemoveReturnsImplements ==
  ASSUME NEW c \in Seq(Nodes), Sound(c), Counts(c), NEW t \in Threads, RemoveReturns(t)
  PROVE  Counts(c)' /\ UNCHANGED Abstract!vars
<1>1. /\ pc[t] = "free" /\ Returns(t, "removeFromQueue", val[node[t]])
      /\ TypeOK /\ DOMAIN done = Threads /\ OneInside
  BY DEF RemoveReturns, Sound
<1>2. /\ pc'[t] = "idle" /\ i'[t] = 0
      /\ done'[t] = [op |-> "removeFromQueue", val |-> val[node[t]]]
      /\ \A u \in Threads \ {t} : /\ pc'[u] = pc[u]
                                  /\ arg'[u] = arg[u]
                                  /\ node'[u] = node[u]
                                  /\ i'[u] = i[u]
                                  /\ done'[u] = done[u]
  BY <1>1, Returning
<1>3. \A u \in Threads \ {t} : pc[u] # "free"
  BY <1>1, Alone DEF Inside
<1>4. Counts(c)'
  BY <1>2 DEF Counts, Counting
<1>5. InEffect(t)' = InEffect(t)
  BY <1>1, <1>2 DEF InEffect
<1>6. \A u \in Threads \ {t} : InEffect(u)' = InEffect(u)
  BY <1>2, <1>3, EffectKept
<1>7. Queued' = Queued
  BY RemoveReturnsSound, SameQueued
<1> QED
  BY <1>4, <1>5, <1>6, <1>7, NoneTakesEffect, Stutters

LEMMA SizeBeginsImplements ==
  ASSUME NEW c \in Seq(Nodes), Sound(c), Counts(c), NEW t \in Counters, SizeBegins(t)
  PROVE  Counts(c)' /\ (UNCHANGED Abstract!vars \/ Abstract!Size(t))
<1>1. /\ pc[t] = "idle" /\ val' = val
      /\ t \in Threads /\ TypeOK /\ DOMAIN done = Threads /\ IsList(c) /\ i[t] = 0
      /\ \/ front = NULL /\ Returns(t, "queueSize", 0)
         \/ /\ front # NULL
            /\ node' = [node EXCEPT ![t] = front]
            /\ Goes(t, "count")
            /\ arg' = arg /\ i' = i /\ done' = done
  BY DEF SizeBegins, heap, Sound, Threads, Counts, Counting
<1>2. Queued' = Queued
  BY <1>1, SizeBeginsSound, SameQueued
<1>3. CASE front = NULL /\ Returns(t, "queueSize", 0)
  <2>1. /\ pc'[t] = "idle" /\ i'[t] = 0
        /\ done'[t] = [op |-> "queueSize", val |-> 0]
        /\ \A u \in Threads \ {t} : /\ pc'[u] = pc[u]
                                    /\ arg'[u] = arg[u]
                                    /\ node'[u] = node[u]
                                    /\ i'[u] = i[u]
                                    /\ done'[u] = done[u]
    BY <1>1, <1>3, Returning
  <2>2. Counts(c)'
    BY <2>1 DEF Counts, Counting
  <2>3. InEffect(t)' = [op |-> "queueSize", val |-> 0]
    BY <2>1 DEF InEffect
  <2>4. \A u \in Threads \ {t} : InEffect(u)' = InEffect(u)
    BY <1>1, <2>1, EffectKept
  <2>5. Len(Queued) = 0
    BY <1>1, <1>3, QueuedIs, ChainFacts DEF IsList, Linked
  <2>6. InEffects' = [InEffects EXCEPT ![t] = [op |-> "queueSize", val |-> 0]]
    BY <1>1, <2>3, <2>4, OneTakesEffect
  <2> QED
    BY <1>2, <2>2, <2>5, <2>6 DEF Abstract!Size, Abstract!Done, Queued, InEffects
<1>4. CASE /\ front # NULL
           /\ node' = [node EXCEPT ![t] = front]
           /\ Goes(t, "count")
           /\ arg' = arg /\ i' = i /\ done' = done
  <2>1. /\ pc'[t] = "count"
        /\ \A u \in Threads \ {t} : pc'[u] = pc[u]
    BY <1>1, <1>4, Moves DEF Steps
  <2>2. node'[t] = front /\ \A u \in Threads \ {t} : node'[u] = node[u]
    BY <1>1, <1>4 DEF TypeOK
  <2>3. Len(c) > 0 /\ front = c[1]
    BY <1>1, <1>4, ChainFacts DEF IsList, Linked
  <2>4. Counts(c)'
    BY <1>1, <1>4, <2>1, <2>2, <2>3 DEF Counts, Counting
  <2>5. InEffect(t)' = InEffect(t)
    BY <1>1, <1>4, <2>1 DEF InEffect
  <2>6. \A u \in Threads \ {t} : InEffect(u)' = InEffect(u)
    BY <1>1, <1>4, <2>1, <2>2, EffectKept
  <2> QED
    BY <1>2, <2>4, <2>5, <2>6, NoneTakesEffect, Stutters
<1> QED
  BY <1>1, <1>3, <1>4

LEMMA SizeCountsImplements ==
  ASSUME NEW c \in Seq(Nodes), Sound(c), Counts(c), NEW t \in Counters, SizeCounts(t)
  PROVE  Counts(c)' /\ (UNCHANGED Abstract!vars \/ Abstract!Size(t))
<1>1. /\ pc[t] = "count" /\ val' = val
      /\ t \in Threads /\ TypeOK /\ DOMAIN done = Threads /\ IsList(c)
      /\ i[t] \in Nat /\ i[t] < Len(c) /\ node[t] = c[i[t] + 1]
      /\ \/ next[node[t]] = NULL /\ Returns(t, "queueSize", i[t] + 1)
         \/ /\ next[node[t]] # NULL
            /\ node' = [node EXCEPT ![t] = next[node[t]]]
            /\ i' = [i EXCEPT ![t] = @ + 1]
            /\ pc' = pc /\ arg' = arg /\ done' = done
  BY DEF SizeCounts, heap, Sound, Threads, Counts, Counting, TypeOK
<1>2. Queued' = Queued
  BY <1>1, SizeCountsSound, SameQueued
<1>3. PICK p \in Nat : p = i[t] + 1
  BY <1>1
<1>4. PICK l \in Nat : l = Len(c)
  BY ChainFacts
<1>5. p \in 1 .. l /\ node[t] = c[p]
  BY <1>1, <1>3, <1>4
<1>6. /\ p < l => next[c[p]] = c[p + 1] /\ next[c[p]] # NULL
      /\ p = l => next[c[p]] = NULL
  <2>1. p < l => next[c[p]] = c[p + 1] /\ p + 1 \in 1 .. l
    BY <1>1, <1>4, <1>5 DEF IsList, Linked
  <2>2. p = l => next[c[p]] = NULL
    BY <1>1, <1>4, <1>5 DEF IsList, Linked
  <2> QED
    BY <1>4, <2>1, <2>2, ChainFacts
<1>7. CASE next[node[t]] = NULL /\ Returns(t, "queueSize", i[t] + 1)
  <2>1. /\ pc'[t] = "idle" /\ i'[t] = 0
        /\ done'[t] = [op |-> "queueSize", val |-> p]
        /\ \A u \in Threads \ {t} : /\ pc'[u] = pc[u]
                                    /\ arg'[u] = arg[u]
                                    /\ node'[u] = node[u]
                                    /\ i'[u] = i[u]
                                    /\ done'[u] = done[u]
    BY <1>1, <1>3, <1>7, Returning
  <2>2. Counts(c)'
    BY <2>1 DEF Counts, Counting
  <2>3. InEffect(t)' = [op |-> "queueSize", val |-> p]
    BY <2>1 DEF InEffect
  <2>4. \A u \in Threads \ {t} : InEffect(u)' = InEffect(u)
    BY <1>1, <2>1, EffectKept
  <2>5. Len(Queued) = p
    <3>1. p = l
      BY <1>5, <1>6, <1>7
    <3> QED
      BY <1>4, <3>1, QueuedIs
  <2>6. InEffects' = [InEffects EXCEPT ![t] = [op |-> "queueSize", val |-> p]]
    BY <1>1, <2>3, <2>4, OneTakesEffect
  <2> QED
    BY <1>2, <2>2, <2>5, <2>6 DEF Abstract!Size, Abstract!Done, Queued, InEffects
<1>8. CASE /\ next[node[t]] # NULL
           /\ node' = [node EXCEPT ![t] = next[node[t]]]
           /\ i' = [i EXCEPT ![t] = @ + 1]
           /\ pc' = pc /\ arg' = arg /\ done' = done
  <2>1. p < l /\ next[node[t]] = c[p + 1]
    BY <1>5, <1>6, <1>8
  <2>2. /\ node'[t] = c[p + 1] /\ i'[t] = p
        /\ \A u \in Threads \ {t} : node'[u] = node[u] /\ i'[u] = i[u]
    BY <1>1, <1>3, <1>8, <2>1 DEF TypeOK
  <2>3. ASSUME NEW u \in Threads PROVE Counting(u, c)'
    <3>1. CASE u = t
      BY <1>1, <1>4, <1>8, <2>1, <2>2, <3>1 DEF Counting
    <3>2. CASE u # t
      BY <1>8, <2>2, <3>2 DEF Counts, Counting
    <3> QED
      BY <3>1, <3>2
  <2>4. InEffect(t)' = InEffect(t)
    BY <1>1, <1>8 DEF InEffect
  <2>5. \A u \in Threads \ {t} : InEffect(u)' = InEffect(u)
    BY <1>1, <1>8, <2>2, EffectKept
  <2> QED
    BY <1>2, <2>3, <2>4, <2>5, NoneTakesEffect, Stutters DEF Counts
<1> QED
  BY <1>1, <1>7, <1>8

LEMMA StutterImplements ==
  ASSUME NEW c \in Seq(Nodes), Sound(c), Counts(c), UNCHANGED vars
  PROVE  Counts(c)' /\ UNCHANGED Abstract!vars
<1>1. pc' = pc /\ arg' = arg /\ node' = node /\ i' = i /\ done' = done /\ val' = val
  BY DEF vars, heap, locals
<1>2. Counts(c)'
  BY <1>1 DEF Counts, Counting
<1>3. \A u \in Threads : InEffect(u)' = InEffect(u)
  BY <1>1, EffectKept
<1>4. Queued' = Queued
  BY <1>1, StutterSound, SameQueued
<1> QED
  BY <1>2, <1>3, <1>4, NoneTakesEffect, Stutters

LEMMA BeginsImplements == Init => RInv /\ Abstract!Init
<1> SUFFICES ASSUME Init PROVE RInv /\ Abstract!Init
  OBVIOUS
<1>1. PICK c \in Seq(Nodes) : Sound(c)
  BY Begins DEF IInv
<1>2. Counts(c)
  BY DEF Init, Counts, Counting
<1>3. Queued = <<>>
  <2>1. Len(c) = 0
    <3>1. front = NULL
      BY DEF Init
    <3> QED
      BY <1>1, <3>1, ChainFacts DEF Sound, IsList, Linked
  <2> QED
    BY <1>1, <2>1, QueuedIs, EmptySeq
<1>4. InEffects = [t \in Threads |-> [op |-> "initQueue", val |-> EMPTY]]
  BY DEF Init, InEffects, InEffect
<1> QED
  BY <1>1, <1>2, <1>3, <1>4 DEF RInv, Abstract!Init, Queued, InEffects

LEMMA StepImplements ==
  ASSUME NEW r, Removers \subseteq {r}, Counters \subseteq {r}, RInv, [Next]_vars
  PROVE  RInv' /\ [Abstract!Next]_Abstract!vars
<1>1. PICK c \in Seq(Nodes) : Sound(c) /\ Counts(c)
  BY DEF RInv
<1>2. CASE UNCHANGED vars
  <2>1. Sound(c)' /\ Counts(c)' /\ UNCHANGED Abstract!vars
    BY <1>1, <1>2, StutterSound, StutterImplements
  <2> QED
    BY <2>1 DEF RInv
<1>3. CASE \E t \in Adders, v \in Values : AddBegins(t, v)
  <2>1. Sound(c)' /\ Counts(c)' /\ UNCHANGED Abstract!vars
    BY <1>1, <1>3, AddBeginsSound, AddBeginsImplements DEF Threads
  <2> QED
    BY <2>1 DEF RInv
<1>4. CASE \E t \in Adders : AddAllocates(t)
  <2>1. Sound(c)' /\ Counts(c)' /\ UNCHANGED Abstract!vars
    BY <1>1, <1>4, AddAllocatesSound, AddAllocatesImplements DEF Threads
  <2> QED
    BY <2>1 DEF RInv
<1>5. CASE \E t \in Adders : AddLinks(t)
  <2>1. PICK t \in Threads : AddLinks(t)
    BY <1>5 DEF Threads
  <2>2. PICK d \in Seq(Nodes) : d = Append(c, node[t])
    BY <1>1, <2>1, AddedIsSeq
  <2>3. Sound(d)' /\ Counts(d)' /\ Abstract!Add(t, arg[t]) /\ arg[t] \in Values
    BY <1>1, <2>1, <2>2, AddLinksSound, AddLinksImplements
  <2>4. \E v \in Values : Abstract!Add(t, v)
    <3>1. PICK v \in Values : v = arg[t]
      BY <2>3
    <3>2. Abstract!Add(t, v)
      BY <2>3, <3>1 DEF Abstract!Add, Abstract!Done
    <3> QED
      BY <3>2
  <2>5. Abstract!Next
    BY <2>4 DEF Abstract!Next
  <2> QED
    BY <2>3, <2>5 DEF RInv
<1>6. CASE \E t \in Adders : AddReturns(t)
  <2>1. Sound(c)' /\ Counts(c)' /\ UNCHANGED Abstract!vars
    BY <1>1, <1>6, AddReturnsSound, AddReturnsImplements DEF Threads
  <2> QED
    BY <2>1 DEF RInv
<1>7. CASE \E t \in Removers : RemoveBegins(t)
  <2>1. Sound(c)' /\ Counts(c)' /\ UNCHANGED Abstract!vars
    BY <1>1, <1>7, RemoveBeginsSound, RemoveBeginsImplements DEF Threads
  <2> QED
    BY <2>1 DEF RInv
<1>8. CASE \E t \in Removers : RemoveFindsNothing(t)
  <2>1. PICK t \in Threads : RemoveFindsNothing(t)
    BY <1>8 DEF Threads
  <2>2. Sound(c)' /\ Counts(c)' /\ Abstract!Remove(t)
    BY <1>1, <2>1, RemoveFindsNothingSound, RemoveFindsNothingImplements
  <2>3. Abstract!Next
    BY <2>2 DEF Abstract!Next
  <2> QED
    BY <2>2, <2>3 DEF RInv
<1>9. CASE \E t \in Removers : RemoveTakes(t)
  <2>1. PICK t \in Threads : RemoveTakes(t) /\ Counters \subseteq {t}
    BY <1>9 DEF Threads
  <2>2. PICK d \in Seq(Nodes) : d = Tail(c)
    BY <1>1, <2>1, TakenIsSeq
  <2>3. Sound(d)' /\ Counts(d)' /\ Abstract!Remove(t)
    BY <1>1, <2>1, <2>2, RemoveTakesSound, RemoveTakesImplements
  <2>4. Abstract!Next
    BY <2>3 DEF Abstract!Next
  <2> QED
    BY <2>3, <2>4 DEF RInv
<1>10. CASE \E t \in Removers : RemoveReturns(t)
  <2>1. Sound(c)' /\ Counts(c)' /\ UNCHANGED Abstract!vars
    BY <1>1, <1>10, RemoveReturnsSound, RemoveReturnsImplements DEF Threads
  <2> QED
    BY <2>1 DEF RInv
<1>11. CASE \E t \in Counters : SizeBegins(t)
  <2>1. PICK t \in Counters : SizeBegins(t)
    BY <1>11
  <2>2. t \in Threads
    BY DEF Threads
  <2>3. Sound(c)' /\ Counts(c)' /\ (UNCHANGED Abstract!vars \/ Abstract!Size(t))
    BY <1>1, <2>1, <2>2, SizeBeginsSound, SizeBeginsImplements
  <2>4. UNCHANGED Abstract!vars \/ Abstract!Next
    BY <2>2, <2>3 DEF Abstract!Next
  <2> QED
    BY <2>3, <2>4 DEF RInv
<1>12. CASE \E t \in Counters : SizeCounts(t)
  <2>1. PICK t \in Counters : SizeCounts(t)
    BY <1>12
  <2>2. t \in Threads
    BY DEF Threads
  <2>3. Sound(c)' /\ Counts(c)' /\ (UNCHANGED Abstract!vars \/ Abstract!Size(t))
    BY <1>1, <2>1, <2>2, SizeCountsSound, SizeCountsImplements
  <2>4. UNCHANGED Abstract!vars \/ Abstract!Next
    BY <2>2, <2>3 DEF Abstract!Next
  <2> QED
    BY <2>3, <2>4 DEF RInv
<1> QED
  BY <1>2, <1>3, <1>4, <1>5, <1>6, <1>7, <1>8, <1>9, <1>10, <1>11, <1>12, StepCases

\* With any number of threads that add and one that removes and counts, as
\* 2_2.c uses its queues, the calls of queue.c take effect one at a time, as on
\* a FIFO queue; queueSize, which takes no mutex, answers a size that the queue
\* has during the call.
THEOREM Implements ==
  ASSUME NEW r, Removers \subseteq {r}, Counters \subseteq {r}
  PROVE  Spec => ImplementsFifoQueue
<1>1. RInv /\ [Next]_vars => RInv' /\ [Abstract!Next]_Abstract!vars
  BY StepImplements
<1>2. Init => RInv /\ Abstract!Init
  BY BeginsImplements
<1> QED
  BY <1>1, <1>2, PTL DEF Spec, ImplementsFifoQueue, Abstract!Spec

================================================================================
