---------------------------- MODULE BlockListProofs ----------------------------
(***************************************************************************)
(* What holds of BlockList for any lists and any blocks: first of one ring *)
(* of links and the sequence of blocks around it, then of the calls.       *)
(***************************************************************************)
EXTENDS BlockList, FiniteSetTheorems, FunctionTheorems, SequenceTheorems,
        WellFoundedInduction, TLAPS

\* Every non-empty set of natural numbers has a least element.
LEMMA LeastNumber ==
  ASSUME NEW T, T \subseteq Nat, T # {}
  PROVE  \E x \in T : \A y \in T : x <= y
<1> DEFINE R == OpToRel(<, Nat)
<1>1. IsWellFoundedOn(R, Nat)
  BY NatLessThanWellFounded, Zenon
<1> HIDE DEF R
<1>2. PICK x \in T : \A y \in T : ~ (<<y, x>> \in R)
  BY <1>1, WFMin
<1>3. \A y \in T : y < x => <<y, x>> \in R
  BY DEF R, OpToRel
<1>4. \A y \in T : ~ (y < x)
  BY <1>2, <1>3
<1>5. \A y \in T : y \in Nat
  OBVIOUS
<1>6. \A y \in T : x <= y
  BY <1>4, <1>5
<1> QED
  BY <1>6

-------------------------------------------------------------------------------
(* A ring of links *)

\* The i-th node on the way round from the head l over the blocks t.
Ring(l, t, i) == IF i \in 1 .. Len(t) THEN t[i] ELSE l

Once(t) == \A i, j \in 1 .. Len(t) : t[i] = t[j] => i = j

\* n leads from the head over the blocks of t and back to it, p the other way.
Leads(n, l, t) == \A i \in 0 .. Len(t) : n[Ring(l, t, i)] = Ring(l, t, i + 1)
IsRing(n, p, l, t) ==
  /\ Leads(n, l, t)
  /\ \A i \in 0 .. Len(t) : p[Ring(l, t, i + 1)] = Ring(l, t, i)

\* What Bypassed and Linked do to the links.
Joined(n, p, e, n2, p2) == n2 = [n EXCEPT ![p[e]] = n[e]] /\ p2 = [p EXCEPT ![n[e]] = p[e]]
Joins(n, p, l, e, n2, p2) ==
  n2 = [n EXCEPT ![e] = l, ![p[l]] = e] /\ p2 = [p EXCEPT ![e] = p[l], ![l] = e]

Links == [Nodes -> Nodes \cup {Junk}]

\* The nodes on the way round.
LEMMA RingNodes ==
  ASSUME NEW l \in Lists, NEW t \in Seq(Blocks)
  PROVE  /\ Len(t) \in Nat
         /\ \A i \in 1 .. Len(t) : Ring(l, t, i) = t[i] /\ t[i] \in Blocks /\ t[i] \in Nodes /\ t[i] # l
         /\ Ring(l, t, 0) = l /\ Ring(l, t, Len(t) + 1) = l
         /\ \A i \in Int : Ring(l, t, i) \in Nodes
         /\ l \in Nodes /\ l \notin Blocks
<1>1. Len(t) \in Nat /\ \A i \in 1 .. Len(t) : t[i] \in Blocks
  OBVIOUS
<1>2. l \notin Blocks
  BY NodesAssumption
<1> QED
  BY <1>1, <1>2 DEF Ring, Nodes

\* No node comes twice before the way is back at the head.
LEMMA RingOnce ==
  ASSUME NEW l \in Lists, NEW t \in Seq(Blocks), Once(t)
  PROVE  /\ \A i, j \in 0 .. Len(t) : Ring(l, t, i) = Ring(l, t, j) => i = j
         /\ \A i, j \in 1 .. Len(t) + 1 : Ring(l, t, i) = Ring(l, t, j) => i = j
<1>1. /\ Len(t) \in Nat
      /\ \A i \in 1 .. Len(t) : t[i] # l
  BY RingNodes
<1>2. ASSUME NEW i \in 0 .. Len(t), NEW j \in 0 .. Len(t), Ring(l, t, i) = Ring(l, t, j)
      PROVE  i = j
  <2>1. i = 0 \/ i \in 1 .. Len(t)
    BY <1>1
  <2>2. j = 0 \/ j \in 1 .. Len(t)
    BY <1>1
  <2> QED
    BY <1>1, <1>2, <2>1, <2>2 DEF Ring, Once
<1>3. ASSUME NEW i \in 1 .. Len(t) + 1, NEW j \in 1 .. Len(t) + 1, Ring(l, t, i) = Ring(l, t, j)
      PROVE  i = j
  <2>1. i = Len(t) + 1 \/ i \in 1 .. Len(t)
    BY <1>1
  <2>2. j = Len(t) + 1 \/ j \in 1 .. Len(t)
    BY <1>1
  <2> QED
    BY <1>1, <1>3, <2>1, <2>2 DEF Ring, Once
<1> QED
  BY <1>2, <1>3

\* A sequence without its i-th element.
LEMMA Removed ==
  ASSUME NEW S, NEW t \in Seq(S), NEW i \in 1 .. Len(t), NEW u, u = RemoveAt(t, i)
  PROVE  /\ u \in Seq(S) /\ Len(u) = Len(t) - 1
         /\ \A j \in 1 .. Len(t) - 1 : u[j] = IF j < i THEN t[j] ELSE t[j + 1]
<1> DEFINE v == SubSeq(t, 1, i - 1)
           w == SubSeq(t, i + 1, Len(t))
<1>1. Len(t) \in Nat /\ i \in Nat /\ 1 <= i /\ i <= Len(t)
  OBVIOUS
<1>2. v \in Seq(S) /\ Len(v) = i - 1 /\ \A j \in 1 .. i - 1 : v[j] = t[j]
  BY <1>1, SubSeqProperties
<1>3. w \in Seq(S) /\ Len(w) = Len(t) - i /\ \A j \in 1 .. Len(t) - i : w[j] = t[i + j]
  BY <1>1, SubSeqProperties
<1> HIDE DEF v, w
<1>4. u = v \o w
  BY DEF RemoveAt, v, w
<1>5. /\ u \in Seq(S) /\ Len(u) = Len(v) + Len(w)
      /\ \A j \in 1 .. Len(v) + Len(w) : u[j] = IF j <= Len(v) THEN v[j] ELSE w[j - Len(v)]
  <2>1. /\ v \o w \in Seq(S) /\ Len(v \o w) = Len(v) + Len(w)
        /\ \A j \in 1 .. Len(v) + Len(w) : (v \o w)[j] = IF j <= Len(v) THEN v[j] ELSE w[j - Len(v)]
    BY <1>2, <1>3, ConcatProperties, Zenon
  <2> QED
    BY <1>4, <2>1
<1>6. ASSUME NEW j \in 1 .. Len(t) - 1
      PROVE  u[j] = IF j < i THEN t[j] ELSE t[j + 1]
  <2>1. j \in 1 .. Len(v) + Len(w)
    BY <1>1, <1>2, <1>3
  <2>2. CASE j < i
    BY <1>1, <1>2, <1>5, <2>1, <2>2
  <2>3. CASE ~ (j < i)
    <3>1. j - (i - 1) \in 1 .. Len(t) - i /\ i + (j - (i - 1)) = j + 1 /\ ~ (j <= i - 1)
      BY <1>1, <2>3
    <3> QED
      BY <1>2, <1>3, <1>5, <2>1, <2>3, <3>1
  <2> QED
    BY <2>2, <2>3
<1> QED
  BY <1>1, <1>2, <1>3, <1>5, <1>6


\* The ring without its i-th block: its neighbours are joined.
LEMMA RingUnlinks ==
  ASSUME NEW l \in Lists, NEW t \in Seq(Blocks), Once(t), NEW n \in Links, NEW p \in Links,
         IsRing(n, p, l, t), NEW i \in 1 .. Len(t), NEW e, e = t[i],
         NEW n2, NEW p2, Joined(n, p, e, n2, p2),
         NEW u, u = RemoveAt(t, i)
  PROVE  /\ n2 \in Links /\ p2 \in Links
         /\ u \in Seq(Blocks) /\ Once(u) /\ IsRing(n2, p2, l, u)
         /\ \A b : b \in ToSet(u) <=> b \in ToSet(t) /\ b # e
<1> DEFINE L == Len(t)
           R(j) == Ring(l, t, j)
           Q(j) == Ring(l, u, j)
<1>1. /\ L \in Nat /\ i \in 1 .. L /\ R(i) = e /\ e \in Blocks
      /\ i - 1 \in 0 .. L /\ i \in 0 .. L /\ (i - 1) + 1 = i /\ i + 1 \in 1 .. L + 1
      /\ \A j \in Int : R(j) \in Nodes
  BY RingNodes
<1>2. /\ u \in Seq(Blocks) /\ Len(u) = L - 1
      /\ \A j \in 1 .. L - 1 : u[j] = IF j < i THEN t[j] ELSE t[j + 1]
  BY Removed
<1>3. n[e] = R(i + 1) /\ p[e] = R(i - 1)
  BY <1>1 DEF IsRing, Leads
<1>4. \A j \in 0 .. L : Q(j) = IF j < i THEN R(j) ELSE R(j + 1)
  <2> TAKE j \in 0 .. L
  <2>1. CASE j = 0
    BY <1>1, <1>2, <2>1 DEF Ring
  <2>2. CASE j = L
    <3>1. j \notin 1 .. L - 1 /\ ~ (j < i) /\ j + 1 \notin 1 .. L
      BY <1>1, <2>2
    <3> QED
      BY <1>2, <3>1 DEF Ring
  <2>3. CASE j \in 1 .. L - 1
    <3>1. j \in 1 .. L /\ j + 1 \in 1 .. L
      BY <1>1, <2>3
    <3> QED
      BY <1>2, <2>3, <3>1 DEF Ring
  <2> QED
    BY <1>1, <2>1, <2>2, <2>3
<1>5. n2 \in Links /\ p2 \in Links
  BY <1>1, <1>3 DEF Links, Joined
<1>6. \A x, y \in 0 .. L : R(x) = R(y) => x = y
  BY RingOnce
<1>7. \A x, y \in 1 .. L + 1 : R(x) = R(y) => x = y
  BY RingOnce
<1>8. /\ \A x \in 0 .. L : n[R(x)] = R(x + 1) /\ p[R(x + 1)] = R(x)
      /\ n \in [Nodes -> Nodes \cup {Junk}] /\ p \in [Nodes -> Nodes \cup {Junk}]
  BY DEF IsRing, Leads, Links
<1>9. n2 = [n EXCEPT ![R(i - 1)] = R(i + 1)] /\ p2 = [p EXCEPT ![R(i + 1)] = R(i - 1)]
  BY <1>3 DEF Joined
<1> HIDE DEF L, R, Q
<1>10. ASSUME NEW j \in 0 .. L - 1
       PROVE  n2[Q(j)] = Q(j + 1) /\ p2[Q(j + 1)] = Q(j)
  <2>1. /\ j \in 0 .. L /\ j + 1 \in 0 .. L /\ j + 1 \in 1 .. L + 1 /\ j + 2 \in 1 .. L + 1
        /\ j \in Int /\ j + 1 \in Int /\ j + 2 \in Int /\ (j + 1) + 1 = j + 2
    BY <1>1
  <2>2. CASE j < i - 1
    <3>1. j < i /\ j + 1 < i /\ j # i - 1 /\ j + 1 # i + 1
      BY <1>1, <2>2
    <3>2. Q(j) = R(j) /\ Q(j + 1) = R(j + 1)
      BY <1>4, <2>1, <3>1
    <3>3. R(j) # R(i - 1) /\ R(j + 1) # R(i + 1)
      BY <1>1, <1>6, <1>7, <2>1, <3>1
    <3> QED
      BY <1>1, <1>8, <1>9, <2>1, <3>2, <3>3
  <2>3. CASE j = i - 1
    <3>1. j < i /\ ~ (j + 1 < i) /\ j + 2 = i + 1
      BY <1>1, <2>3
    <3>2. Q(j) = R(i - 1) /\ Q(j + 1) = R(i + 1)
      BY <1>4, <2>1, <2>3, <3>1
    <3> QED
      BY <1>1, <1>8, <1>9, <2>1, <2>3, <3>1, <3>2
  <2>4. CASE j > i - 1
    <3>1. ~ (j < i) /\ ~ (j + 1 < i) /\ j + 1 # i - 1 /\ j + 2 # i + 1
      BY <1>1, <2>4
    <3>2. Q(j) = R(j + 1) /\ Q(j + 1) = R(j + 2)
      BY <1>4, <2>1, <3>1
    <3>3. R(j + 1) # R(i - 1) /\ R(j + 2) # R(i + 1)
      BY <1>1, <1>6, <1>7, <2>1, <3>1
    <3>4. n[R(j + 1)] = R(j + 2) /\ p[R(j + 2)] = R(j + 1)
      BY <1>8, <2>1
    <3> QED
      BY <1>1, <1>8, <1>9, <2>1, <3>2, <3>3, <3>4
  <2> QED
    BY <1>1, <2>2, <2>3, <2>4
<1>11. IsRing(n2, p2, l, u)
  BY <1>2, <1>10 DEF IsRing, Leads, Q
<1>12. \A j, k \in 1 .. L : t[j] = t[k] => j = k
  BY DEF Once, L
<1>13. Once(u)
  <2> SUFFICES ASSUME NEW j \in 1 .. L - 1, NEW k \in 1 .. L - 1, u[j] = u[k]
               PROVE  j = k
    BY <1>2 DEF Once
  <2>1. j \in 1 .. L /\ j + 1 \in 1 .. L /\ k \in 1 .. L /\ k + 1 \in 1 .. L
    BY <1>1
  <2>2. CASE j < i /\ k < i
    BY <1>2, <1>12, <2>1, <2>2
  <2>3. CASE j < i /\ ~ (k < i)
    <3>1. u[j] = t[j] /\ u[k] = t[k + 1]
      BY <1>2, <2>3
    <3>2. j # k + 1
      BY <1>1, <2>3
    <3> QED
      BY <1>12, <2>1, <3>1, <3>2
  <2>4. CASE ~ (j < i) /\ k < i
    <3>1. u[j] = t[j + 1] /\ u[k] = t[k]
      BY <1>2, <2>4
    <3>2. j + 1 # k
      BY <1>1, <2>4
    <3> QED
      BY <1>12, <2>1, <3>1, <3>2
  <2>5. CASE ~ (j < i) /\ ~ (k < i)
    <3>1. t[j + 1] = t[k + 1]
      BY <1>2, <2>1, <2>5
    <3>2. j + 1 = k + 1
      BY <1>12, <2>1, <3>1
    <3> QED
      BY <1>1, <3>2
  <2> QED
    BY <2>2, <2>3, <2>4, <2>5
<1>14. ASSUME NEW b
       PROVE  b \in ToSet(u) <=> b \in ToSet(t) /\ b # e
  <2>0. DOMAIN u = 1 .. L - 1 /\ DOMAIN t = 1 .. L
    BY <1>2 DEF L
  <2>1. ASSUME b \in ToSet(u)
        PROVE  b \in ToSet(t) /\ b # e
    <3>1. PICK j \in 1 .. L - 1 : b = u[j]
      BY <2>0, <2>1 DEF ToSet
    <3>2. j \in 1 .. L /\ j + 1 \in 1 .. L
      BY <1>1
    <3>3. CASE j < i
      BY <1>1, <1>2, <1>12, <2>0, <3>1, <3>2, <3>3 DEF ToSet
    <3>4. CASE ~ (j < i)
      <4>1. j + 1 # i
        BY <1>1, <3>4
      <4> QED
        BY <1>1, <1>2, <1>12, <2>0, <3>1, <3>2, <3>4, <4>1 DEF ToSet
    <3> QED
      BY <3>3, <3>4
  <2>2. ASSUME b \in ToSet(t), b # e
        PROVE  b \in ToSet(u)
    <3>1. PICK j \in 1 .. L : b = t[j]
      BY <2>0, <2>2 DEF ToSet
    <3>2. j # i
      BY <2>2, <3>1
    <3>3. CASE j < i
      <4>1. j \in 1 .. L - 1
        BY <1>1, <3>3
      <4> QED
        BY <1>2, <2>0, <3>1, <3>3, <4>1 DEF ToSet
    <3>4. CASE ~ (j < i)
      <4>1. j - 1 \in 1 .. L - 1 /\ ~ (j - 1 < i) /\ (j - 1) + 1 = j
        BY <1>1, <3>2, <3>4
      <4> QED
        BY <1>2, <2>0, <3>1, <4>1 DEF ToSet
    <3> QED
      BY <3>3, <3>4
  <2> QED
    BY <2>1, <2>2
<1> QED
  BY <1>2, <1>5, <1>11, <1>13, <1>14

\* The ring with one more block, between the last one and the head.
LEMMA RingLinks ==
  ASSUME NEW l \in Lists, NEW t \in Seq(Blocks), Once(t), NEW n \in Links, NEW p \in Links,
         IsRing(n, p, l, t), NEW e \in Blocks, e \notin ToSet(t),
         NEW n2, NEW p2, Joins(n, p, l, e, n2, p2),
         NEW u, u = Append(t, e)
  PROVE  /\ n2 \in Links /\ p2 \in Links
         /\ u \in Seq(Blocks) /\ Once(u) /\ IsRing(n2, p2, l, u)
         /\ \A b : b \in ToSet(u) <=> b \in ToSet(t) \/ b = e
<1> DEFINE L == Len(t)
           R(j) == Ring(l, t, j)
           Q(j) == Ring(l, u, j)
<1>1. /\ L \in Nat /\ L + 1 \notin 1 .. L /\ L + 2 \notin 1 .. L + 1 /\ 0 \notin 1 .. L /\ 0 \notin 1 .. L + 1
      /\ \A j \in Int : R(j) \in Nodes
      /\ e \in Nodes /\ l \in Nodes /\ e # l
      /\ \A j \in 1 .. L : t[j] # e
  <2>1. \A j \in 1 .. L : t[j] \in ToSet(t)
    BY DEF ToSet
  <2> QED
    BY <2>1, RingNodes DEF Nodes
<1>2. u \in Seq(Blocks) /\ Len(u) = L + 1 /\ u[L + 1] = e /\ \A j \in 1 .. L : u[j] = t[j]
  OBVIOUS
<1>3. /\ \A j \in 0 .. L : Q(j) = R(j)
      /\ Q(L + 1) = e /\ Q(L + 2) = l /\ R(L + 1) = l /\ R(0) = l
  BY <1>1, <1>2 DEF Ring
<1>4. \A j \in 0 .. L + 1 : R(j) # e
  BY <1>1 DEF Ring
<1>5. \A x, y \in 0 .. L : R(x) = R(y) => x = y
  BY RingOnce
<1>6. \A x, y \in 1 .. L + 1 : R(x) = R(y) => x = y
  BY RingOnce
<1>7. /\ \A x \in 0 .. L : n[R(x)] = R(x + 1) /\ p[R(x + 1)] = R(x)
      /\ n \in [Nodes -> Nodes \cup {Junk}] /\ p \in [Nodes -> Nodes \cup {Junk}]
  BY DEF IsRing, Leads, Links
<1>8. p[l] = R(L)
  BY <1>1, <1>3, <1>7
<1>9. n2 = [n EXCEPT ![e] = l, ![R(L)] = e] /\ p2 = [p EXCEPT ![e] = R(L), ![l] = e]
  BY <1>8 DEF Joins
<1>10. n2 \in Links /\ p2 \in Links
  BY <1>1, <1>9 DEF Links
<1> HIDE DEF L, R, Q
<1>11. ASSUME NEW j \in 0 .. L + 1
       PROVE  n2[Q(j)] = Q(j + 1) /\ p2[Q(j + 1)] = Q(j)
  <2>1. CASE j < L
    <3>1. j \in 0 .. L /\ j + 1 \in 0 .. L /\ j + 1 \in 1 .. L + 1 /\ j # L /\ j + 1 # L + 1 /\ L + 1 \in 1 .. L + 1
      BY <1>1, <2>1
    <3>2. R(j) # R(L) /\ R(j + 1) # l /\ R(j) # e /\ R(j + 1) # e
      BY <1>1, <1>3, <1>4, <1>5, <1>6, <3>1
    <3> QED
      BY <1>1, <1>3, <1>7, <1>9, <3>1, <3>2
  <2>2. CASE j = L
    <3>1. L \in 0 .. L /\ R(L) # e /\ R(L) \in Nodes
      BY <1>1, <1>4
    <3> QED
      BY <1>1, <1>3, <1>7, <1>9, <2>2, <3>1
  <2>3. CASE j = L + 1
    <3>1. L \in 0 .. L /\ R(L) # e /\ R(L) \in Nodes /\ j + 1 = L + 2
      BY <1>1, <1>4, <2>3
    <3> QED
      BY <1>1, <1>3, <1>7, <1>9, <2>3, <3>1
  <2> QED
    BY <1>1, <2>1, <2>2, <2>3
<1>12. IsRing(n2, p2, l, u)
  BY <1>2, <1>11 DEF IsRing, Leads, Q
<1>13. Once(u)
  BY <1>1, <1>2 DEF Once, L
<1>14. ASSUME NEW b
       PROVE  b \in ToSet(u) <=> b \in ToSet(t) \/ b = e
  <2>1. /\ DOMAIN u = 1 .. L + 1 /\ DOMAIN t = 1 .. L /\ L + 1 \in 1 .. L + 1
        /\ \A j \in 1 .. L + 1 : j = L + 1 \/ j \in 1 .. L
        /\ \A j \in 1 .. L : j \in 1 .. L + 1
    BY <1>1, <1>2 DEF L
  <2> QED
    BY <1>2, <2>1 DEF ToSet
<1> QED
  BY <1>2, <1>10, <1>12, <1>13, <1>14

\* A ring whose nodes have the links they had is the ring it was.
LEMMA RingStays ==
  ASSUME NEW l \in Lists, NEW t \in Seq(Blocks), NEW n, NEW p, IsRing(n, p, l, t), NEW n2, NEW p2,
         \A x \in {l} \cup ToSet(t) : n2[x] = n[x] /\ p2[x] = p[x]
  PROVE  IsRing(n2, p2, l, t)
<1>1. \A i \in Int : Ring(l, t, i) \in {l} \cup ToSet(t)
  BY DEF Ring, ToSet
<1>2. \A i \in 0 .. Len(t) : i \in Int /\ i + 1 \in Int
  OBVIOUS
<1> QED
  BY <1>1, <1>2 DEF IsRing, Leads

-------------------------------------------------------------------------------
(* Following the links around a ring *)

Walks(f, link, l, m) ==
  f = [n \in 0 .. m |-> IF n = 0 THEN l ELSE Follow(link, f[n - 1])]

\* There is a function that satisfies the recursion of Steps.
LEMMA WalkExists ==
  ASSUME NEW link, NEW l, NEW m \in Nat
  PROVE  \E f : Walks(f, link, l, m)
<1> DEFINE Missed == {k \in Nat : ~ \E f : Walks(f, link, l, k)}
<1>1. SUFFICES ASSUME Missed # {}
               PROVE  FALSE
  OBVIOUS
<1>2. PICK k \in Missed : \A j \in Missed : k <= j
  BY <1>1, LeastNumber
<1>3. k # 0
  <2>1. 0 .. 0 = {0}
    OBVIOUS
  <2>2. Walks([n \in 0 .. 0 |-> l], link, l, 0)
    BY <2>1 DEF Walks
  <2> QED
    BY <1>2, <2>2
<1>4. k - 1 \in Nat /\ ~ (k <= k - 1)
  BY <1>2, <1>3
<1>5. PICK f : Walks(f, link, l, k - 1)
  BY <1>2, <1>4
<1> DEFINE g == [n \in 0 .. k |-> IF n = k THEN Follow(link, f[k - 1]) ELSE f[n]]
<1>6. \A n \in 0 .. k : g[n] = IF n = 0 THEN l ELSE Follow(link, g[n - 1])
  <2> TAKE n \in 0 .. k
  <2>1. CASE n = k
    <3>1. k - 1 \in 0 .. k /\ k - 1 # k
      BY <1>2, <1>4
    <3> QED
      BY <1>3, <2>1, <3>1
  <2>2. CASE n # k
    <3>1. n \in 0 .. k - 1 /\ (n # 0 => n - 1 \in 0 .. k /\ n - 1 # k)
      BY <1>2, <2>2
    <3>2. f[n] = IF n = 0 THEN l ELSE Follow(link, f[n - 1])
      BY <1>5, <3>1 DEF Walks
    <3> QED
      BY <2>2, <3>1, <3>2
  <2> QED
    BY <2>1, <2>2
<1>7. g = [n \in 0 .. k |-> IF n = 0 THEN l ELSE Follow(link, g[n - 1])]
  BY <1>6
<1> HIDE DEF g
<1>8. Walks(g, link, l, k)
  BY <1>7 DEF Walks
<1> QED
  BY <1>2, <1>8

\* A ring has at most as many nodes as there are.
LEMMA RingFits ==
  ASSUME NEW l \in Lists, NEW t \in Seq(Blocks), Once(t)
  PROVE  Cardinality(Nodes) \in Nat /\ Len(t) + 1 <= Cardinality(Nodes)
<1> DEFINE L == Len(t)
           f == [i \in 0 .. L |-> Ring(l, t, i)]
<1>1. L \in Nat /\ \A i \in 0 .. L : Ring(l, t, i) \in Nodes
  BY RingNodes
<1>2. \A i, j \in 0 .. L : Ring(l, t, i) = Ring(l, t, j) => i = j
  BY RingOnce
<1>3. f \in Injection(0 .. L, Nodes)
  <2>1. f \in [0 .. L -> Nodes] /\ \A i, j \in 0 .. L : f[i] = f[j] => i = j
    BY <1>1, <1>2
  <2> HIDE DEF f
  <2> QED
    BY <2>1, Fun_IsInj
<1>4. IsFiniteSet(Nodes)
  BY NodesAssumption DEF Nodes
<1>5. Cardinality(0 .. L) <= Cardinality(Nodes)
  BY <1>3, <1>4, FS_Injection
<1>6. Cardinality(0 .. L) = L + 1
  BY <1>1, FS_Interval
<1> QED
  BY <1>4, <1>5, <1>6, FS_CardinalityType

\* The loop that follows the links of a ring meets its blocks, in order.
LEMMA LoopIs ==
  ASSUME NEW link, NEW l \in Lists, NEW t \in Seq(Blocks), Once(t), Leads(link, l, t)
  PROVE  Loop(link, l) = t
<1> DEFINE L == Len(t)
           N == Cardinality(Nodes)
           node == CHOOSE f : Walks(f, link, l, N)
<1>1. N \in Nat /\ L \in Nat /\ L + 1 <= N
  BY RingFits
<1>2. Steps(link, l) = node
  BY DEF Steps, Walks
<1>3. Walks(node, link, l, N)
  BY <1>1, WalkExists
<1> HIDE DEF node, N
<1>4. \A n \in 0 .. L + 1 : node[n] = Ring(l, t, n)
  <2> DEFINE Missed == {n \in 0 .. L + 1 : node[n] # Ring(l, t, n)}
  <2>1. SUFFICES ASSUME Missed # {}
                 PROVE  FALSE
    OBVIOUS
  <2>2. Missed \subseteq Nat
    OBVIOUS
  <2>3. PICK n \in Missed : \A m \in Missed : n <= m
    BY <2>1, <2>2, LeastNumber
  <2>4. n \in 0 .. N /\ n \in 0 .. L + 1
    BY <1>1, <2>3
  <2>5. node[n] = IF n = 0 THEN l ELSE Follow(link, node[n - 1])
    BY <1>3, <2>4 DEF Walks
  <2>6. n # 0
    BY <2>3, <2>5, RingNodes
  <2>7. n - 1 \in 0 .. L + 1 /\ n - 1 \in 0 .. L /\ (n - 1) + 1 = n /\ ~ (n <= n - 1) /\ n - 1 \in Int
    BY <2>4, <2>6
  <2>8. node[n - 1] = Ring(l, t, n - 1)
    BY <2>3, <2>7
  <2>9. Follow(link, node[n - 1]) = Ring(l, t, n)
    BY <2>7, <2>8, RingNodes DEF Follow, Leads
  <2> QED
    BY <2>3, <2>5, <2>6, <2>9
<1>5. \A n \in 1 .. L : node[n] = t[n] /\ node[n] # l
  <2> TAKE n \in 1 .. L
  <2>1. n \in 0 .. L + 1
    OBVIOUS
  <2> QED
    BY <1>4, <2>1, RingNodes
<1>6. node[L + 1] = l
  BY <1>1, <1>4, RingNodes
<1> DEFINE back == {n \in 1 .. N : node[n] = l}
           first == CHOOSE n \in back : \A m \in back : n <= m
<1>7. L + 1 \in back /\ \A m \in back : L + 1 <= m
  <2>1. L + 1 \in back
    BY <1>1, <1>6
  <2>2. ASSUME NEW m \in back, m < L + 1
        PROVE  FALSE
    BY <1>1, <1>5, <2>2
  <2> QED
    BY <1>1, <2>1, <2>2
<1>8. \A m \in back : m \in Int
  OBVIOUS
<1> HIDE DEF back
<1>9. first = L + 1
  <2>1. first \in back /\ \A m \in back : first <= m
    BY <1>7
  <2> QED
    BY <1>1, <1>7, <1>8, <2>1
<1> HIDE DEF first
<1>10. LoopLength(link, l) = L
  <2>1. LoopLength(link, l) = first - 1
    BY <1>2, <1>7 DEF LoopLength, back, first, N
  <2> QED
    BY <1>1, <1>9, <2>1
<1>11. Loop(link, l) = [n \in 1 .. L |-> node[n]]
  BY <1>2, <1>10 DEF Loop
<1>12. t = [n \in 1 .. L |-> t[n]]
  OBVIOUS
<1> QED
  BY <1>5, <1>11, <1>12

-------------------------------------------------------------------------------
(* The inductive invariant: some sequences of blocks are the lists *)

Represents(s) ==
  /\ s \in [Lists -> Seq(Blocks)]
  /\ \A l \in Lists : Once(s[l]) /\ IsRing(next, prev, l, s[l])
  /\ \A k, l \in Lists : k # l => ToSet(s[k]) \cap ToSet(s[l]) = {}
  /\ \A e \in Blocks : e \in taken <=> \A l \in Lists : e \notin ToSet(s[l])

Sound == LinksTyped /\ \E s : Represents(s)

\* Empty lists are rings of one node.
LEMMA InitSound == ListsEmpty => Sound
<1> SUFFICES ASSUME ListsEmpty
             PROVE  Sound
  OBVIOUS
<1> DEFINE s == [l \in Lists |-> <<>>]
<1>1. /\ next \in Links /\ prev \in Links
      /\ \A l \in Lists : l \in Nodes /\ next[l] = l /\ prev[l] = l
  BY DEF ListsEmpty, Links, Nodes
<1>2. LinksTyped
  BY <1>1 DEF ListsEmpty, LinksTyped, Links
<1>3. \A l \in Lists : s[l] = <<>> /\ ToSet(s[l]) = {}
  BY DEF ToSet
<1>4. \A l \in Lists : Once(s[l]) /\ IsRing(next, prev, l, s[l])
  <2> TAKE l \in Lists
  <2>1. Len(s[l]) = 0 /\ 0 .. 0 = {0} /\ \A i \in Int : Ring(l, s[l], i) = l
    BY <1>3 DEF Ring
  <2> QED
    BY <1>1, <2>1 DEF Once, IsRing, Leads
<1>5. s \in [Lists -> Seq(Blocks)]
  BY EmptySeq
<1> HIDE DEF s
<1>6. Represents(s)
  BY <1>3, <1>4, <1>5 DEF Represents, ListsEmpty
<1> QED
  BY <1>2, <1>6 DEF Sound

\* When one list changes, and no link of another's nodes, the others stay.
LEMMA OneChanges ==
  ASSUME NEW s, Represents(s), NEW l \in Lists, NEW u \in Seq(Blocks), Once(u),
         IsRing(next', prev', l, u), ToSet(u) \subseteq ToSet(s[l]) \cup taken,
         \A k \in Lists : k # l => \A x \in {k} \cup ToSet(s[k]) :
           next'[x] = next[x] /\ prev'[x] = prev[x],
         taken' = (taken \cup ToSet(s[l])) \ ToSet(u)
  PROVE  Represents([s EXCEPT ![l] = u])'
<1> DEFINE v == [s EXCEPT ![l] = u]
<1>1. /\ v \in [Lists -> Seq(Blocks)] /\ v[l] = u
      /\ \A k \in Lists : k # l => v[k] = s[k] /\ s[k] \in Seq(Blocks)
  BY DEF Represents
<1> HIDE DEF v
<1>2. ASSUME NEW k \in Lists
      PROVE  Once(v[k]) /\ IsRing(next', prev', k, v[k])
  <2>1. CASE k = l
    BY <1>1, <2>1
  <2>2. CASE k # l
    <3>1. Once(s[k]) /\ IsRing(next, prev, k, s[k])
      BY DEF Represents
    <3>2. s[k] \in Seq(Blocks) /\ v[k] = s[k]
      BY <1>1, <2>2
    <3>3. \A x \in {k} \cup ToSet(s[k]) : next'[x] = next[x] /\ prev'[x] = prev[x]
      BY <2>2
    <3>4. IsRing(next', prev', k, s[k])
      BY <3>1, <3>2, <3>3, RingStays
    <3> QED
      BY <3>1, <3>2, <3>4
  <2> QED
    BY <2>1, <2>2
<1>3. \A k, m \in Lists : k # m => ToSet(s[k]) \cap ToSet(s[m]) = {}
  BY DEF Represents
<1>4. \A k \in Lists : ToSet(s[k]) \subseteq Blocks /\ ToSet(s[k]) \cap taken = {}
  <2> TAKE k \in Lists
  <2>1. ToSet(s[k]) \subseteq Blocks
    BY DEF Represents, ToSet
  <2> QED
    BY <2>1 DEF Represents
<1>5. ASSUME NEW k \in Lists, NEW m \in Lists, k # m
      PROVE  ToSet(v[k]) \cap ToSet(v[m]) = {}
  <2>1. CASE k = l
    BY <1>1, <1>3, <1>4, <1>5, <2>1
  <2>2. CASE m = l
    BY <1>1, <1>3, <1>4, <1>5, <2>2
  <2>3. CASE k # l /\ m # l
    BY <1>1, <1>3, <1>5, <2>3
  <2> QED
    BY <2>1, <2>2, <2>3
<1>6. ASSUME NEW e \in Blocks
      PROVE  e \in taken' <=> \A k \in Lists : e \notin ToSet(v[k])
  <2>1. e \in taken <=> \A k \in Lists : e \notin ToSet(s[k])
    BY DEF Represents
  <2>2. ASSUME e \in taken', NEW k \in Lists
        PROVE  e \notin ToSet(v[k])
    BY <1>1, <1>3, <1>4, <2>1, <2>2
  <2>3. ASSUME \A k \in Lists : e \notin ToSet(v[k])
        PROVE  e \in taken'
    <3>1. e \notin ToSet(u)
      BY <1>1, <2>3
    <3>2. \A k \in Lists : k # l => e \notin ToSet(s[k])
      BY <1>1, <2>3
    <3> QED
      BY <2>1, <3>1, <3>2
  <2> QED
    BY <2>2, <2>3
<1>7. Represents(v)'
  BY <1>1, <1>2, <1>5, <1>6 DEF Represents
<1> QED
  BY <1>7 DEF v

\* What the parts of Represents say of one list.
LEMMA ListParts ==
  ASSUME NEW s, Represents(s), NEW l \in Lists
  PROVE  /\ s[l] \in Seq(Blocks) /\ Once(s[l]) /\ IsRing(next, prev, l, s[l])
         /\ ToSet(s[l]) \subseteq Blocks /\ ToSet(s[l]) \cap taken = {}
         /\ \A i \in Int : Ring(l, s[l], i) \in {l} \cup ToSet(s[l])
<1>1. s[l] \in Seq(Blocks) /\ Once(s[l]) /\ IsRing(next, prev, l, s[l])
  BY DEF Represents
<1>2. ToSet(s[l]) \subseteq Blocks
  BY <1>1 DEF ToSet
<1>3. ToSet(s[l]) \cap taken = {}
  BY <1>2 DEF Represents
<1>4. \A i \in Int : Ring(l, s[l], i) \in {l} \cup ToSet(s[l])
  BY DEF Ring, ToSet
<1> QED
  BY <1>1, <1>2, <1>3, <1>4

\* list_push adds a block at the end of its list.
LEMMA PushKeeps ==
  ASSUME LinksTyped, NEW s, Represents(s), NEW l \in Lists, NEW e \in Blocks, list_push(l, e)
  PROVE  /\ next' \in Links /\ prev' \in Links
         /\ Represents([s EXCEPT ![l] = Append(s[l], e)])'
         /\ s[l] \in Seq(Blocks) /\ \A k \in Lists : e \notin ToSet(s[k])
<1> DEFINE u == Append(s[l], e)
<1>1. /\ s[l] \in Seq(Blocks) /\ Once(s[l]) /\ IsRing(next, prev, l, s[l])
      /\ ToSet(s[l]) \subseteq Blocks
  BY ListParts
<1>2. next \in Links /\ prev \in Links
  BY DEF LinksTyped, Links
<1>3. e \in taken /\ taken' = taken \ {e}
  BY DEF list_push
<1>4. \A k \in Lists : e \notin ToSet(s[k])
  BY <1>3 DEF Represents
<1>5. /\ next' = [next EXCEPT ![e] = l, ![prev[l]] = e]
      /\ prev' = [prev EXCEPT ![e] = prev[l], ![l] = e]
  BY DEF list_push, Linked
<1>6. /\ next' \in Links /\ prev' \in Links
      /\ u \in Seq(Blocks) /\ Once(u) /\ IsRing(next', prev', l, u)
      /\ \A b : b \in ToSet(u) <=> b \in ToSet(s[l]) \/ b = e
  <2> DEFINE t == s[l]
  <2>1. t \in Seq(Blocks) /\ Once(t) /\ IsRing(next, prev, l, t) /\ e \notin ToSet(t)
    BY <1>1, <1>4
  <2>0. Joins(next, prev, l, e, next', prev')
    BY <1>5 DEF Joins
  <2>2. u = Append(t, e)
    OBVIOUS
  <2> HIDE DEF t, u
  <2>3. /\ next' \in Links /\ prev' \in Links
        /\ u \in Seq(Blocks) /\ Once(u) /\ IsRing(next', prev', l, u)
        /\ \A b : b \in ToSet(u) <=> b \in ToSet(t) \/ b = e
    <3>1. \A n2, p2 : Joins(next, prev, l, e, n2, p2) =>
            /\ n2 \in Links /\ p2 \in Links /\ Append(t, e) \in Seq(Blocks) /\ Once(Append(t, e))
            /\ IsRing(n2, p2, l, Append(t, e))
            /\ \A b : b \in ToSet(Append(t, e)) <=> b \in ToSet(t) \/ b = e
      BY <1>2, <2>1, RingLinks, ZenonT(60)
    <3> QED
      BY <2>0, <2>2, <3>1
  <2> QED
    BY <2>3 DEF t
<1>7. prev[l] \in {l} \cup ToSet(s[l])
  <2>0. Len(s[l]) \in Nat
    BY <1>1, LenProperties
  <2>1. Len(s[l]) \in 0 .. Len(s[l]) /\ Len(s[l]) \in Int
    BY <2>0
  <2>2. prev[Ring(l, s[l], Len(s[l]) + 1)] = Ring(l, s[l], Len(s[l]))
    BY <1>1, <2>1 DEF IsRing
  <2>3. Ring(l, s[l], Len(s[l]) + 1) = l
    BY <1>1, RingNodes
  <2> QED
    BY <2>1, <2>2, <2>3, ListParts
<1>8. ASSUME NEW k \in Lists, k # l, NEW x \in {k} \cup ToSet(s[k])
      PROVE  next'[x] = next[x] /\ prev'[x] = prev[x]
  <2>1. x \notin {l} \cup ToSet(s[l]) \cup {e}
    <3>1. ToSet(s[k]) \cap ToSet(s[l]) = {} /\ ToSet(s[k]) \subseteq Blocks
      BY <1>8, ListParts DEF Represents
    <3> QED
      BY <1>1, <1>4, <1>8, <3>1, NodesAssumption
  <2>2. x \in Nodes
    BY ListParts DEF Nodes
  <2> QED
    BY <1>2, <1>5, <1>7, <2>1, <2>2 DEF Links
<1>9. ToSet(u) \subseteq ToSet(s[l]) \cup taken /\ taken' = (taken \cup ToSet(s[l])) \ ToSet(u)
  <2>1. ToSet(s[l]) \cap taken = {}
    BY ListParts
  <2> QED
    BY <1>3, <1>6, <2>1
<1> HIDE DEF u
<1>10. Represents([s EXCEPT ![l] = u])'
  BY <1>6, <1>8, <1>9, OneChanges
<1> QED
  BY <1>1, <1>4, <1>6, <1>10 DEF u

\* Joining the neighbours of a block takes it out of its list.
LEMMA UnlinkKeeps ==
  ASSUME LinksTyped, NEW s, Represents(s), NEW l \in Lists, NEW i \in 1 .. Len(s[l]),
         NEW e, e = s[l][i], Bypassed(e), taken' = taken \cup {e}
  PROVE  /\ next' \in Links /\ prev' \in Links
         /\ Represents([s EXCEPT ![l] = RemoveAt(s[l], i)])'
<1> DEFINE u == RemoveAt(s[l], i)
<1>1. /\ s[l] \in Seq(Blocks) /\ Once(s[l]) /\ IsRing(next, prev, l, s[l])
      /\ ToSet(s[l]) \subseteq Blocks
  BY ListParts
<1>2. next \in Links /\ prev \in Links
  BY DEF LinksTyped, Links
<1>3. /\ next' = [next EXCEPT ![prev[e]] = next[e]]
      /\ prev' = [prev EXCEPT ![next[e]] = prev[e]]
  BY DEF Bypassed
<1>4. /\ next' \in Links /\ prev' \in Links
      /\ u \in Seq(Blocks) /\ Once(u) /\ IsRing(next', prev', l, u)
      /\ \A b : b \in ToSet(u) <=> b \in ToSet(s[l]) /\ b # e
  <2> DEFINE t == s[l]
  <2>1. t \in Seq(Blocks) /\ Once(t) /\ IsRing(next, prev, l, t) /\ i \in 1 .. Len(t) /\ e = t[i]
    BY <1>1
  <2>0. Joined(next, prev, e, next', prev')
    BY <1>3 DEF Joined
  <2>2. u = RemoveAt(t, i)
    OBVIOUS
  <2> HIDE DEF t, u
  <2>3. /\ next' \in Links /\ prev' \in Links
        /\ u \in Seq(Blocks) /\ Once(u) /\ IsRing(next', prev', l, u)
        /\ \A b : b \in ToSet(u) <=> b \in ToSet(t) /\ b # e
    BY <1>2, <2>0, <2>1, <2>2, RingUnlinks
  <2> QED
    BY <2>3 DEF t
<1>5. prev[e] \in {l} \cup ToSet(s[l]) /\ next[e] \in {l} \cup ToSet(s[l])
  <2>1. /\ i \in 0 .. Len(s[l]) /\ i - 1 \in 0 .. Len(s[l]) /\ (i - 1) + 1 = i
        /\ i + 1 \in Int /\ i - 1 \in Int
    BY <1>1
  <2>2. Ring(l, s[l], i) = e
    BY DEF Ring
  <2>3. next[e] = Ring(l, s[l], i + 1) /\ prev[e] = Ring(l, s[l], i - 1)
    BY <1>1, <2>1, <2>2 DEF IsRing, Leads
  <2>4. \A j \in Int : Ring(l, s[l], j) \in {l} \cup ToSet(s[l])
    BY ListParts
  <2>5. Ring(l, s[l], i + 1) \in {l} \cup ToSet(s[l]) /\ Ring(l, s[l], i - 1) \in {l} \cup ToSet(s[l])
    BY <2>1, <2>4
  <2> QED
    BY <2>3, <2>5
<1>6. ASSUME NEW k \in Lists, k # l, NEW x \in {k} \cup ToSet(s[k])
      PROVE  next'[x] = next[x] /\ prev'[x] = prev[x]
  <2>1. x \notin {l} \cup ToSet(s[l])
    <3>1. ToSet(s[k]) \cap ToSet(s[l]) = {} /\ ToSet(s[k]) \subseteq Blocks
      BY <1>6, ListParts DEF Represents
    <3> QED
      BY <1>1, <1>6, <3>1, NodesAssumption
  <2>2. x \in Nodes
    BY ListParts DEF Nodes
  <2> QED
    BY <1>2, <1>3, <1>5, <2>1, <2>2 DEF Links
<1>7. ToSet(u) \subseteq ToSet(s[l]) \cup taken /\ taken' = (taken \cup ToSet(s[l])) \ ToSet(u)
  <2>1. ToSet(s[l]) \cap taken = {} /\ e \in ToSet(s[l])
    BY ListParts DEF ToSet
  <2> QED
    BY <1>4, <2>1
<1> HIDE DEF u
<1>8. Represents([s EXCEPT ![l] = u])'
  BY <1>4, <1>6, <1>7, OneChanges
<1> QED
  BY <1>4, <1>8 DEF u

\* The block behind the head is the last of its list; a list is empty exactly
\* when that is the head itself.
LEMMA BackIs ==
  ASSUME NEW s, Represents(s), NEW l \in Lists
  PROVE  /\ s[l] = <<>> => prev[l] = l
         /\ s[l] # <<>> => /\ Len(s[l]) \in 1 .. Len(s[l]) /\ prev[l] = s[l][Len(s[l])]
                           /\ prev[l] # l /\ prev[l] \in Blocks
<1> DEFINE t == s[l]
<1>1. t \in Seq(Blocks) /\ IsRing(next, prev, l, t)
  BY ListParts
<1> HIDE DEF t
<1>2. Len(t) \in Nat /\ Ring(l, t, Len(t) + 1) = l /\ l \notin Blocks
  BY <1>1, RingNodes
<1>3. prev[l] = Ring(l, t, Len(t))
  <2>1. Len(t) \in 0 .. Len(t)
    BY <1>2
  <2> QED
    BY <1>1, <1>2, <2>1 DEF IsRing
<1>4. ASSUME t = <<>>
      PROVE  prev[l] = l
  BY <1>3, <1>4 DEF Ring
<1>5. ASSUME t # <<>>
      PROVE  Len(t) \in 1 .. Len(t) /\ prev[l] = t[Len(t)] /\ prev[l] # l /\ prev[l] \in Blocks
  <2>1. Len(t) \in 1 .. Len(t)
    BY <1>1, <1>2, <1>5, EmptySeq
  <2> QED
    BY <1>1, <1>2, <1>3, <2>1 DEF Ring
<1> QED
  BY <1>4, <1>5 DEF t

\* A block that no client has is somewhere in a list.
LEMMA ListedAt ==
  ASSUME NEW s, Represents(s), NEW e \in Blocks \ taken
  PROVE  \E l \in Lists : \E i \in 1 .. Len(s[l]) : s[l][i] = e
<1>1. PICK l \in Lists : e \in ToSet(s[l])
  BY DEF Represents
<1>2. s[l] \in Seq(Blocks)
  BY ListParts
<1> QED
  BY <1>1, <1>2 DEF ToSet

\* A client's block is in no ring: what it writes breaks none.
LEMMA ScribbleKeeps ==
  ASSUME LinksTyped, NEW s, Represents(s), NEW e \in Blocks, Scribble(e)
  PROVE  /\ next' \in Links /\ prev' \in Links /\ Represents(s)'
<1>1. /\ next' = [next EXCEPT ![e] = Junk] /\ prev' = [prev EXCEPT ![e] = Junk]
      /\ e \in taken /\ taken' = taken
  BY DEF Scribble
<1>2. next \in [Nodes -> Nodes \cup {Junk}] /\ prev \in [Nodes -> Nodes \cup {Junk}]
  BY DEF LinksTyped
<1>3. ASSUME NEW l \in Lists
      PROVE  Once(s[l]) /\ IsRing(next', prev', l, s[l])
  <2>1. /\ Once(s[l]) /\ IsRing(next, prev, l, s[l])
        /\ ToSet(s[l]) \cap taken = {} /\ ToSet(s[l]) \subseteq Blocks
    BY ListParts
  <2>2. l # e
    BY NodesAssumption
  <2>3. \A x \in {l} \cup ToSet(s[l]) : x \in Nodes /\ x # e
    BY <1>1, <2>1, <2>2 DEF Nodes
  <2>4. \A x \in {l} \cup ToSet(s[l]) : next'[x] = next[x] /\ prev'[x] = prev[x]
    BY <1>1, <1>2, <2>3
  <2>5. s[l] \in Seq(Blocks)
    BY ListParts
  <2> QED
    BY <2>1, <2>4, <2>5, RingStays
<1>4. Represents(s)'
  BY <1>1, <1>3 DEF Represents
<1> QED
  BY <1>1, <1>2, <1>4 DEF Links

\* What each call does to the lists: Represents goes from s to a t, which is
\* s changed as FreeLists says.
Pushes(s, t, l, e) ==
  /\ \A k \in Lists : e \notin ToSet(s[k])
  /\ t = [s EXCEPT ![l] = Append(s[l], e)]
  /\ Called("list_push", l, e)
TakesOut(s, t, l, i) ==
  /\ t = [s EXCEPT ![l] = RemoveAt(s[l], i)]
  /\ Called("list_remove", NoBlock, s[l][i])
Pops(s, t, l) ==
  /\ s[l] # <<>> /\ s[l] \in Seq(Blocks)
  /\ t = [s EXCEPT ![l] = RemoveAt(s[l], Len(s[l]))]
  /\ Called("list_pop", l, s[l][Len(s[l])])
FindsNone(s, t, l) ==
  /\ s[l] = <<>> /\ t = s
  /\ Called("list_pop", l, NoBlock)

Follows(s, t) ==
  \/ \E l \in Lists :
       \/ \E e \in Blocks : Pushes(s, t, l, e)
       \/ \E i \in 1 .. Len(s[l]) : s[l][i] \in Blocks /\ TakesOut(s, t, l, i)
       \/ Pops(s, t, l)
       \/ FindsNone(s, t, l)
  \/ t = s /\ UNCHANGED call

\* Every step changes the lists as FreeLists says.
LEMMA StepFollows ==
  ASSUME LinksTyped, NEW s, Represents(s), ListCalls
  PROVE  /\ next' \in Links /\ prev' \in Links /\ taken' \subseteq Blocks
         /\ \E t : Represents(t)' /\ Follows(s, t)
<1>1. next \in Links /\ prev \in Links /\ taken \subseteq Blocks
  BY DEF LinksTyped, Links
<1>2. ASSUME NEW l \in Lists, NEW e \in Blocks, list_push(l, e)
      PROVE  /\ next' \in Links /\ prev' \in Links /\ taken' \subseteq Blocks
             /\ \E t : Represents(t)' /\ Follows(s, t)
  <2> DEFINE t == [s EXCEPT ![l] = Append(s[l], e)]
  <2>1. /\ next' \in Links /\ prev' \in Links /\ Represents(t)'
        /\ \A k \in Lists : e \notin ToSet(s[k])
    BY <1>2, PushKeeps
  <2>2. taken' \subseteq Blocks /\ Called("list_push", l, e)
    BY <1>1, <1>2 DEF list_push
  <2>3. Pushes(s, t, l, e)
    BY <2>1, <2>2 DEF Pushes
  <2> HIDE DEF t
  <2> QED
    BY <2>1, <2>2, <2>3 DEF Follows
<1>3. ASSUME NEW e \in Blocks, list_remove(e)
      PROVE  /\ next' \in Links /\ prev' \in Links /\ taken' \subseteq Blocks
             /\ \E t : Represents(t)' /\ Follows(s, t)
  <2>1. e \in Blocks \ taken /\ Bypassed(e) /\ taken' = taken \cup {e} /\ Called("list_remove", NoBlock, e)
    BY <1>3 DEF list_remove
  <2>2. PICK l \in Lists : \E i \in 1 .. Len(s[l]) : s[l][i] = e
    BY <2>1, ListedAt
  <2>3. PICK i \in 1 .. Len(s[l]) : s[l][i] = e
    BY <2>2
  <2> DEFINE t == [s EXCEPT ![l] = RemoveAt(s[l], i)]
  <2>4. next' \in Links /\ prev' \in Links /\ Represents(t)'
    BY <2>1, <2>3, UnlinkKeeps
  <2>5. TakesOut(s, t, l, i)
    BY <2>1, <2>3 DEF TakesOut
  <2> HIDE DEF t
  <2> QED
    BY <1>1, <2>1, <2>3, <2>4, <2>5 DEF Follows
<1>4. ASSUME NEW l \in Lists, list_pop(l)
      PROVE  /\ next' \in Links /\ prev' \in Links /\ taken' \subseteq Blocks
             /\ \E t : Represents(t)' /\ Follows(s, t)
  <2>1. prev[l] # l /\ Bypassed(prev[l]) /\ Called("list_pop", l, prev[l]) /\ taken' = taken \cup {prev[l]}
    BY <1>4 DEF list_pop
  <2>2. /\ s[l] # <<>> /\ s[l] \in Seq(Blocks)
        /\ Len(s[l]) \in 1 .. Len(s[l]) /\ prev[l] = s[l][Len(s[l])] /\ prev[l] \in Blocks
    BY <2>1, BackIs, ListParts
  <2> DEFINE t == [s EXCEPT ![l] = RemoveAt(s[l], Len(s[l]))]
  <2>3. next' \in Links /\ prev' \in Links /\ Represents(t)'
    BY <2>1, <2>2, UnlinkKeeps
  <2>4. Pops(s, t, l)
    BY <2>1, <2>2 DEF Pops
  <2> HIDE DEF t
  <2> QED
    BY <1>1, <2>1, <2>2, <2>3, <2>4 DEF Follows
<1>5. ASSUME NEW l \in Lists, PopsNothing(l)
      PROVE  /\ next' \in Links /\ prev' \in Links /\ taken' \subseteq Blocks
             /\ \E t : Represents(t)' /\ Follows(s, t)
  <2>1. prev[l] = l /\ Called("list_pop", l, NoBlock) /\ next' = next /\ prev' = prev /\ taken' = taken
    BY <1>5 DEF PopsNothing
  <2>2. s[l] = <<>>
    BY <2>1, BackIs
  <2>3. Represents(s)'
    BY <2>1 DEF Represents
  <2>4. FindsNone(s, s, l)
    BY <2>1, <2>2 DEF FindsNone
  <2> QED
    BY <1>1, <2>1, <2>3, <2>4 DEF Follows
<1>6. ASSUME NEW e \in Blocks, Scribble(e)
      PROVE  /\ next' \in Links /\ prev' \in Links /\ taken' \subseteq Blocks
             /\ \E t : Represents(t)' /\ Follows(s, t)
  <2>1. next' \in Links /\ prev' \in Links /\ Represents(s)'
    BY <1>6, ScribbleKeeps
  <2>2. taken' = taken /\ UNCHANGED call
    BY <1>6 DEF Scribble
  <2> QED
    BY <1>1, <2>1, <2>2 DEF Follows
<1> QED
  BY <1>2, <1>3, <1>4, <1>5, <1>6 DEF ListCalls

\* The inductive step.
LEMMA StepSound == Sound /\ [ListCalls]_listVars => Sound'
<1> SUFFICES ASSUME Sound, [ListCalls]_listVars
             PROVE  Sound'
  OBVIOUS
<1>1. PICK s : Represents(s)
  BY DEF Sound
<1>2. LinksTyped
  BY DEF Sound
<1>3. CASE UNCHANGED listVars
  <2>1. LinksTyped'
    BY <1>2, <1>3 DEF LinksTyped, listVars
  <2>2. Represents(s)'
    BY <1>1, <1>3 DEF Represents, listVars
  <2> QED
    BY <2>1, <2>2 DEF Sound
<1>4. CASE ListCalls
  <2>1. /\ next' \in Links /\ prev' \in Links /\ taken' \subseteq Blocks
        /\ \E t : Represents(t)' /\ Follows(s, t)
    BY <1>1, <1>2, <1>4, StepFollows
  <2>2. PICK t : Represents(t)' /\ Follows(s, t)
    BY <2>1
  <2> DEFINE Calls == [op : {"none", "list_push", "list_remove", "list_pop"},
                       list : Lists \cup {NoBlock}, block : Blocks \cup {NoBlock}]
  <2>3. call' \in Calls
    <3>1. CASE t = s /\ UNCHANGED call
      BY <1>2, <3>1 DEF LinksTyped
    <3>2. ASSUME NEW l \in Lists, NEW e \in Blocks, Pushes(s, t, l, e)
          PROVE  call' \in Calls
      BY <3>2 DEF Pushes, Called
    <3>3. ASSUME NEW l \in Lists, NEW i \in 1 .. Len(s[l]), s[l][i] \in Blocks, TakesOut(s, t, l, i)
          PROVE  call' \in Calls
      BY <3>3 DEF TakesOut, Called
    <3>4. ASSUME NEW l \in Lists, Pops(s, t, l)
          PROVE  call' \in Calls
      <4>1. s[l] # <<>> /\ s[l] \in Seq(Blocks) /\ Called("list_pop", l, s[l][Len(s[l])])
        BY <3>4 DEF Pops
      <4>2. s[l][Len(s[l])] \in Blocks
        BY <4>1, EmptySeq
      <4> QED
        BY <4>1, <4>2 DEF Called
    <3>5. ASSUME NEW l \in Lists, FindsNone(s, t, l)
          PROVE  call' \in Calls
      BY <3>5 DEF FindsNone, Called
    <3> HIDE DEF Calls
    <3> QED
      BY <2>2, <3>1, <3>2, <3>3, <3>4, <3>5 DEF Follows
  <2>4. LinksTyped'
    BY <2>1, <2>3 DEF LinksTyped, Links
  <2> QED
    BY <2>2, <2>4 DEF Sound
<1> QED
  BY <1>3, <1>4

-------------------------------------------------------------------------------
(* What the loops along the links meet *)

\* Forward meets the blocks of the list in order, Backward in the opposite one.
LEMMA LoopsMeet ==
  ASSUME NEW s, Represents(s), NEW l \in Lists
  PROVE  Forward(l) = s[l] /\ Backward(l) = Reverse(s[l])
<1> DEFINE t == s[l]
           L == Len(t)
           u == Reverse(t)
<1>1. t \in Seq(Blocks) /\ Once(t) /\ IsRing(next, prev, l, t)
  BY ListParts
<1>2. Forward(l) = t
  BY <1>1, LoopIs DEF Forward, IsRing
<1>3. /\ u \in Seq(Blocks) /\ Len(u) = L /\ L \in Nat
      /\ \A i \in 1 .. L : L - i + 1 \in 1 .. L /\ u[i] = t[L - i + 1]
  <2>1. L \in Nat /\ \A i \in 1 .. L : L - i + 1 \in 1 .. L /\ t[L - i + 1] \in Blocks
    BY <1>1
  <2>2. u = [i \in 1 .. L |-> t[L - i + 1]]
    BY DEF Reverse
  <2> HIDE DEF u, t, L
  <2>3. u \in Seq(Blocks) /\ Len(u) = L
    BY <2>1, <2>2
  <2> QED
    BY <2>1, <2>2, <2>3
<1> HIDE DEF u
<1>4. Once(u)
  <2> SUFFICES ASSUME NEW i \in 1 .. L, NEW j \in 1 .. L, u[i] = u[j]
               PROVE  i = j
    BY <1>3 DEF Once
  <2>1. L - i + 1 = L - j + 1
    BY <1>1, <1>3 DEF Once
  <2> QED
    BY <1>3, <2>1
<1>5. \A i \in 0 .. L + 1 : Ring(l, u, i) = Ring(l, t, L + 1 - i)
  <2> TAKE i \in 0 .. L + 1
  <2>1. CASE i \in 1 .. L
    <3>1. L + 1 - i = L - i + 1 /\ L - i + 1 \in 1 .. L
      BY <1>3, <2>1
    <3> QED
      BY <1>3, <2>1, <3>1 DEF Ring
  <2>2. CASE i \notin 1 .. L
    <3>1. L + 1 - i \notin 1 .. L
      BY <1>3, <2>2
    <3> QED
      BY <1>3, <2>2, <3>1 DEF Ring
  <2> QED
    BY <2>1, <2>2
<1>6. Leads(prev, l, u)
  <2> SUFFICES ASSUME NEW i \in 0 .. L
               PROVE  prev[Ring(l, u, i)] = Ring(l, u, i + 1)
    BY <1>3 DEF Leads
  <2>0. L \in Nat
    BY <1>3
  <2>1. /\ L - i \in 0 .. L /\ L + 1 - i = (L - i) + 1 /\ L + 1 - (i + 1) = L - i
        /\ i \in 0 .. L + 1 /\ i + 1 \in 0 .. L + 1
    <3> HIDE DEF L
    <3> QED
      BY <2>0
  <2>2. prev[Ring(l, t, (L - i) + 1)] = Ring(l, t, L - i)
    BY <1>1, <2>1 DEF IsRing
  <2> QED
    BY <1>5, <2>1, <2>2
<1>7. Backward(l) = u
  BY <1>3, <1>4, <1>6, LoopIs DEF Backward
<1> QED
  BY <1>2, <1>7 DEF u

\* What a list's two loops meet is what ListsSound asks for.
LEMMA SoundLists == Sound => ListsSound
<1> SUFFICES ASSUME Sound
             PROVE  ListsSound
  OBVIOUS
<1>1. PICK s : Represents(s)
  BY DEF Sound
<1>2. ASSUME NEW l \in Lists
      PROVE  /\ Reverse(Forward(l)) = Backward(l)
             /\ ToSet(Forward(l)) \subseteq Blocks \ taken
             /\ ToSet(Backward(l)) = ToSet(s[l])
  <2>1. Forward(l) = s[l] /\ Backward(l) = Reverse(s[l])
    BY <1>1, LoopsMeet
  <2>2. ToSet(s[l]) \subseteq Blocks /\ ToSet(s[l]) \cap taken = {} /\ s[l] \in Seq(Blocks)
    BY <1>1, ListParts
  <2>3. ToSet(Reverse(s[l])) = ToSet(s[l])
    <3> DEFINE L == Len(s[l])
    <3>1. /\ L \in Nat /\ DOMAIN s[l] = 1 .. L
          /\ Reverse(s[l]) = [i \in 1 .. L |-> s[l][L - i + 1]]
      BY <2>2 DEF Reverse
    <3>2. \A i \in 1 .. L : L - i + 1 \in 1 .. L /\ L - (L - i + 1) + 1 = i
      BY <3>1
    <3>3. ToSet(Reverse(s[l])) = {s[l][L - i + 1] : i \in 1 .. L}
      BY <3>1 DEF ToSet
    <3> QED
      BY <3>1, <3>2, <3>3 DEF ToSet
  <2> QED
    BY <2>1, <2>2, <2>3
<1>3. BothWays
  BY <1>2 DEF BothWays
<1>4. InOneList
  <2> SUFFICES ASSUME NEW e \in Blocks \ taken
               PROVE  \E l \in Lists : \A k \in Lists : e \in ToSet(s[k]) <=> k = l
    BY <1>2 DEF InOneList, block_is_in_free_list
  <2>1. PICK l \in Lists : e \in ToSet(s[l])
    BY <1>1 DEF Represents
  <2>2. \A k \in Lists : k # l => e \notin ToSet(s[k])
    BY <1>1, <2>1 DEF Represents
  <2> QED
    BY <2>1, <2>2
<1> QED
  BY <1>3, <1>4 DEF ListsSound

-------------------------------------------------------------------------------
(* The sequences that FreeLists promises *)

\* The lists, before a step and after it, are what the links represent.
LEMMA ListsAre ==
  ASSUME NEW s
  PROVE  /\ Represents(s) => lists = s
         /\ Represents(s)' => lists' = s
<1>1. ASSUME Represents(s)
      PROVE  lists = s
  <2>1. /\ s \in [Lists -> Seq(Blocks)]
        /\ \A l \in Lists : Once(s[l]) /\ Leads(next, l, s[l])
    BY <1>1 DEF Represents, IsRing
  <2>2. \A l \in Lists : Loop(next, l) = s[l]
    BY <2>1, LoopIs
  <2> QED
    BY <2>1, <2>2 DEF lists, Forward
<1>2. ASSUME Represents(s)'
      PROVE  lists' = s
  <2>1. /\ s \in [Lists -> Seq(Blocks)]
        /\ \A l \in Lists : Once(s[l]) /\ Leads(next', l, s[l])
    BY <1>2 DEF Represents, IsRing
  <2>2. \A l \in Lists : Loop(next', l) = s[l]
    BY <2>1, LoopIs
  <2>3. lists' = [l \in Lists |-> Loop(next', l)]
    BY DEF lists, Forward
  <2> QED
    BY <2>1, <2>2, <2>3
<1> QED
  BY <1>1, <1>2

\* Heads that point at themselves are empty sequences.
LEMMA InitMaps == ListsEmpty => AsSequences!Init
<1> SUFFICES ASSUME ListsEmpty
             PROVE  AsSequences!Init
  OBVIOUS
<1>1. \A l \in Lists : next[l] = l
  BY DEF ListsEmpty, Nodes
<1>2. ASSUME NEW l \in Lists
      PROVE  Loop(next, l) = <<>>
  <2>1. Len(<<>>) = 0 /\ 0 .. 0 = {0} /\ \A i \in Int : Ring(l, <<>>, i) = l
    BY DEF Ring
  <2>2. Once(<<>>) /\ Leads(next, l, <<>>) /\ <<>> \in Seq(Blocks)
    BY <1>1, <2>1, EmptySeq DEF Once, Leads
  <2> QED
    BY <2>2, LoopIs
<1>3. lists = [l \in Lists |-> <<>>]
  BY <1>2 DEF lists, Forward
<1> QED
  BY <1>3 DEF AsSequences!Init, ListsEmpty

\* A step that changes the lists as Follows says is a step of FreeLists.
LEMMA StepMaps ==
  ASSUME Sound, [ListCalls]_listVars
  PROVE  [AsSequences!Next]_(AsSequences!vars)
<1>1. PICK s : Represents(s)
  BY DEF Sound
<1>2. LinksTyped
  BY DEF Sound
<1>3. PICK t : Represents(t)' /\ Follows(s, t)
  <2>1. CASE UNCHANGED listVars
    <3>1. Represents(s)' /\ UNCHANGED call
      BY <1>1, <2>1 DEF Represents, listVars
    <3> QED
      BY <3>1 DEF Follows
  <2>2. CASE ListCalls
    BY <1>1, <1>2, <2>2, StepFollows
  <2> QED
    BY <2>1, <2>2
<1>4. lists = s /\ lists' = t
  BY <1>1, <1>3, ListsAre
<1>5. s \in [Lists -> Seq(Blocks)]
  BY <1>1 DEF Represents
<1> HIDE DEF lists
<1>6. ASSUME NEW l \in Lists, NEW e \in Blocks, Pushes(s, t, l, e)
      PROVE  AsSequences!Next
  <2>1. \A k \in Lists : ~ AsSequences!Contains(s[k], e)
    <3>1. \A k \in Lists : e \notin ToSet(s[k]) /\ s[k] \in Seq(Blocks)
      BY <1>5, <1>6 DEF Pushes
    <3> QED
      BY <3>1 DEF AsSequences!Contains, ToSet
  <2>2. AsSequences!Push(l, e)
    BY <1>4, <1>6, <2>1 DEF Pushes, AsSequences!Push, AsSequences!Listed, AsSequences!Called, Called
  <2> QED
    BY <2>2 DEF AsSequences!Next
<1>7. ASSUME NEW l \in Lists, NEW i \in 1 .. Len(s[l]), s[l][i] \in Blocks, TakesOut(s, t, l, i)
      PROVE  AsSequences!Next
  <2>1. AsSequences!TakeOut(s[l][i])
    BY <1>4, <1>7 DEF TakesOut, RemoveAt, AsSequences!RemoveAt, AsSequences!TakeOut, AsSequences!Called, Called
  <2> QED
    BY <1>7, <2>1 DEF AsSequences!Next
<1>8. ASSUME NEW l \in Lists, Pops(s, t, l)
      PROVE  AsSequences!Next
  <2>1. s[l] # <<>> /\ s[l] \in Seq(Blocks) /\ t = [s EXCEPT ![l] = RemoveAt(s[l], Len(s[l]))]
    BY <1>8 DEF Pops
  <2>2. RemoveAt(s[l], Len(s[l])) = AsSequences!Front(s[l])
    <3> DEFINE q == s[l]
               u == RemoveAt(q, Len(q))
    <3>1. q \in Seq(Blocks) /\ Len(q) \in 1 .. Len(q) /\ Len(q) \in Nat
      BY <2>1, EmptySeq
    <3>2. u \in Seq(Blocks) /\ Len(u) = Len(q) - 1 /\ \A j \in 1 .. Len(q) - 1 : u[j] = q[j]
      <4> HIDE DEF q
      <4>1. \A j \in 1 .. Len(q) - 1 : j < Len(q)
        BY <3>1
      <4> QED
        BY <3>1, <4>1, Removed
    <3>3. /\ AsSequences!Front(q) \in Seq(Blocks) /\ Len(AsSequences!Front(q)) = Len(q) - 1
          /\ \A j \in 1 .. Len(q) - 1 : AsSequences!Front(q)[j] = q[j]
      <4> HIDE DEF q
      <4>1. 1 \in Int /\ Len(q) - 1 \in Int /\ \A j \in 1 .. Len(q) - 1 : q[j] \in Blocks
        BY <3>1
      <4>2. /\ SubSeq(q, 1, Len(q) - 1) \in Seq(Blocks)
            /\ Len(SubSeq(q, 1, Len(q) - 1)) = IF 1 <= Len(q) - 1 THEN (Len(q) - 1) - 1 + 1 ELSE 0
            /\ \A j \in 1 .. (Len(q) - 1) - 1 + 1 : SubSeq(q, 1, Len(q) - 1)[j] = q[1 + j - 1]
        BY <3>1, <4>1, SubSeqProperties
      <4>3. (IF 1 <= Len(q) - 1 THEN (Len(q) - 1) - 1 + 1 ELSE 0) = Len(q) - 1
        <5>1. \A k \in Nat \ {0} : (IF 1 <= k - 1 THEN (k - 1) - 1 + 1 ELSE 0) = k - 1
          OBVIOUS
        <5>2. Len(q) \in Nat \ {0}
          BY <3>1
        <5> QED
          BY <5>1, <5>2, Zenon
      <4>4. \A j \in 1 .. Len(q) - 1 : j \in 1 .. (Len(q) - 1) - 1 + 1 /\ 1 + j - 1 = j
        BY <3>1
      <4> DEFINE w == SubSeq(q, 1, Len(q) - 1)
      <4>5. AsSequences!Front(q) = w
        BY DEF AsSequences!Front
      <4> HIDE DEF w
      <4>6. ASSUME NEW j \in 1 .. Len(q) - 1
            PROVE  w[j] = q[j]
        <5>1. j \in 1 .. (Len(q) - 1) - 1 + 1 /\ 1 + j - 1 = j
          BY <4>4
        <5>2. w[j] = q[1 + j - 1]
          BY <4>2, <5>1, Zenon DEF w
        <5> QED
          BY <5>1, <5>2
      <4>7. w \in Seq(Blocks) /\ Len(w) = Len(q) - 1
        <5>1. Len(w) = IF 1 <= Len(q) - 1 THEN (Len(q) - 1) - 1 + 1 ELSE 0
          BY <4>2 DEF w
        <5>2. w \in Seq(Blocks)
          BY <4>2 DEF w
        <5> QED
          BY <4>3, <5>1, <5>2
      <4> QED
        BY <4>5, <4>6, <4>7
    <3> HIDE DEF u, q
    <3>4. u = AsSequences!Front(q)
      BY <3>1, <3>2, <3>3, SeqEqual
    <3> QED
      BY <3>4 DEF u, q
  <2>3. AsSequences!Pop(l)
    BY <1>4, <1>8, <2>1, <2>2 DEF Pops, AsSequences!Last, AsSequences!Pop, AsSequences!Called, Called
  <2> QED
    BY <2>3 DEF AsSequences!Next
<1>9. ASSUME NEW l \in Lists, FindsNone(s, t, l)
      PROVE  AsSequences!Next
  <2>1. AsSequences!PopEmpty(l)
    BY <1>4, <1>9 DEF FindsNone, AsSequences!PopEmpty, AsSequences!Called, Called
  <2> QED
    BY <2>1 DEF AsSequences!Next
<1>10. CASE t = s /\ UNCHANGED call
  BY <1>4, <1>10 DEF AsSequences!vars
<1> QED
  BY <1>3, <1>6, <1>7, <1>8, <1>9, <1>10 DEF Follows

-------------------------------------------------------------------------------
(* Theorems *)

\* Some sequences of blocks, none in two places, are what the links say in
\* both directions; the other blocks are the clients' (library.c:68-103).
THEOREM AlwaysSound == ListSpec => []Sound
<1> QED
  BY InitSound, StepSound, PTL DEF ListSpec

\* Every link leads to a node or is a client's bytes.
THEOREM AlwaysTyped == ListSpec => []LinksTyped
<1>1. Sound => LinksTyped
  BY DEF Sound
<1> QED
  BY <1>1, AlwaysSound, PTL

\* Every list can be walked in both directions over the same blocks, and every
\* block that no client has is in one list (library.c:68-103, 113-122).
THEOREM AlwaysListed == ListSpec => []ListsSound
<1> QED
  BY SoundLists, AlwaysSound, PTL

\* What the links say changes as the sequences of FreeLists do: blocks join and
\* leave at the back, list_remove takes one out from anywhere.
THEOREM Implements == ListSpec => ImplementsFreeLists
<1>1. Sound /\ [ListCalls]_listVars => [AsSequences!Next]_(AsSequences!vars)
  BY StepMaps
<1> QED
  BY InitMaps, AlwaysSound, <1>1, PTL DEF ListSpec, ImplementsFreeLists, AsSequences!Spec

===============================================================================
