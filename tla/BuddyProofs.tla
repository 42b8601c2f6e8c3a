------------------------------ MODULE BuddyProofs ------------------------------
(***************************************************************************)
(* What holds of the buddy allocator for every number of levels and every  *)
(* size of leaf: of the arithmetic of BuddyIds, which both other parts     *)
(* need; of the walk of BuddyTree, which checks it; and of the calls of    *)
(* BuddyAllocator, for every set of requests.  Induction on depths is the  *)
(* least number principle: a set of naturals that is not empty has a least *)
(* element.                                                                *)
(***************************************************************************)
EXTENDS BuddyAllocator, BuddyTree, SequenceTheorems, WellFoundedInduction, TLAPS

-------------------------------------------------------------------------------
(* The arithmetic of block ids *)

\* Every non-empty set of natural numbers has a least element.
LEMMA LeastElement ==
  ASSUME NEW T, T \subseteq Nat, T # {}
  PROVE  \E x \in T : \A y \in T : x <= y
<1> DEFINE R == OpToRel(<, Nat)
<1>1. IsWellFoundedOn(R, Nat)
  BY NatLessThanWellFounded, Zenon
<1> HIDE DEF R
<1>2. PICK x \in T : \A y \in T : ~ (<<y, x>> \in R)
  BY <1>1, WFMin
<1>3. \A y \in T : y < x => <<y, x>> \in R
  BY DEF R, OpToRel
<1>4. \A y \in T : ~ (y < x)
  BY <1>2, <1>3
<1>5. \A y \in T : y \in Nat
  OBVIOUS
<1>6. \A y \in T : x <= y
  BY <1>4, <1>5
<1> QED BY <1>6

-------------------------------------------------------------------------------
(* Powers of two *)

LEMMA DepthFacts ==
  /\ NUM_LEVELS \in Nat
  /\ NUM_LEVELS >= 1
  /\ max_allocator_depth \in Nat
  /\ max_allocator_depth = NUM_LEVELS - 1
  /\ Depths = 0 .. max_allocator_depth
  /\ \A d \in Depths : d \in Nat /\ d \in 0 .. NUM_LEVELS /\ d + 1 \in 0 .. NUM_LEVELS
BY LevelsAssumption DEF max_allocator_depth, Depths

\* Every entry of the table is at least 1.
LEMMA Pow2Positive ==
  \A d \in 0 .. NUM_LEVELS : Pow2[d] \in Nat /\ Pow2[d] >= 1
<1>1. \A d \in 0 .. NUM_LEVELS : Pow2[d] \in Nat
  BY Pow2Assumption
<1> DEFINE Bad == {d \in 0 .. NUM_LEVELS : ~ (Pow2[d] >= 1)}
<1>2. Bad = {}
  <2> SUFFICES ASSUME Bad # {} PROVE FALSE
    OBVIOUS
  <2>1. PICK d \in Bad : \A e \in Bad : d <= e
    <3>1. Bad \subseteq Nat
      BY DepthFacts
    <3> QED BY <3>1, LeastElement
  <2>2. d # 0
    BY Pow2Assumption
  <2>3. d - 1 \in 0 .. NUM_LEVELS - 1 /\ d - 1 \in 0 .. NUM_LEVELS
    BY <2>2, DepthFacts
  <2>4. Pow2[d - 1] >= 1
    BY <2>1, <2>3, DepthFacts
  <2>5. Pow2[(d - 1) + 1] = 2 * Pow2[d - 1]
    BY <2>3, Pow2Assumption
  <2>6. (d - 1) + 1 = d
    BY DepthFacts
  <2> QED BY <1>1, <2>3, <2>4, <2>5, <2>6
<1> QED BY <1>1, <1>2

\* The table at least doubles from one depth to any deeper one.
LEMMA Pow2Grows ==
  \A d, e \in 0 .. NUM_LEVELS : d < e => 2 * Pow2[d] <= Pow2[e]
<1> SUFFICES ASSUME NEW d \in 0 .. NUM_LEVELS
             PROVE  \A e \in 0 .. NUM_LEVELS : d < e => 2 * Pow2[d] <= Pow2[e]
  OBVIOUS
<1> DEFINE Bad == {e \in 0 .. NUM_LEVELS : d < e /\ ~ (2 * Pow2[d] <= Pow2[e])}
<1>1. Bad = {}
  <2> SUFFICES ASSUME Bad # {} PROVE FALSE
    OBVIOUS
  <2>1. PICK e \in Bad : \A f \in Bad : e <= f
    <3>1. Bad \subseteq Nat
      BY DepthFacts
    <3> QED BY <3>1, LeastElement
  <2>2. e - 1 \in 0 .. NUM_LEVELS - 1 /\ e - 1 \in 0 .. NUM_LEVELS /\ e \in Int
    BY DepthFacts
  <2>3. Pow2[(e - 1) + 1] = 2 * Pow2[e - 1]
    BY <2>2, Pow2Assumption
  <2>4. (e - 1) + 1 = e
    BY <2>2
  <2>5. Pow2[e] = 2 * Pow2[e - 1]
    BY <2>3, <2>4
  <2>6. Pow2[d] \in Nat /\ Pow2[e] \in Nat /\ Pow2[e - 1] \in Nat
    BY Pow2Positive, <2>2
  <2>7. CASE e - 1 = d
    BY <2>5, <2>6, <2>7
  <2>8. CASE e - 1 # d
    <3>1. d < e - 1
      BY <2>2, <2>8, DepthFacts
    <3>2. e - 1 \notin Bad
      BY <2>1, <2>2
    <3>3. 2 * Pow2[d] <= Pow2[e - 1]
      BY <3>1, <3>2, <2>2
    <3> QED BY <3>3, <2>5, <2>6
  <2> QED BY <2>7, <2>8
<1> QED BY <1>1

-------------------------------------------------------------------------------
(* Sizes *)

\* The memory is a whole number of blocks of every depth, and a block twice
\* one of the next depth.
LEMMA SizesDivide ==
  \A d \in Depths : \E k \in Nat : k >= 1 /\ MAX_ALLOC = Pow2[d] * k
<1> DEFINE D == max_allocator_depth
           Divides(d) == \E k \in Nat : k >= 1 /\ MAX_ALLOC = Pow2[d] * k
           Bad == {n \in 0 .. D : ~ Divides(D - n)}
<1>1. Bad = {}
  <2> SUFFICES ASSUME Bad # {} PROVE FALSE
    OBVIOUS
  <2>1. PICK n \in Bad : \A m \in Bad : n <= m
    <3>1. Bad \subseteq Nat
      BY DepthFacts
    <3> QED BY <3>1, LeastElement
  <2>2. n # 0
    <3> SUFFICES Divides(D - 0)
      OBVIOUS
    <3>1. D - 0 = NUM_LEVELS - 1 /\ D \in Depths
      BY DepthFacts
    <3>2. MIN_ALLOC \in Nat /\ MIN_ALLOC >= 1 /\ Pow2[NUM_LEVELS - 1] \in Nat
      BY LevelsAssumption, Pow2Positive, DepthFacts
    <3>3. MAX_ALLOC = Pow2[NUM_LEVELS - 1] * MIN_ALLOC
      BY <3>2 DEF MAX_ALLOC
    <3> QED BY <3>1, <3>2, <3>3
  <2> DEFINE d == D - n
  <2>3. /\ n - 1 \in 0 .. D
        /\ n - 1 \notin Bad
        /\ d \in 0 .. NUM_LEVELS - 1
        /\ d \in 0 .. NUM_LEVELS
        /\ D - (n - 1) = d + 1
    <3>1. n \in 0 .. D /\ D \in Nat
      BY DepthFacts
    <3>2. n - 1 \in 0 .. D /\ n - 1 < n
      BY <2>2, <3>1
    <3>3. n - 1 \notin Bad
      BY <2>1, <3>1, <3>2
    <3> QED BY <3>1, <3>2, <3>3, <2>2, DepthFacts
  <2>4. Divides(d + 1)
    BY <2>3
  <2>5. PICK k \in Nat : k >= 1 /\ MAX_ALLOC = Pow2[d + 1] * k
    BY <2>4
  <2>6. Pow2[d + 1] = 2 * Pow2[d] /\ Pow2[d] \in Nat
    BY <2>3, Pow2Assumption, Pow2Positive
  <2> HIDE DEF d
  <2>7. MAX_ALLOC = Pow2[d] * (2 * k) /\ 2 * k \in Nat /\ 2 * k >= 1
    BY <2>5, <2>6
  <2>8. Divides(d)
    BY <2>7
  <2> QED BY <2>1, <2>8 DEF d
<1>2. ASSUME NEW d \in Depths PROVE Divides(d)
  <2>1. D - d \in 0 .. D /\ D - (D - d) = d
    BY DepthFacts
  <2> QED BY <1>1, <2>1
<1> QED BY <1>2

LEMMA ExactQuotient ==
  ASSUME NEW p \in Nat, p >= 1, NEW k \in Nat
  PROVE  (p * k) \div p = k
<1> DEFINE q == (p * k) \div p
<1>1. q \in Int /\ p * q <= p * k /\ p * k < p * (q + 1)
  OBVIOUS
<1> HIDE DEF q
<1>2. q <= k
  BY <1>1
<1>3. k < q + 1
  BY <1>1
<1> QED BY <1>1, <1>2, <1>3 DEF q

LEMMA SizeFacts ==
  \A d \in Depths :
    /\ block_size_at_depth(d) \in Nat
    /\ block_size_at_depth(d) >= 1
    /\ MAX_ALLOC = Pow2[d] * block_size_at_depth(d)
<1> SUFFICES ASSUME NEW d \in Depths
             PROVE  /\ block_size_at_depth(d) \in Nat
                    /\ block_size_at_depth(d) >= 1
                    /\ MAX_ALLOC = Pow2[d] * block_size_at_depth(d)
  OBVIOUS
<1>1. PICK k \in Nat : k >= 1 /\ MAX_ALLOC = Pow2[d] * k
  BY SizesDivide
<1>2. Pow2[d] \in Nat /\ Pow2[d] >= 1
  BY Pow2Positive, DepthFacts
<1>3. (Pow2[d] * k) \div Pow2[d] = k
  BY <1>2, ExactQuotient
<1>4. block_size_at_depth(d) = k
  BY <1>1, <1>3 DEF block_size_at_depth
<1> QED BY <1>1, <1>4

LEMMA MemoryFacts ==
  /\ MAX_ALLOC \in Nat
  /\ MAX_ALLOC >= 1
  /\ 0 \in Depths
  /\ block_size_at_depth(0) = MAX_ALLOC
<1>1. 0 \in Depths
  BY DepthFacts
<1>2. Pow2[0] = 1
  BY Pow2Assumption
<1> QED BY <1>1, <1>2, SizeFacts

LEMMA Cancel ==
  ASSUME NEW p \in Nat, p >= 1, NEW a \in Int, NEW b \in Int, p * a <= p * b
  PROVE  a <= b
<1> SUFFICES ASSUME a >= b + 1 PROVE FALSE
  OBVIOUS
<1>1. p * a >= p * (b + 1)
  OBVIOUS
<1>2. p * (b + 1) = p * b + p
  OBVIOUS
<1> QED BY <1>1, <1>2

\* A block is two blocks of the next depth, and at least two of any deeper one.
LEMMA SizesHalve ==
  \A d \in Depths : d < max_allocator_depth =>
    /\ d + 1 \in Depths
    /\ Pow2[d + 1] = 2 * Pow2[d]
    /\ block_size_at_depth(d) = 2 * block_size_at_depth(d + 1)
<1> SUFFICES ASSUME NEW d \in Depths, d < max_allocator_depth
             PROVE  /\ d + 1 \in Depths
                    /\ Pow2[d + 1] = 2 * Pow2[d]
                    /\ block_size_at_depth(d) = 2 * block_size_at_depth(d + 1)
  OBVIOUS
<1>1. d + 1 \in Depths /\ d \in 0 .. NUM_LEVELS - 1 /\ d \in 0 .. NUM_LEVELS
  BY DepthFacts
<1>2. Pow2[d + 1] = 2 * Pow2[d]
  BY <1>1, Pow2Assumption
<1> DEFINE p == Pow2[d]
           a == block_size_at_depth(d)
           b == block_size_at_depth(d + 1)
<1>3. p \in Nat /\ p >= 1
  BY <1>1, Pow2Positive
<1>4. a \in Nat /\ b \in Nat /\ p * a = (2 * p) * b
  BY <1>1, <1>2, SizeFacts
<1> HIDE DEF p, a, b
<1>5. p * a = p * (2 * b)
  BY <1>3, <1>4
<1>6. a <= 2 * b
  BY <1>3, <1>4, <1>5, Cancel
<1>7. 2 * b <= a
  BY <1>3, <1>4, <1>5, Cancel
<1>8. a = 2 * b
  BY <1>4, <1>6, <1>7
<1> QED BY <1>1, <1>2, <1>8 DEF a, b

LEMMA SizesShrink ==
  \A d, e \in Depths : d < e => block_size_at_depth(d) >= 2 * block_size_at_depth(e)
<1> SUFFICES ASSUME NEW d \in Depths, NEW e \in Depths, d < e
             PROVE  block_size_at_depth(d) >= 2 * block_size_at_depth(e)
  OBVIOUS
<1> DEFINE p == Pow2[d]
           q == Pow2[e]
           a == block_size_at_depth(d)
           b == block_size_at_depth(e)
<1>1. p \in Nat /\ p >= 1 /\ q \in Nat /\ 2 * p <= q
  BY DepthFacts, Pow2Positive, Pow2Grows
<1>2. a \in Nat /\ b \in Nat /\ p * a = q * b
  BY SizeFacts
<1> HIDE DEF p, q, a, b
<1>3. q * b >= (2 * p) * b
  BY <1>1, <1>2
<1>4. (2 * p) * b = p * (2 * b)
  BY <1>1, <1>2
<1>5. p * (2 * b) <= p * a
  BY <1>1, <1>2, <1>3, <1>4
<1>6. 2 * b <= a
  BY <1>1, <1>2, <1>5, Cancel
<1> QED BY <1>2, <1>6 DEF a, b

-------------------------------------------------------------------------------
(* Levels.  The ids of a depth d are the Pow2[d] numbers from Pow2[d] - 1. *)

Level(d) == min_global_id_at_depth(d) .. max_global_id_at_depth(d)

LEMMA LevelBounds ==
  \A d \in Depths :
    /\ Pow2[d] \in Nat
    /\ Pow2[d] >= 1
    /\ min_global_id_at_depth(d) = Pow2[d] - 1
    /\ max_global_id_at_depth(d) = 2 * Pow2[d] - 2
    /\ Level(d) = Pow2[d] - 1 .. 2 * Pow2[d] - 2
    /\ Level(d) \subseteq Ids
<1> SUFFICES ASSUME NEW d \in Depths
             PROVE  /\ Pow2[d] \in Nat
                    /\ Pow2[d] >= 1
                    /\ min_global_id_at_depth(d) = Pow2[d] - 1
                    /\ max_global_id_at_depth(d) = 2 * Pow2[d] - 2
                    /\ Level(d) = Pow2[d] - 1 .. 2 * Pow2[d] - 2
                    /\ Level(d) \subseteq Ids
  OBVIOUS
<1> DEFINE D == max_allocator_depth
<1>1. /\ d \in 0 .. NUM_LEVELS - 1 /\ d \in 0 .. NUM_LEVELS
      /\ D \in 0 .. NUM_LEVELS - 1 /\ D \in 0 .. NUM_LEVELS /\ d <= D
  BY DepthFacts
<1>2. Pow2[d] \in Nat /\ Pow2[d] >= 1 /\ Pow2[D] \in Nat /\ Pow2[D] >= 1
  BY <1>1, Pow2Positive
<1>3. Pow2[d + 1] = 2 * Pow2[d] /\ Pow2[D + 1] = 2 * Pow2[D]
  BY <1>1, Pow2Assumption
<1>4. Pow2[d] <= Pow2[D]
  BY <1>1, <1>2, Pow2Grows
<1>5. Level(d) = Pow2[d] - 1 .. 2 * Pow2[d] - 2
  BY <1>3 DEF Level, min_global_id_at_depth, max_global_id_at_depth
<1>6. Ids = 0 .. 2 * Pow2[D] - 2
  BY <1>3 DEF Ids, max_global_id, max_global_id_at_depth
<1>7. Level(d) \subseteq Ids
  BY <1>2, <1>4, <1>5, <1>6
<1> QED
  BY <1>2, <1>3, <1>5, <1>7 DEF min_global_id_at_depth, max_global_id_at_depth

\* The loop of global_id_to_depth stops at the level that the id is in.
LEMMA DepthOfId ==
  ASSUME NEW d \in Depths, NEW id \in Level(d)
  PROVE  global_id_to_depth(id) = d
<1> DEFINE Stops(e) == /\ max_global_id_at_depth(e) >= id
                       /\ \A f \in 0 .. e - 1 : max_global_id_at_depth(f) < id
<1>0. id \in Int /\ d \in Nat /\ \A e \in Depths : e \in Nat
  BY LevelBounds, DepthFacts
<1>1. max_global_id_at_depth(d) >= id
  BY LevelBounds
<1>2. \A f \in 0 .. d - 1 : max_global_id_at_depth(f) < id
  <2> SUFFICES ASSUME NEW f \in 0 .. d - 1 PROVE max_global_id_at_depth(f) < id
    OBVIOUS
  <2>1. f \in Depths /\ f < d /\ f \in 0 .. NUM_LEVELS /\ d \in 0 .. NUM_LEVELS
    BY DepthFacts
  <2>2. 2 * Pow2[f] <= Pow2[d]
    BY <2>1, Pow2Grows
  <2> QED BY <2>1, <2>2, LevelBounds
<1>3. Stops(d)
  BY <1>1, <1>2
<1>4. ASSUME NEW e \in Depths, Stops(e) PROVE e = d
  <2>1. CASE e < d
    <3>1. e \in 0 .. d - 1
      BY <1>0, <2>1
    <3>2. max_global_id_at_depth(e) < id /\ max_global_id_at_depth(e) \in Int
      BY <1>2, <3>1, LevelBounds
    <3> QED BY <1>0, <1>4, <3>2
  <2>2. CASE d < e
    <3>1. d \in 0 .. e - 1
      BY <1>0, <2>2
    <3>2. max_global_id_at_depth(d) < id /\ max_global_id_at_depth(d) \in Int
      BY <1>4, <3>1, LevelBounds
    <3> QED BY <1>0, <1>1, <3>2
  <2> QED BY <1>0, <2>1, <2>2
<1>5. global_id_to_depth(id) = CHOOSE e \in Depths : Stops(e)
  BY DEF global_id_to_depth
<1> HIDE DEF Stops
<1> QED BY <1>3, <1>4, <1>5

\* Every id is in a level.
LEMMA IdsHaveDepth ==
  ASSUME NEW id \in Ids
  PROVE  /\ global_id_to_depth(id) \in Depths
         /\ id \in Level(global_id_to_depth(id))
<1> DEFINE D == max_allocator_depth
           Deep == {d \in Depths : max_global_id_at_depth(d) >= id}
<1>1. D \in Deep
  <2>1. D \in Depths /\ max_global_id_at_depth(D) = max_global_id
    BY DepthFacts DEF max_global_id
  <2>2. id <= max_global_id
    BY <2>1, LevelBounds DEF Ids
  <2> QED BY <2>1, <2>2, LevelBounds DEF Ids
<1>2. PICK d \in Deep : \A e \in Deep : d <= e
  <2>1. Deep \subseteq Nat
    BY DepthFacts
  <2> QED BY <1>1, <2>1, LeastElement
<1>3. id \in Nat
  BY DEF Ids
<1>4. id \in Level(d)
  <2>1. CASE d = 0
    BY <1>2, <1>3, <2>1, LevelBounds, Pow2Assumption
  <2>2. CASE d # 0
    <3>1. d - 1 \in Depths /\ d - 1 < d /\ d - 1 < D /\ (d - 1) + 1 = d
      BY <2>2, DepthFacts
    <3>2. d - 1 \notin Deep
      BY <1>2, <3>1, DepthFacts
    <3>3. ~ (max_global_id_at_depth(d - 1) >= id)
      BY <3>1, <3>2
    <3>4. Pow2[d] = 2 * Pow2[d - 1]
      BY <3>1, SizesHalve
    <3>5. max_global_id_at_depth(d) >= id
      BY <1>2
    <3> QED BY <1>3, <3>1, <3>3, <3>4, <3>5, LevelBounds
  <2> QED BY <2>1, <2>2
<1>5. global_id_to_depth(id) = d
  BY <1>2, <1>4, DepthOfId
<1> QED BY <1>2, <1>4, <1>5

-------------------------------------------------------------------------------
(* Pointers *)

\* The place of a block in its level, times its size.
LEMMA PtrOfId ==
  ASSUME NEW d \in Depths, NEW id \in Level(d)
  PROVE  /\ global_id_to_ptr(id) = (id - (Pow2[d] - 1)) * block_size_at_depth(d)
         /\ global_id_to_ptr(id) \in Nat
         /\ global_id_to_ptr(id) + block_size_at_depth(d) <= MAX_ALLOC
<1> DEFINE s == block_size_at_depth(d)
           p == Pow2[d]
           i == id - (p - 1)
<1>1. global_id_to_ptr(id) = i * s
  BY DepthOfId, LevelBounds DEF global_id_to_ptr, global_id_to_level_index
<1>2. s \in Nat /\ s >= 1 /\ p \in Nat /\ p >= 1 /\ MAX_ALLOC = p * s
  BY SizeFacts, LevelBounds
<1>3. i \in Nat /\ i + 1 <= p
  BY LevelBounds
<1> HIDE DEF s, p, i
<1>4. i * s \in Nat /\ i * s + s = (i + 1) * s /\ (i + 1) * s <= p * s
  BY <1>2, <1>3
<1> QED BY <1>1, <1>2, <1>4 DEF s, p, i

LEMMA Quotient ==
  ASSUME NEW s \in Nat, s >= 1, NEW i \in Nat, NEW x \in Int,
         i * s <= x, x < i * s + s
  PROVE  x \div s = i
<1> DEFINE q == x \div s
<1>1. q \in Int /\ s * q <= x /\ x < s * (q + 1)
  OBVIOUS
<1> HIDE DEF q
<1>2. s * q < s * (i + 1)
  BY <1>1
<1>3. s * i < s * (q + 1)
  BY <1>1
<1>4. ~ (i + 1 <= q)
  BY <1>1, <1>2
<1>5. ~ (q + 1 <= i)
  BY <1>1, <1>3
<1> QED BY <1>1, <1>4, <1>5 DEF q

LEMMA Remainder ==
  ASSUME NEW s \in Nat, s >= 1, NEW i \in Nat, NEW r \in Nat, r < s
  PROVE  (i * s + r) % s = r
<1> DEFINE x == i * s + r
           q == x \div s
<1>1. x \in Nat /\ i * s <= x /\ x < i * s + s
  OBVIOUS
<1>2. q = i
  BY <1>1, Quotient
<1>3. x = s * q + (x % s)
  BY <1>1
<1>4. s * q = i * s
  BY <1>2
<1> QED BY <1>1, <1>3, <1>4

LEMMA Division ==
  ASSUME NEW s \in Nat, s >= 1, NEW p \in Nat
  PROVE  p = s * (p \div s) + (p % s)
OBVIOUS

\* A pointer into a block, and the depth, give the block.
LEMMA IdOfPtr ==
  ASSUME NEW d \in Depths, NEW id \in Level(d), NEW x \in Int,
         global_id_to_ptr(id) <= x,
         x < global_id_to_ptr(id) + block_size_at_depth(d)
  PROVE  ptr_to_global_id(x, d) = id
<1> DEFINE s == block_size_at_depth(d)
           i == id - (Pow2[d] - 1)
<1>1. s \in Nat /\ s >= 1 /\ i \in Nat /\ id \in Int /\ Pow2[d] \in Nat
  BY SizeFacts, LevelBounds
<1>2. i * s <= x /\ x < i * s + s
  BY PtrOfId
<1>3. x \div s = i
  BY <1>1, <1>2, Quotient
<1> QED BY <1>1, <1>3, LevelBounds DEF ptr_to_global_id, level_index_to_global_id

\* And every pointer into the memory lies in a block of every depth.
LEMMA BlockAround ==
  ASSUME NEW d \in Depths, NEW x \in Nat, x < MAX_ALLOC
  PROVE  /\ ptr_to_global_id(x, d) \in Level(d)
         /\ global_id_to_ptr(ptr_to_global_id(x, d)) <= x
         /\ x < global_id_to_ptr(ptr_to_global_id(x, d)) + block_size_at_depth(d)
<1> DEFINE s == block_size_at_depth(d)
           p == Pow2[d]
           i == x \div s
           id == ptr_to_global_id(x, d)
<1>1. s \in Nat /\ s >= 1 /\ p \in Nat /\ p >= 1 /\ MAX_ALLOC = p * s
  BY SizeFacts, LevelBounds
<1>2. id = p - 1 + i
  BY LevelBounds DEF ptr_to_global_id, level_index_to_global_id
<1>3. i \in Int /\ s * i <= x /\ x < s * (i + 1)
  BY <1>1
<1> HIDE DEF s, i, p
<1>4. i >= 0
  <2>1. s * (i + 1) > 0
    BY <1>1, <1>3
  <2>2. ~ (i + 1 <= 0)
    BY <1>1, <1>3, <2>1
  <2> QED BY <1>3, <2>2
<1>5. i + 1 <= p
  <2>1. s * i < s * p
    BY <1>1, <1>3
  <2>2. ~ (p <= i)
    BY <1>1, <1>3, <2>1
  <2> QED BY <1>1, <1>3, <2>2
<1>6. id \in Level(d)
  BY <1>1, <1>2, <1>3, <1>4, <1>5, LevelBounds DEF p
<1>7. global_id_to_ptr(id) = i * s
  <2>1. id - (p - 1) = i
    BY <1>1, <1>2, <1>3
  <2>2. global_id_to_ptr(id) = (id - (p - 1)) * s
    BY <1>6, PtrOfId DEF p, s
  <2> QED BY <2>1, <2>2
<1>8. i * s <= x /\ x < i * s + s
  BY <1>1, <1>3
<1> QED BY <1>6, <1>7, <1>8 DEF s

-------------------------------------------------------------------------------
(* The tree *)

\* The two children of a block, one level down, are its two halves.
LEMMA Children ==
  ASSUME NEW d \in Depths, d < max_allocator_depth, NEW id \in Level(d)
  PROVE  LET left == left_child_global_id(id)
             right == right_child_global_id(id)
         IN  /\ left \in Level(d + 1)
             /\ right \in Level(d + 1)
             /\ left # right
             /\ left > 0
             /\ parent_global_id(left) = id
             /\ parent_global_id(right) = id
             /\ buddy_global_id(left) = right
             /\ buddy_global_id(right) = left
             /\ global_id_to_ptr(left) = global_id_to_ptr(id)
             /\ global_id_to_ptr(right) = global_id_to_ptr(id) + block_size_at_depth(d + 1)
<1> DEFINE left == left_child_global_id(id)
           right == right_child_global_id(id)
           s == block_size_at_depth(d + 1)
           p == Pow2[d]
<1>1. /\ d + 1 \in Depths
      /\ Pow2[d + 1] = 2 * p
      /\ block_size_at_depth(d) = 2 * s
      /\ s \in Nat /\ p \in Nat /\ p >= 1
  BY SizesHalve, SizeFacts, LevelBounds
<1>2. id \in Nat /\ id >= p - 1 /\ id <= 2 * p - 2
  BY <1>1, LevelBounds, SMTT(60)
<1>3. left = 2 * id + 1 /\ right = 2 * id + 2
  BY DEF left_child_global_id, right_child_global_id
<1>4. left \in Level(d + 1) /\ right \in Level(d + 1)
  <2>1. Level(d + 1) = Pow2[d + 1] - 1 .. 2 * Pow2[d + 1] - 2
    BY <1>1, LevelBounds
  <2>2. Level(d + 1) = 2 * p - 1 .. 4 * p - 2
    BY <1>1, <2>1
  <2> QED BY <1>1, <1>2, <1>3, <2>2
<1>5. parent_global_id(left) = id /\ parent_global_id(right) = id
  BY <1>2, <1>3 DEF parent_global_id
<1>6. buddy_global_id(left) = right /\ buddy_global_id(right) = left
  BY <1>2, <1>3 DEF buddy_global_id
<1>7. /\ global_id_to_ptr(left) = (left - (2 * p - 1)) * s
      /\ global_id_to_ptr(right) = (right - (2 * p - 1)) * s
      /\ global_id_to_ptr(id) = (id - (p - 1)) * (2 * s)
  BY <1>1, <1>4, PtrOfId
<1> HIDE DEF s, p
<1>8. /\ left - (2 * p - 1) = 2 * (id - (p - 1))
      /\ right - (2 * p - 1) = 2 * (id - (p - 1)) + 1
  BY <1>1, <1>2, <1>3
<1> DEFINE i == id - (p - 1)
<1>9. i \in Int
  BY <1>1, <1>2
<1> HIDE DEF i
<1>10. (2 * i) * s = i * (2 * s) /\ (2 * i + 1) * s = i * (2 * s) + s
  BY <1>1, <1>9
<1>11. global_id_to_ptr(left) = global_id_to_ptr(id)
  BY <1>7, <1>8, <1>10 DEF i
<1>12. global_id_to_ptr(right) = global_id_to_ptr(id) + s
  BY <1>7, <1>8, <1>10 DEF i
<1> QED BY <1>2, <1>3, <1>4, <1>5, <1>6, <1>11, <1>12 DEF s

\* A block below the root is the left or the right child of its parent.
LEMMA Parent ==
  ASSUME NEW d \in Depths, d > 0, NEW id \in Level(d)
  PROVE  /\ d - 1 \in Depths
         /\ d - 1 < max_allocator_depth
         /\ (d - 1) + 1 = d
         /\ parent_global_id(id) \in Level(d - 1)
         /\ \/ id = left_child_global_id(parent_global_id(id))
            \/ id = right_child_global_id(parent_global_id(id))
<1>1. d - 1 \in Depths /\ d - 1 < max_allocator_depth /\ (d - 1) + 1 = d
  BY DepthFacts
<1>2. Pow2[d] = 2 * Pow2[d - 1] /\ Pow2[d - 1] \in Nat /\ Pow2[d - 1] >= 1
  BY <1>1, SizesHalve, LevelBounds
<1>3. id \in Nat /\ id >= 2 * Pow2[d - 1] - 1 /\ id <= 4 * Pow2[d - 1] - 2
  <2>1. Level(d) = Pow2[d] - 1 .. 2 * Pow2[d] - 2
    BY LevelBounds
  <2>2. Level(d) = 2 * Pow2[d - 1] - 1 .. 4 * Pow2[d - 1] - 2
    BY <1>2, <2>1
  <2> QED BY <1>2, <2>2
<1>4. parent_global_id(id) = (id - 1) \div 2
  BY <1>2, <1>3 DEF parent_global_id
<1>5. parent_global_id(id) \in Level(d - 1)
  <2>1. Level(d - 1) = Pow2[d - 1] - 1 .. 2 * Pow2[d - 1] - 2
    BY <1>1, LevelBounds
  <2> QED BY <1>2, <1>3, <1>4, <2>1
<1>6. id = 2 * ((id - 1) \div 2) + 1 \/ id = 2 * ((id - 1) \div 2) + 2
  BY <1>3
<1> QED BY <1>1, <1>4, <1>5, <1>6 DEF left_child_global_id, right_child_global_id

LEMMA Buddy ==
  ASSUME NEW d \in Depths, d > 0, NEW id \in Level(d)
  PROVE  /\ buddy_global_id(id) \in Level(d)
         /\ buddy_global_id(id) # id
         /\ buddy_global_id(buddy_global_id(id)) = id
         /\ parent_global_id(buddy_global_id(id)) = parent_global_id(id)
<1> DEFINE p == parent_global_id(id)
<1>1. d - 1 \in Depths /\ d - 1 < max_allocator_depth /\ (d - 1) + 1 = d /\ p \in Level(d - 1)
  BY Parent
<1>2. id = left_child_global_id(p) \/ id = right_child_global_id(p)
  BY Parent
<1> HIDE DEF p
<1> QED BY <1>1, <1>2, Children DEF p

\* The bit of a pair is the one of its parent, shifted by one; the root's is 0.
LEMMA PairOfId ==
  ASSUME NEW id \in Ids
  PROVE  /\ id = 0 => buddy_pair_unique_id(id) = 0
         /\ id # 0 => buddy_pair_unique_id(id) = parent_global_id(id) + 1
         /\ parent_global_id(id) \in Nat
<1>1. id \in Nat
  BY DEF Ids
<1> QED BY <1>1 DEF buddy_pair_unique_id, parent_global_id

\* The root is the only block of depth 0.
LEMMA Root ==
  /\ 0 \in Ids
  /\ 0 \in Level(0)
  /\ global_id_to_depth(0) = 0
  /\ global_id_to_ptr(0) = 0
  /\ \A d \in Depths : 0 \in Level(d) => d = 0
  /\ \A id \in Level(0) : id = 0
<1>1. 0 \in Depths /\ Pow2[0] = 1
  BY MemoryFacts, Pow2Assumption
<1>2. Level(0) = 0 .. 0
  BY <1>1, LevelBounds
<1>3. 0 \in Level(0) /\ 0 \in Ids
  BY <1>1, <1>2, LevelBounds
<1>4. global_id_to_depth(0) = 0
  BY <1>1, <1>3, DepthOfId
<1>5. global_id_to_ptr(0) = 0
  <2>1. global_id_to_ptr(0) = (0 - (1 - 1)) * block_size_at_depth(0)
    BY <1>1, <1>3, PtrOfId
  <2> QED BY <2>1, <1>1, SizeFacts
<1>6. \A d \in Depths : 0 \in Level(d) => d = 0
  BY <1>3, <1>1, DepthOfId
<1> QED BY <1>2, <1>3, <1>4, <1>5, <1>6

\* A pair of buddies shares its bit with no other block.
LEMMA PairsDistinct ==
  ASSUME NEW id \in Ids, NEW j \in Ids
  PROVE  buddy_pair_unique_id(j) = buddy_pair_unique_id(id)
           <=> j = id \/ j = buddy_global_id(id)
<1>1. id \in Nat /\ j \in Nat
  BY DEF Ids
<1>2. CASE id = 0
  BY <1>1, <1>2 DEF buddy_pair_unique_id, buddy_global_id
<1>3. CASE id # 0 /\ id % 2 = 0
  BY <1>1, <1>3 DEF buddy_pair_unique_id, buddy_global_id
<1>4. CASE id # 0 /\ id % 2 # 0
  BY <1>1, <1>4 DEF buddy_pair_unique_id, buddy_global_id
<1> QED BY <1>2, <1>3, <1>4

\* The loop of depth_for_request stops at the deepest level whose blocks are
\* large enough.
LEMMA DepthOfRequest ==
  ASSUME NEW d \in Depths, NEW request \in Nat
  PROVE  depth_for_request(request) = d
           <=> /\ request <= block_size_at_depth(d)
               /\ d = max_allocator_depth \/ block_size_at_depth(d + 1) < request
<1> DEFINE D == max_allocator_depth
           Fits(e) == request <= block_size_at_depth(e)
           Tight(e) == e = D \/ block_size_at_depth(e + 1) < request
           Stops(e) == /\ Tight(e)
                       /\ \A f \in 0 .. e - 1 : block_size_at_depth(f + 1) >= request
<1>0. /\ D \in Nat /\ Depths = 0 .. D
      /\ \A e \in Depths : e \in Nat /\ (e # D => e + 1 \in Depths)
      /\ \A e \in Depths : e # 0 => e - 1 \in Depths /\ (e - 1) + 1 = e
  BY DepthFacts
<1>1. \A e, f \in Depths : e <= f =>
        block_size_at_depth(e) \in Nat /\ block_size_at_depth(f) \in Nat
          /\ block_size_at_depth(f) <= block_size_at_depth(e)
  <2> SUFFICES ASSUME NEW e \in Depths, NEW f \in Depths, e <= f
               PROVE  block_size_at_depth(e) \in Nat /\ block_size_at_depth(f) \in Nat
                        /\ block_size_at_depth(f) <= block_size_at_depth(e)
    OBVIOUS
  <2>1. block_size_at_depth(e) \in Nat /\ block_size_at_depth(f) \in Nat
    BY SizeFacts
  <2>2. CASE e = f
    BY <2>1, <2>2
  <2>3. CASE e # f
    <3>1. e < f
      BY <1>0, <2>3
    <3>2. block_size_at_depth(e) >= 2 * block_size_at_depth(f)
      BY <3>1, SizesShrink
    <3> QED BY <2>1, <3>2
  <2> QED BY <2>2, <2>3
<1>2. CASE request > MAX_ALLOC
  <2>1. depth_for_request(request) = -1 /\ d # -1
    BY <1>0, <1>2 DEF depth_for_request
  <2>2. block_size_at_depth(d) <= MAX_ALLOC /\ block_size_at_depth(d) \in Nat /\ MAX_ALLOC \in Nat
    <3>1. 0 <= d
      BY <1>0
    <3> QED BY <3>1, <1>1, MemoryFacts
  <2> QED BY <1>2, <2>1, <2>2
<1>3. CASE ~ (request > MAX_ALLOC)
  <2>1. depth_for_request(request) = CHOOSE e \in Depths : Stops(e)
    BY <1>3 DEF depth_for_request
  <2>2. PICK e \in Depths : Tight(e) /\ \A f \in Depths : Tight(f) => e <= f
    <3> DEFINE T == {f \in Depths : Tight(f)}
    <3>1. T \subseteq Nat /\ T # {}
      BY <1>0
    <3>2. \E x \in T : \A y \in T : x <= y
      BY <3>1, LeastElement
    <3> QED BY <3>2
  <2>3. ASSUME NEW f \in Depths, f < e
        PROVE  f + 1 \in Depths /\ f # D /\ block_size_at_depth(f + 1) >= request
    <3>1. f # D /\ f + 1 \in Depths /\ ~ Tight(f)
      BY <1>0, <2>2, <2>3
    <3>2. block_size_at_depth(f + 1) \in Nat
      BY <3>1, SizeFacts
    <3> QED BY <3>1, <3>2
  <2>4. Stops(e)
    <3>1. \A f \in 0 .. e - 1 : f \in Depths /\ f < e
      BY <1>0
    <3> QED BY <2>2, <2>3, <3>1
  <2>5. ASSUME NEW f \in Depths, Stops(f) PROVE f = e
    <3>1. CASE e < f
      <4>1. e \in 0 .. f - 1 /\ e # D /\ e + 1 \in Depths
        BY <1>0, <3>1
      <4>2. block_size_at_depth(e + 1) \in Nat
        BY <4>1, SizeFacts
      <4> QED BY <2>2, <2>5, <4>1, <4>2
    <3>2. CASE ~ (e < f)
      BY <1>0, <2>2, <2>5, <3>2
    <3> QED BY <3>1, <3>2
  <2>6. depth_for_request(request) = e
    <3> HIDE DEF Stops
    <3> QED BY <2>1, <2>4, <2>5
  <2>7. Fits(e)
    <3>1. CASE e = 0
      BY <1>3, <3>1, MemoryFacts
    <3>2. CASE e # 0
      <4>1. e - 1 \in Depths /\ e - 1 < e /\ (e - 1) + 1 = e
        BY <1>0, <3>2
      <4>2. block_size_at_depth((e - 1) + 1) >= request /\ block_size_at_depth(e) \in Nat
        BY <2>3, <4>1, SizeFacts
      <4> QED BY <4>1, <4>2
    <3> QED BY <3>1, <3>2
  <2>8. ASSUME Fits(d), Tight(d) PROVE d = e
    <3>1. e <= d
      BY <2>2, <2>8
    <3>2. CASE e < d
      <4>1. e # D /\ e + 1 \in Depths /\ e + 1 <= d
        BY <1>0, <3>2
      <4>2. block_size_at_depth(d) <= block_size_at_depth(e + 1)
            /\ block_size_at_depth(d) \in Nat /\ block_size_at_depth(e + 1) \in Nat
        BY <1>1, <4>1
      <4> QED BY <2>2, <2>8, <4>1, <4>2
    <3> QED BY <1>0, <3>1, <3>2
  <2> QED BY <2>2, <2>6, <2>7, <2>8
<1> QED BY <1>2, <1>3

\* The loop stops for every request that the memory could hold, and for no other.
LEMMA RequestHasDepth ==
  ASSUME NEW request \in Nat
  PROVE  /\ request <= MAX_ALLOC => depth_for_request(request) \in Depths
         /\ request > MAX_ALLOC => depth_for_request(request) = -1
<1>1. ASSUME request <= MAX_ALLOC
      PROVE  depth_for_request(request) \in Depths
  <2> DEFINE Tight(e) == e = max_allocator_depth \/ block_size_at_depth(e + 1) < request
             T == {e \in Depths : Tight(e)}
  <2>1. max_allocator_depth \in T /\ T \subseteq Nat
    BY DepthFacts
  <2>2. PICK e \in T : \A f \in T : e <= f
    BY <2>1, LeastElement
  <2>3. e \in Depths /\ e \in Nat
    BY <2>1, <2>2
  <2>4. request <= block_size_at_depth(e)
    <3>1. CASE e = 0
      BY <1>1, <3>1, MemoryFacts
    <3>2. CASE e # 0
      <4>1. e - 1 \in Depths /\ (e - 1) + 1 = e /\ ~ (e <= e - 1)
        BY <2>3, <3>2, DepthFacts
      <4>2. ~ Tight(e - 1)
        BY <2>2, <4>1
      <4>3. ~ (block_size_at_depth(e) < request) /\ block_size_at_depth(e) \in Nat
        BY <2>3, <4>1, <4>2, SizeFacts
      <4> QED BY <4>3
    <3> QED BY <3>1, <3>2
  <2>5. depth_for_request(request) = e
    BY <2>2, <2>3, <2>4, DepthOfRequest
  <2> QED BY <2>3, <2>5
<1>2. ASSUME request > MAX_ALLOC
      PROVE  depth_for_request(request) = -1
  BY <1>2 DEF depth_for_request
<1> QED BY <1>1, <1>2

-------------------------------------------------------------------------------
(* BuddyTree: the walk and the arithmetic agree *)

\* Where the walk is, in terms of the arithmetic.
Walk ==
  /\ halvings \in Depths
  /\ walked \in Level(halvings)
  /\ width = block_size_at_depth(halvings)
  /\ lower = global_id_to_ptr(walked)

LEMMA WalkBegins == AtRoot => Walk
BY Root, MemoryFacts DEF AtRoot, Walk

LEMMA WalkAcross == Walk /\ GoAcross => Walk'
<1> SUFFICES ASSUME Walk, GoAcross PROVE Walk'
  OBVIOUS
<1> DEFINE d == halvings
           s == width
           p == Pow2[halvings]
           i == walked - (p - 1)
<1>1. /\ d \in Depths /\ d > 0 /\ walked \in Level(d) /\ s \in Nat /\ s >= 1
      /\ p \in Nat /\ walked \in Nat /\ i \in Nat /\ walked = i + p - 1
  BY SizeFacts, LevelBounds DEF Walk, GoAcross, Ids
<1>2. lower = i * s
  BY PtrOfId DEF Walk
<1>3. lower \in Int /\ lower < i * s + s /\ i * s <= lower
  BY <1>1, <1>2
<1>4. lower \div s = i
  BY <1>1, <1>3, Quotient
<1>5. PICK half \in Nat : half >= 1 /\ p = 2 * half
  <2>1. d - 1 \in Depths /\ d - 1 < max_allocator_depth /\ (d - 1) + 1 = d
    BY <1>1, Parent
  <2>2. p = 2 * Pow2[d - 1] /\ Pow2[d - 1] \in Nat /\ Pow2[d - 1] >= 1
    BY <2>1, SizesHalve, LevelBounds
  <2> QED BY <2>2
<1>6. buddy_global_id(walked) \in Level(d)
  BY <1>1, Buddy
<1>7. global_id_to_ptr(buddy_global_id(walked)) = (buddy_global_id(walked) - (p - 1)) * s
  BY <1>1, <1>6, PtrOfId DEF Walk
<1>8. halvings' = d /\ width' = s /\ walked' = buddy_global_id(walked)
      /\ lower' = IF (lower \div s) % 2 = 0 THEN lower + s ELSE lower - s
  BY DEF GoAcross
<1>9. lower' = global_id_to_ptr(walked')
  <2>1. CASE i % 2 = 0
    <3>1. walked % 2 # 0 /\ walked # 0
      BY <1>1, <1>5, <2>1
    <3>2. buddy_global_id(walked) - (p - 1) = i + 1
      BY <1>1, <3>1 DEF buddy_global_id
    <3>3. (i + 1) * s = i * s + s
      BY <1>1
    <3> QED BY <1>2, <1>4, <1>7, <1>8, <2>1, <3>2, <3>3
  <2>2. CASE i % 2 # 0
    <3>1. walked % 2 = 0 /\ walked # 0
      BY <1>1, <1>5, <2>2
    <3>2. buddy_global_id(walked) - (p - 1) = i - 1
      BY <1>1, <3>1 DEF buddy_global_id
    <3>3. (i - 1) * s = i * s - s
      BY <1>1
    <3> QED BY <1>2, <1>4, <1>7, <1>8, <2>2, <3>2, <3>3
  <2> QED BY <2>1, <2>2
<1> QED BY <1>1, <1>6, <1>8, <1>9 DEF Walk

LEMMA WalkUp == Walk /\ GoUp => Walk'
<1> SUFFICES ASSUME Walk, GoUp PROVE Walk'
  OBVIOUS
<1> DEFINE d == halvings
           s == width
           up == parent_global_id(walked)
           j == up - (Pow2[halvings - 1] - 1)
<1>1. /\ d - 1 \in Depths /\ d - 1 < max_allocator_depth /\ (d - 1) + 1 = d
      /\ up \in Level(d - 1)
      /\ walked = left_child_global_id(up) \/ walked = right_child_global_id(up)
  BY Parent DEF Walk, GoUp
<1>2. block_size_at_depth(d - 1) = 2 * s /\ s \in Nat /\ s >= 1
  BY <1>1, SizesHalve, SizeFacts DEF Walk
<1>3. j \in Nat
  BY <1>1, LevelBounds
<1>4. global_id_to_ptr(up) = j * (2 * s)
  BY <1>1, <1>2, PtrOfId
<1>5. lower = j * (2 * s) + 0 \/ lower = j * (2 * s) + s
  <2>1. global_id_to_ptr(left_child_global_id(up)) = global_id_to_ptr(up)
    BY <1>1, Children
  <2>2. global_id_to_ptr(right_child_global_id(up)) = global_id_to_ptr(up) + s
    BY <1>1, Children DEF Walk
  <2>3. j * (2 * s) + 0 = j * (2 * s)
    BY <1>2, <1>3
  <2> QED BY <1>1, <1>4, <2>1, <2>2, <2>3 DEF Walk
<1>6. lower % (2 * s) = lower - j * (2 * s) /\ lower \in Int /\ j * (2 * s) \in Int
  <2>1. 2 * s \in Nat /\ 2 * s >= 1 /\ 0 < 2 * s /\ s < 2 * s /\ j * (2 * s) \in Nat
    BY <1>2, <1>3
  <2>2. CASE lower = j * (2 * s) + 0
    <3>1. (j * (2 * s) + 0) % (2 * s) = 0
      BY <1>3, <2>1, Remainder
    <3> QED BY <2>1, <2>2, <3>1
  <2>3. CASE lower = j * (2 * s) + s
    <3>1. (j * (2 * s) + s) % (2 * s) = s
      BY <1>2, <1>3, <2>1, Remainder
    <3> QED BY <1>2, <2>1, <2>3, <3>1
  <2> QED BY <1>5, <2>2, <2>3
<1>7. halvings' = d - 1 /\ width' = 2 * s /\ walked' = up /\ lower' = lower - (lower % (2 * s))
  BY DEF GoUp
<1>8. lower' = global_id_to_ptr(walked')
  BY <1>4, <1>6, <1>7
<1> QED BY <1>1, <1>2, <1>7, <1>8 DEF Walk

LEMMA WalkDown == Walk /\ (GoLeft \/ GoRight) => Walk'
<1> SUFFICES ASSUME Walk, GoLeft \/ GoRight PROVE Walk'
  OBVIOUS
<1>1. halvings \in Depths /\ halvings < max_allocator_depth /\ walked \in Level(halvings)
  BY DEF Walk, GoLeft, GoRight
<1>2. /\ halvings + 1 \in Depths
      /\ width = 2 * block_size_at_depth(halvings + 1)
      /\ block_size_at_depth(halvings + 1) \in Nat
  BY <1>1, SizesHalve, SizeFacts DEF Walk
<1>3. width \div 2 = block_size_at_depth(halvings + 1)
  BY <1>2
<1>4. CASE GoLeft
  BY <1>1, <1>2, <1>3, <1>4, Children DEF Walk, GoLeft
<1>5. CASE GoRight
  BY <1>1, <1>2, <1>3, <1>5, Children DEF Walk, GoRight
<1> QED BY <1>4, <1>5

LEMMA WalkInvariant == Walking => []Walk
<1>1. Walk /\ [Walks]_place => Walk'
  <2> SUFFICES ASSUME Walk, [Walks]_place PROVE Walk'
    OBVIOUS
  <2>1. CASE UNCHANGED place
    BY <2>1 DEF place, Walk
  <2> QED BY <2>1, WalkAcross, WalkUp, WalkDown DEF Walks
<1> QED BY <1>1, WalkBegins, PTL DEF Walking

-------------------------------------------------------------------------------
(* Theorems of the walk *)

\* An id names one block: depth, size and place follow from it, and every
\* pointer into the block leads back to it (4_1.c:28-56).
THEOREM IdsCorrect == Walking => []IdsNameBlocks
<1>1. Walk => IdsNameBlocks
  <2> SUFFICES ASSUME Walk PROVE IdsNameBlocks
    OBVIOUS
  <2>1. NamesTheInterval
    BY DepthOfId DEF Walk, NamesTheInterval
  <2>2. ASSUME NEW ptr \in lower .. lower + width - 1
        PROVE  ptr_to_global_id(ptr, halvings) = walked
    <3>1. lower \in Nat /\ width \in Nat
      BY PtrOfId, SizeFacts DEF Walk
    <3>2. ptr \in Int /\ lower <= ptr /\ ptr < lower + width
      BY <3>1
    <3> QED BY <3>2, IdOfPtr DEF Walk
  <2> QED BY <2>1, <2>2 DEF IdsNameBlocks, PointersFindTheBlock
<1> QED BY <1>1, WalkInvariant, PTL

\* Two blocks share a bit of merge_index exactly when they are buddies
\* (4_1.c:58-70).
THEOREM PairsCorrect == Walking => []PairsAreBuddies
<1>1. Walk => PairsAreBuddies
  <2> SUFFICES ASSUME Walk, NEW j \in Ids
               PROVE  buddy_pair_unique_id(j) = buddy_pair_unique_id(walked)
                        <=> j \in {walked, buddy_global_id(walked)}
    BY DEF PairsAreBuddies
  <2>1. walked \in Ids
    BY LevelBounds DEF Walk
  <2> QED BY <2>1, PairsDistinct
<1> QED BY <1>1, WalkInvariant, PTL

LEMMA ByteInRange ==
  ASSUME NEW n \in Nat, n % 8 # 0, NEW k \in Nat, k <= n
  PROVE  k \div 8 < BytesFor(n)
<1> DEFINE q == n \div 8
           r == k \div 8
<1>1. q \in Int /\ r \in Int /\ 8 * q <= n /\ n < 8 * (q + 1) /\ 8 * r <= k
  OBVIOUS
<1>2. BytesFor(n) = (q * 8 + 8) \div 8
  BY DEF BytesFor
<1> HIDE DEF q, r
<1>3. (q * 8 + 8) \div 8 = q + 1
  BY <1>1
<1>4. r <= q
  BY <1>1
<1> QED BY <1>1, <1>2, <1>3, <1>4 DEF r

\* With three levels or more every bit that a block may use lies inside the
\* arrays of init_allocator (library.c:125-146).  With one or two it does not:
\* the formulas then allocate no byte at all for a bit that malloc flips.
THEOREM BitsCorrect ==
  ASSUME NUM_LEVELS >= 3
  PROVE  Walking => []BitsFitTheArrays
<1> DEFINE D == max_allocator_depth
           m == Pow2[D - 2]
<1>1. /\ D \in Depths /\ D - 1 \in Depths /\ D - 2 \in Depths
      /\ D - 1 < D /\ D - 2 < D /\ (D - 1) + 1 = D /\ (D - 2) + 1 = D - 1
  BY DepthFacts
<1>2. m \in Nat /\ m >= 1 /\ Pow2[D - 1] = 2 * m /\ Pow2[D] = 4 * m
  <2>1. Pow2[(D - 1) + 1] = 2 * Pow2[D - 1] /\ Pow2[(D - 2) + 1] = 2 * Pow2[D - 2]
    BY <1>1, SizesHalve
  <2>2. m \in Nat /\ m >= 1
    BY <1>1, LevelBounds
  <2>3. Pow2[D - 1] = 2 * m /\ Pow2[D] = 2 * Pow2[D - 1]
    BY <1>1, <2>1
  <2> HIDE DEF D, m
  <2> QED BY <2>2, <2>3
<1>3. max_global_id = 8 * m - 2 /\ max_global_id_at_depth(D - 1) = 4 * m - 2
  <2>1. /\ max_global_id_at_depth(D) = 2 * Pow2[D] - 2
        /\ max_global_id_at_depth(D - 1) = 2 * Pow2[D - 1] - 2
    BY <1>1, LevelBounds
  <2>2. max_global_id = max_global_id_at_depth(D)
    BY DEF max_global_id
  <2> HIDE DEF D, m
  <2> QED BY <1>2, <2>1, <2>2
<1>4. max_buddy_pair_unique_id = 4 * m - 1
  BY <1>2, <1>3 DEF max_buddy_pair_unique_id, buddy_pair_unique_id
<1>5. 4 * m - 1 \in Nat /\ (4 * m - 1) % 8 # 0 /\ 4 * m - 2 \in Nat /\ (4 * m - 2) % 8 # 0
  BY <1>2
<1>6. Walk => BitsFitTheArrays
  <2> SUFFICES ASSUME Walk PROVE BitsFitTheArrays
    OBVIOUS
  <2>1. walked \in Ids /\ halvings \in Depths /\ walked \in Level(halvings)
    BY LevelBounds DEF Walk
  <2>2. buddy_pair_unique_id(walked) \div 8 < size_merge_index
    <3>1. walked \in Nat /\ walked <= 8 * m - 2
      BY <1>2, <1>3, <2>1 DEF Ids
    <3>2. buddy_pair_unique_id(walked) \in Nat /\ buddy_pair_unique_id(walked) <= 4 * m - 1
      BY <1>2, <3>1 DEF buddy_pair_unique_id
    <3> QED BY <1>4, <1>5, <3>2, ByteInRange DEF size_merge_index
  <2>3. ASSUME halvings < D PROVE walked \div 8 < size_block_is_split
    <3>1. walked \in Nat /\ walked <= 2 * Pow2[halvings] - 2 /\ Pow2[halvings] \in Nat
      BY <2>1, LevelBounds DEF Ids
    <3>2. Pow2[halvings] <= 2 * m
      <4>1. CASE halvings = D - 1
        BY <1>2, <4>1
      <4>2. CASE halvings # D - 1
        <5>1. halvings < D - 1 /\ halvings \in 0 .. NUM_LEVELS /\ D - 1 \in 0 .. NUM_LEVELS
          BY <1>1, <2>1, <2>3, <4>2, DepthFacts
        <5>2. 2 * Pow2[halvings] <= Pow2[D - 1]
          BY <5>1, Pow2Grows
        <5> QED BY <1>2, <3>1, <5>2
      <4> QED BY <4>1, <4>2
    <3>3. walked <= 4 * m - 2
      BY <1>2, <3>1, <3>2
    <3> QED BY <1>3, <1>5, <3>1, <3>3, ByteInRange DEF size_block_is_split
  <2> QED BY <2>2, <2>3 DEF BitsFitTheArrays
<1> QED BY <1>6, WalkInvariant, PTL

\* A request gets the smallest blocks that hold it, and every block size the
\* requests it is for (4_1.c:72-83).
THEOREM RequestsCorrect == Walking => []RequestsFitTightly
<1>1. Walk => RequestsFitTightly
  <2> SUFFICES ASSUME Walk, NEW request \in 0 .. MAX_ALLOC + 1
               PROVE  depth_for_request(request) = halvings
                        <=> /\ request <= width
                            /\ halvings = max_allocator_depth \/ width \div 2 < request
    BY DEF RequestsFitTightly
  <2>1. request \in Nat /\ halvings \in Depths /\ width = block_size_at_depth(halvings)
    BY MemoryFacts DEF Walk
  <2>2. halvings # max_allocator_depth => width \div 2 = block_size_at_depth(halvings + 1)
    <3> SUFFICES ASSUME halvings # max_allocator_depth
                 PROVE  width \div 2 = block_size_at_depth(halvings + 1)
      OBVIOUS
    <3>1. halvings < max_allocator_depth
      BY <2>1, DepthFacts
    <3>2. halvings + 1 \in Depths /\ width = 2 * block_size_at_depth(halvings + 1)
      BY <2>1, <3>1, SizesHalve
    <3> QED BY <3>2, SizeFacts
  <2> QED BY <2>1, <2>2, DepthOfRequest
<1> QED BY <1>1, WalkInvariant, PTL

-------------------------------------------------------------------------------
(* BuddyAllocator *)

-------------------------------------------------------------------------------
(* The inductive invariant *)

Split(id) == block_is_split(id) = 1

\* A block that exists has one of four roles, and a block that does not has
\* none.
OneRole(id) ==
  /\ Exists(id) <=> Split(id) \/ InList(id) \/ IsHeld(id) \/ InHand(id)
  /\ Split(id) => ~ InList(id) /\ ~ IsHeld(id) /\ ~ InHand(id)
  /\ InList(id) => ~ IsHeld(id) /\ ~ InHand(id)
  /\ IsHeld(id) => ~ InHand(id)

\* Where the blocks of depth d begin.
Starts(d) == {global_id_to_ptr(id) : id \in Level(d)}

\* Every pointer in a list is the start of a block of that list's depth, and so
\* is every pointer of a client, at the depth of its size; a call of
\* allocator_malloc goes down to the depth its request needs.
Placed ==
  /\ levels \in [Depths -> Seq(Pointers)]
  /\ \A d \in Depths : levels[d] \in Seq(Starts(d))
  /\ \A p \in DOMAIN held : \E id \in Ids : global_id_to_ptr(id) = p /\ IsHeld(id)
  /\ pc = "malloc" => /\ requested_size \in Requests
                      /\ target_depth = depth_for_request(requested_size)
                      /\ depth <= target_depth

IInv ==
  /\ TypeOK
  /\ Placed
  /\ \A id \in Ids : OneRole(id)
  /\ ListedOnce
  /\ MergeBitsExact
  /\ BuddiesMerged

-------------------------------------------------------------------------------
(* Blocks and the bytes in them *)

LEMMA LevelDepth ==
  ASSUME NEW d \in Depths, NEW id \in Level(d)
  PROVE  /\ id \in Ids
         /\ id \in Nat
         /\ global_id_to_depth(id) = d
         /\ global_id_to_ptr(id) \in Pointers
         /\ global_id_to_ptr(id) + block_size_at_depth(d) <= MAX_ALLOC
         /\ ptr_to_global_id(global_id_to_ptr(id), d) = id
<1>1. id \in Ids /\ id \in Nat
  BY LevelBounds DEF Ids
<1>2. global_id_to_ptr(id) \in Nat /\ global_id_to_ptr(id) + block_size_at_depth(d) <= MAX_ALLOC
  BY PtrOfId
<1>3. block_size_at_depth(d) \in Nat /\ block_size_at_depth(d) >= 1 /\ MAX_ALLOC \in Nat
  BY SizeFacts, MemoryFacts
<1>4. global_id_to_ptr(id) \in Pointers
  BY <1>2, <1>3 DEF Pointers
<1>5. ptr_to_global_id(global_id_to_ptr(id), d) = id
  BY <1>2, <1>3, IdOfPtr
<1> QED
  BY <1>1, <1>2, <1>4, <1>5, DepthOfId

LEMMA IdFacts ==
  ASSUME NEW id \in Ids
  PROVE  /\ global_id_to_depth(id) \in Depths
         /\ id \in Level(global_id_to_depth(id))
         /\ id \in Nat
         /\ global_id_to_ptr(id) \in Pointers
         /\ ptr_to_global_id(global_id_to_ptr(id), global_id_to_depth(id)) = id
BY IdsHaveDepth, LevelDepth

\* A block is its depth and its start.
LEMMA StartsApart ==
  ASSUME NEW i \in Ids, NEW j \in Ids,
         global_id_to_depth(i) = global_id_to_depth(j), global_id_to_ptr(i) = global_id_to_ptr(j)
  PROVE  i = j
BY IdFacts

\* Blocks of two depths differ in size.
LEMMA SizesDiffer ==
  ASSUME NEW d \in Depths, NEW e \in Depths, block_size_at_depth(d) = block_size_at_depth(e)
  PROVE  d = e
<1>1. d \in Int /\ e \in Int
  BY DepthFacts
<1>2. \A a \in Depths : block_size_at_depth(a) \in Nat /\ block_size_at_depth(a) >= 1
  BY SizeFacts
<1>3. ~ (d < e)
  BY <1>2, SizesShrink
<1>4. ~ (e < d)
  BY <1>2, SizesShrink
<1> QED
  BY <1>1, <1>3, <1>4

\* The block around a byte at a depth, and the block around it one level up.
LEMMA Around ==
  ASSUME NEW d \in Depths, NEW x \in Pointers
  PROVE  /\ ptr_to_global_id(x, d) \in Level(d)
         /\ ptr_to_global_id(x, d) \in Ids
         /\ global_id_to_depth(ptr_to_global_id(x, d)) = d
         /\ global_id_to_ptr(ptr_to_global_id(x, d)) <= x
         /\ x < global_id_to_ptr(ptr_to_global_id(x, d)) + block_size_at_depth(d)
<1>1. x \in Nat /\ x < MAX_ALLOC
  BY MemoryFacts DEF Pointers
<1> QED
  BY <1>1, BlockAround, LevelDepth

LEMMA RegionIsAround ==
  ASSUME NEW d \in Depths, NEW id \in Level(d), NEW x
  PROVE  x \in Region(global_id_to_ptr(id), block_size_at_depth(d))
           <=> x \in Pointers /\ ptr_to_global_id(x, d) = id
<1> DEFINE p == global_id_to_ptr(id)
           s == block_size_at_depth(d)
<1>1. p \in Nat /\ s \in Nat /\ s >= 1 /\ p + s <= MAX_ALLOC /\ MAX_ALLOC \in Nat
  BY PtrOfId, SizeFacts, MemoryFacts
<1>2. x \in Region(p, s) <=> x \in Int /\ p <= x /\ x < p + s
  BY <1>1 DEF Region
<1>3. ASSUME x \in Region(p, s) PROVE x \in Pointers /\ ptr_to_global_id(x, d) = id
  BY <1>1, <1>2, <1>3, IdOfPtr DEF Pointers
<1>4. ASSUME x \in Pointers, ptr_to_global_id(x, d) = id PROVE x \in Region(p, s)
  <2>1. x \in Int
    BY <1>4, MemoryFacts DEF Pointers
  <2> QED
    BY <1>2, <1>4, <2>1, Around
<1> QED
  BY <1>3, <1>4

LEMMA AroundParent ==
  ASSUME NEW d \in Depths, d > 0, NEW x \in Pointers
  PROVE  parent_global_id(ptr_to_global_id(x, d)) = ptr_to_global_id(x, d - 1)
<1> DEFINE k == ptr_to_global_id(x, d)
           p == parent_global_id(k)
<1>1. k \in Level(d) /\ global_id_to_ptr(k) <= x /\ x < global_id_to_ptr(k) + block_size_at_depth(d)
  BY Around
<1>2. /\ d - 1 \in Depths /\ d - 1 < max_allocator_depth /\ (d - 1) + 1 = d
      /\ p \in Level(d - 1)
      /\ k = left_child_global_id(p) \/ k = right_child_global_id(p)
  BY <1>1, Parent
<1>3. block_size_at_depth(d - 1) = 2 * block_size_at_depth(d) /\ block_size_at_depth(d) \in Nat
  BY <1>2, SizesHalve, SizeFacts
<1>4. /\ global_id_to_ptr(left_child_global_id(p)) = global_id_to_ptr(p)
      /\ global_id_to_ptr(right_child_global_id(p)) = global_id_to_ptr(p) + block_size_at_depth(d)
  BY <1>2, Children
<1>5. global_id_to_ptr(p) \in Nat /\ x \in Int
  BY <1>2, PtrOfId, MemoryFacts DEF Pointers
<1> HIDE DEF k, p
<1>6. global_id_to_ptr(p) <= x /\ x < global_id_to_ptr(p) + block_size_at_depth(d - 1)
  BY <1>1, <1>2, <1>3, <1>4, <1>5
<1>7. ptr_to_global_id(x, d - 1) = p
  BY <1>2, <1>5, <1>6, IdOfPtr
<1> QED
  BY <1>7 DEF k, p

-------------------------------------------------------------------------------
(* The index of the split bits and of the pairs *)

LEMMA Inner ==
  /\ InnerIds \subseteq Ids
  /\ \A d \in Depths : \A id \in Level(d) : id \in InnerIds <=> d < max_allocator_depth
<1>1. max_allocator_depth = NUM_LEVELS - 1 /\ NUM_LEVELS \in Nat /\ NUM_LEVELS >= 1
  BY DepthFacts
<1>2. CASE NUM_LEVELS = 1
  <2>1. max_global_id_at_depth(max_allocator_depth - 1) = -1
    BY <1>1, <1>2, Pow2Assumption DEF max_global_id_at_depth
  <2>2. InnerIds = {}
    BY <2>1 DEF InnerIds
  <2>3. \A d \in Depths : ~ (d < max_allocator_depth)
    BY <1>1, <1>2, DepthFacts
  <2> QED
    BY <2>2, <2>3
<1>3. CASE NUM_LEVELS > 1
  <2> DEFINE e == max_allocator_depth - 1
  <2>1. e \in Depths /\ e + 1 = max_allocator_depth /\ e \in Nat
    BY <1>1, <1>3, DepthFacts
  <2>2. InnerIds = 0 .. 2 * Pow2[e] - 2 /\ Pow2[e] \in Nat /\ Pow2[e] >= 1
    BY <2>1, LevelBounds DEF InnerIds
  <2>3. InnerIds \subseteq Ids
    <3>1. max_allocator_depth \in Depths
      BY DepthFacts
    <3>2. max_global_id = 2 * Pow2[max_allocator_depth] - 2 /\ Pow2[max_allocator_depth] \in Nat
      BY <3>1, LevelBounds DEF max_global_id
    <3>3. Pow2[max_allocator_depth] = 2 * Pow2[e]
      BY <2>1, <3>1, SizesHalve
    <3> QED
      BY <2>2, <3>2, <3>3 DEF Ids
  <2>4. ASSUME NEW d \in Depths, NEW id \in Level(d)
        PROVE  id \in InnerIds <=> d < max_allocator_depth
    <3>1. /\ Pow2[d] \in Nat /\ Pow2[d] >= 1 /\ d \in Nat /\ d <= max_allocator_depth
          /\ id \in Pow2[d] - 1 .. 2 * Pow2[d] - 2
      BY LevelBounds, DepthFacts
    <3>2. CASE d = max_allocator_depth
      <4>1. Pow2[d] = 2 * Pow2[e]
        BY <2>1, <3>2, SizesHalve
      <4> QED
        BY <2>2, <3>1, <3>2, <4>1
    <3>3. CASE d = e
      BY <2>1, <2>2, <3>1, <3>3
    <3>4. CASE d < e
      <4>1. 2 * Pow2[d] <= Pow2[e]
        BY <2>1, <3>4, DepthFacts, Pow2Grows
      <4> QED
        BY <2>1, <2>2, <3>1, <3>4, <4>1
    <3> QED
      BY <2>1, <3>1, <3>2, <3>3, <3>4
  <2> QED
    BY <2>3, <2>4
<1> QED
  BY <1>1, <1>2, <1>3

\* A block other than the root has a buddy and a parent.
LEMMA Relatives ==
  ASSUME NEW id \in Ids \ {0}
  PROVE  /\ buddy_global_id(id) \in Ids \ {0}
         /\ buddy_global_id(id) # id
         /\ buddy_global_id(buddy_global_id(id)) = id
         /\ parent_global_id(buddy_global_id(id)) = parent_global_id(id)
         /\ global_id_to_depth(id) > 0
         /\ global_id_to_depth(buddy_global_id(id)) = global_id_to_depth(id)
         /\ parent_global_id(id) \in InnerIds
         /\ global_id_to_depth(parent_global_id(id)) = global_id_to_depth(id) - 1
<1> DEFINE d == global_id_to_depth(id)
<1>1. d \in Depths /\ id \in Level(d)
  BY IdFacts
<1>2. d > 0
  <2>1. d # 0
    BY <1>1, Root
  <2> QED
    BY <1>1, <2>1, DepthFacts
<1> HIDE DEF d
<1>3. /\ buddy_global_id(id) \in Level(d)
      /\ buddy_global_id(id) # id
      /\ buddy_global_id(buddy_global_id(id)) = id
      /\ parent_global_id(buddy_global_id(id)) = parent_global_id(id)
  BY <1>1, <1>2, Buddy
<1>4. buddy_global_id(id) # 0
  BY <1>1, <1>2, <1>3, Root
<1>5. buddy_global_id(id) \in Ids /\ global_id_to_depth(buddy_global_id(id)) = d
  BY <1>1, <1>3, LevelDepth
<1>6. d - 1 \in Depths /\ d - 1 < max_allocator_depth /\ parent_global_id(id) \in Level(d - 1)
  BY <1>1, <1>2, Parent
<1>7. parent_global_id(id) \in InnerIds /\ global_id_to_depth(parent_global_id(id)) = d - 1
  BY <1>6, Inner, LevelDepth
<1> QED
  BY <1>2, <1>3, <1>4, <1>5, <1>7 DEF d

\* The children of a block are the blocks whose parent it is.
LEMMA ParentOf ==
  ASSUME NEW id \in Ids \ {0}
  PROVE  \/ id = left_child_global_id(parent_global_id(id))
         \/ id = right_child_global_id(parent_global_id(id))
<1>1. global_id_to_depth(id) > 0 /\ global_id_to_depth(id) \in Depths /\ id \in Level(global_id_to_depth(id))
  BY Relatives, IdFacts
<1> QED
  BY <1>1, Parent

LEMMA PairInRange ==
  ASSUME NEW id \in Ids
  PROVE  buddy_pair_unique_id(id) \in Pairs
<1>1. id \in Nat /\ max_global_id \in Int /\ id <= max_global_id
  <2>1. max_allocator_depth \in Depths
    BY DepthFacts
  <2>2. max_global_id = 2 * Pow2[max_allocator_depth] - 2 /\ Pow2[max_allocator_depth] \in Nat
    BY <2>1, LevelBounds DEF max_global_id
  <2> QED
    BY <2>2 DEF Ids
<1>2. (id + 1) \div 2 \in Nat /\ (id + 1) \div 2 <= (max_global_id + 1) \div 2
  BY <1>1
<1> QED
  BY <1>2 DEF Pairs, buddy_pair_unique_id, max_buddy_pair_unique_id

-------------------------------------------------------------------------------
(* The tree that the split bits describe *)

\* A block that exists and is not split: the memory is cut into these.
Leaf(id) == id \in Ids /\ Exists(id) /\ ~ Split(id)

\* Only blocks that exist are split.
Closed == \A id \in Ids : Split(id) => Exists(id)

\* Above a block that exists everything exists and is split.
LEMMA ExistsUpward ==
  ASSUME Closed, NEW x \in Pointers, NEW e \in Depths, Exists(ptr_to_global_id(x, e))
  PROVE  \A d \in Depths : d <= e => /\ Exists(ptr_to_global_id(x, d))
                                     /\ d < e => Split(ptr_to_global_id(x, d))
<1> DEFINE Good(d) == /\ Exists(ptr_to_global_id(x, d))
                      /\ d < e => Split(ptr_to_global_id(x, d))
           Bad == {n \in 0 .. e : ~ Good(e - n)}
<1>0. e \in Nat /\ \A d \in 0 .. e : d \in Depths
  BY DepthFacts
<1>1. Bad = {}
  <2> SUFFICES ASSUME Bad # {} PROVE FALSE
    OBVIOUS
  <2>1. Bad \subseteq Nat
    BY <1>0
  <2>2. PICK n \in Bad : \A m \in Bad : n <= m
    BY <2>1, LeastElement
  <2>3. n \in Nat /\ n <= e /\ ~ Good(e - n)
    BY <1>0, <2>2
  <2>4. n # 0
    <3>1. e - 0 = e /\ ~ (e < e)
      BY <1>0
    <3>2. Good(e)
      BY <3>1
    <3> QED
      BY <2>3, <3>1, <3>2
  <2> DEFINE d == e - n
  <2>5. d \in 0 .. e /\ d + 1 \in 0 .. e /\ d + 1 = e - (n - 1) /\ n - 1 \in 0 .. e /\ ~ (n <= n - 1)
        /\ d + 1 > 0 /\ (d + 1) - 1 = d
    BY <1>0, <2>3, <2>4
  <2>6. Good(d + 1)
    <3>1. n - 1 \notin Bad
      BY <2>2, <2>5
    <3> QED
      BY <2>5, <3>1
  <2> HIDE DEF d
  <2>7. parent_global_id(ptr_to_global_id(x, d + 1)) = ptr_to_global_id(x, d)
    BY <1>0, <2>5, AroundParent
  <2>8. ptr_to_global_id(x, d + 1) # 0
    <3>1. ptr_to_global_id(x, d + 1) \in Level(d + 1) /\ d + 1 \in Depths
      BY <1>0, <2>5, Around
    <3> QED
      BY <2>5, <3>1, Root
  <2>9. Split(ptr_to_global_id(x, d))
    BY <2>6, <2>7, <2>8 DEF Exists, Split
  <2>10. Exists(ptr_to_global_id(x, d))
    BY <1>0, <2>5, <2>9, Around DEF Closed
  <2> QED
    BY <2>3, <2>9, <2>10 DEF d
<1>2. ASSUME NEW d \in Depths, d <= e PROVE Good(d)
  <2>1. d \in Nat
    BY DepthFacts
  <2>2. e - d \in 0 .. e /\ e - (e - d) = d
    BY <1>0, <1>2, <2>1
  <2>3. Good(e - (e - d))
    BY <1>1, <2>2
  <2> QED
    BY <2>2, <2>3
<1> QED
  BY <1>2

\* No byte is in two leaves.
LEMMA LeavesApart ==
  ASSUME Closed, NEW x \in Pointers, NEW d \in Depths, NEW e \in Depths,
         Leaf(ptr_to_global_id(x, d)), Leaf(ptr_to_global_id(x, e))
  PROVE  d = e
<1>1. d \in Int /\ e \in Int
  BY DepthFacts
<1>2. ~ (d < e)
  BY <1>1, ExistsUpward DEF Leaf
<1>3. ~ (e < d)
  BY <1>1, ExistsUpward DEF Leaf
<1> QED
  BY <1>1, <1>2, <1>3

\* Two leaves that begin at one byte are one.
LEMMA LeafStarts ==
  ASSUME Closed, NEW i, NEW j, Leaf(i), Leaf(j), global_id_to_ptr(i) = global_id_to_ptr(j)
  PROVE  i = j
<1>1. i \in Ids /\ j \in Ids
  BY DEF Leaf
<1>2. global_id_to_depth(i) = global_id_to_depth(j)
  BY <1>1, IdFacts, LeavesApart
<1> QED
  BY <1>1, <1>2, StartsApart

\* Every byte is in a leaf.
LEMMA LeafAround ==
  ASSUME NEW x \in Pointers
  PROVE  \E d \in Depths : Leaf(ptr_to_global_id(x, d))
<1> DEFINE Whole == {d \in Depths : ~ Split(ptr_to_global_id(x, d))}
<1>1. max_allocator_depth \in Whole
  <2>1. max_allocator_depth \in Depths
    BY DepthFacts
  <2>2. ptr_to_global_id(x, max_allocator_depth) \notin InnerIds
    <3>1. ptr_to_global_id(x, max_allocator_depth) \in Level(max_allocator_depth)
      BY <2>1, Around
    <3>2. ~ (max_allocator_depth < max_allocator_depth)
      BY DepthFacts
    <3> QED
      BY <2>1, <3>1, <3>2, Inner
  <2> QED
    BY <2>1, <2>2 DEF Split, block_is_split
<1>2. Whole \subseteq Nat
  BY DepthFacts
<1>3. PICK d \in Whole : \A e \in Whole : d <= e
  BY <1>1, <1>2, LeastElement
<1>4. d \in Depths /\ d \in Nat /\ ~ Split(ptr_to_global_id(x, d))
  BY <1>2, <1>3
<1>5. Exists(ptr_to_global_id(x, d))
  <2>1. CASE d = 0
    <3>1. ptr_to_global_id(x, 0) = 0
      BY <1>4, <2>1, Around, Root
    <3> QED
      BY <2>1, <3>1 DEF Exists
  <2>2. CASE d # 0
    <3>1. d > 0 /\ d - 1 \in Depths /\ ~ (d <= d - 1)
      BY <1>4, <2>2, DepthFacts
    <3>2. Split(ptr_to_global_id(x, d - 1))
      BY <1>3, <3>1
    <3>3. parent_global_id(ptr_to_global_id(x, d)) = ptr_to_global_id(x, d - 1)
      BY <1>4, <3>1, AroundParent
    <3> QED
      BY <3>2, <3>3 DEF Exists, Split
  <2> QED
    BY <2>1, <2>2
<1> QED
  BY <1>4, <1>5, Around DEF Leaf

-------------------------------------------------------------------------------
(* Roles *)

\* A set of four names has one element when it has one and no second.
LEMMA OneOfFour ==
  ASSUME NEW R, R \subseteq {"split", "free", "held", "in hand"}
  PROVE  (\E r \in R : R = {r})
           <=> /\ "split" \in R \/ "free" \in R \/ "held" \in R \/ "in hand" \in R
               /\ "split" \in R => ~ ("free" \in R) /\ ~ ("held" \in R) /\ ~ ("in hand" \in R)
               /\ "free" \in R => ~ ("held" \in R) /\ ~ ("in hand" \in R)
               /\ "held" \in R => ~ ("in hand" \in R)
<1>1. ASSUME NEW r \in R, R = {r}
      PROVE  \A a \in R, b \in R : a = b
  BY <1>1
<1>2. ASSUME NEW r \in R, \A a \in R, b \in R : a = b
      PROVE  R = {r}
  BY <1>2
<1>3. (\E r \in R : R = {r}) <=> (\E r \in R : TRUE) /\ (\A a \in R, b \in R : a = b)
  BY <1>1, <1>2
<1>4. (\E r \in R : TRUE) <=> "split" \in R \/ "free" \in R \/ "held" \in R \/ "in hand" \in R
  OBVIOUS
<1>5. (\A a \in R, b \in R : a = b)
        <=> /\ "split" \in R => ~ ("free" \in R) /\ ~ ("held" \in R) /\ ~ ("in hand" \in R)
            /\ "free" \in R => ~ ("held" \in R) /\ ~ ("in hand" \in R)
            /\ "held" \in R => ~ ("in hand" \in R)
  OBVIOUS
<1> QED
  BY <1>3, <1>4, <1>5

LEMMA RolesPlain ==
  RolesExact <=> \A id \in Ids : OneRole(id)
<1>1. ASSUME NEW id \in Ids
      PROVE  (IF Exists(id) THEN \E r \in Roles(id) : Roles(id) = {r} ELSE Roles(id) = {})
               <=> OneRole(id)
  <2>1. /\ "split" \in Roles(id) <=> Split(id)
        /\ "free" \in Roles(id) <=> InList(id)
        /\ "held" \in Roles(id) <=> IsHeld(id)
        /\ "in hand" \in Roles(id) <=> InHand(id)
        /\ Roles(id) \subseteq {"split", "free", "held", "in hand"}
    BY DEF Roles, Split
  <2>2. Roles(id) = {} <=> /\ ~ ("split" \in Roles(id)) /\ ~ ("free" \in Roles(id))
                           /\ ~ ("held" \in Roles(id)) /\ ~ ("in hand" \in Roles(id))
    BY <2>1
  <2>3. CASE Exists(id)
    BY <2>1, <2>3, OneOfFour DEF OneRole
  <2>4. CASE ~ Exists(id)
    BY <2>1, <2>2, <2>4 DEF OneRole
  <2> QED
    BY <2>3, <2>4
<1> QED
  BY <1>1 DEF RolesExact

\* What the invariant says of single blocks.
LEMMA RoleFacts ==
  ASSUME \A id \in Ids : OneRole(id)
  PROVE  /\ Closed
         /\ \A id \in Ids : InList(id) => Leaf(id)
         /\ \A id \in Ids : IsHeld(id) => Leaf(id)
         /\ \A id \in Ids : InHand(id) => Leaf(id)
         /\ \A id : Leaf(id) => InList(id) \/ IsHeld(id) \/ InHand(id)
BY DEF OneRole, Closed, Leaf

-------------------------------------------------------------------------------
(* Lists without repetition *)

LEMMA RangeIs ==
  ASSUME NEW S, NEW list \in Seq(S)
  PROVE  /\ Range(list) = {list[i] : i \in 1 .. Len(list)}
         /\ Range(list) \subseteq S
         /\ Len(list) \in Nat
         /\ DOMAIN list = 1 .. Len(list)
BY LenProperties, ElementOfSeq DEF Range

LEMMA RangeOfNone ==
  ASSUME NEW S, NEW list \in Seq(S), Range(list) = {}
  PROVE  list = <<>>
<1>1. Len(list) \in Nat /\ \A i \in 1 .. Len(list) : list[i] \in Range(list)
  BY RangeIs, SMTT(60)
<1>2. Len(list) = 0
  <2> SUFFICES ASSUME Len(list) # 0 PROVE FALSE
    OBVIOUS
  <2>1. 1 \in 1 .. Len(list)
    BY <1>1
  <2> QED
    BY <1>1, <2>1
<1> QED
  BY <1>2, EmptySeq

LEMMA RangeOfOne ==
  ASSUME NEW S, NEW list \in Seq(S), IsInjective(list), NEW e, Range(list) = {e}
  PROVE  list = <<e>>
<1>1. /\ Len(list) \in Nat
      /\ \A i \in 1 .. Len(list) : list[i] = e
      /\ \E i \in 1 .. Len(list) : list[i] = e
      /\ DOMAIN list = 1 .. Len(list)
  <2>1. /\ Len(list) \in Nat /\ DOMAIN list = 1 .. Len(list)
        /\ Range(list) = {list[i] : i \in 1 .. Len(list)}
    BY RangeIs
  <2>2. \A i \in 1 .. Len(list) : list[i] \in Range(list)
    BY <2>1
  <2>3. \E i \in 1 .. Len(list) : list[i] = e
    BY <2>1
  <2> QED
    BY <2>1, <2>2, <2>3
<1>2. \A i, j \in 1 .. Len(list) : i = j
  BY <1>1 DEF IsInjective
<1>3. Len(list) >= 1
  BY <1>1
<1>4. 1 \in 1 .. Len(list) /\ Len(list) \in 1 .. Len(list)
  BY <1>1, <1>3
<1>5. Len(list) = 1 /\ list[1] = e
  BY <1>1, <1>2, <1>4
<1>6. list = <<list[1]>>
  BY <1>5
<1> QED
  BY <1>5, <1>6

LEMMA Pushing ==
  ASSUME NEW S, NEW list \in Seq(S), NEW e \in S, IsInjective(list), e \notin Range(list)
  PROVE  /\ Append(list, e) \in Seq(S)
         /\ Range(Append(list, e)) = Range(list) \cup {e}
         /\ IsInjective(Append(list, e))
<1>1. /\ Append(list, e) \in Seq(S)
      /\ Len(Append(list, e)) = Len(list) + 1
      /\ Append(list, e)[Len(list) + 1] = e
      /\ \A i \in 1 .. Len(list) : Append(list, e)[i] = list[i]
  BY AppendProperties
<1>2. Len(list) \in Nat /\ Range(list) = {list[i] : i \in 1 .. Len(list)}
      /\ DOMAIN list = 1 .. Len(list)
  BY RangeIs
<1> DEFINE new == Append(list, e)
<1>3. Range(new) = {new[i] : i \in 1 .. Len(list) + 1} /\ DOMAIN new = 1 .. Len(list) + 1
  BY <1>1, RangeIs
<1> HIDE DEF new
<1>4. Range(new) = Range(list) \cup {e}
  BY <1>1, <1>2, <1>3 DEF new
<1>5. IsInjective(new)
  <2> SUFFICES ASSUME NEW a \in 1 .. Len(list) + 1, NEW b \in 1 .. Len(list) + 1, new[a] = new[b]
               PROVE  a = b
    BY <1>3 DEF IsInjective
  <2>1. \A i \in 1 .. Len(list) : list[i] # e
    BY <1>2
  <2>2. (a \in 1 .. Len(list) \/ a = Len(list) + 1) /\ (b \in 1 .. Len(list) \/ b = Len(list) + 1)
    BY <1>2
  <2> QED
    BY <1>1, <1>2, <2>1, <2>2 DEF new, IsInjective
<1> QED
  BY <1>1, <1>4, <1>5 DEF new

\* A list without its k-th element.
LEMMA TakingOut ==
  ASSUME NEW S, NEW list \in Seq(S), IsInjective(list), NEW k \in 1 .. Len(list),
         NEW new \in Seq(S), Len(new) = Len(list) - 1,
         \A i \in 1 .. Len(list) - 1 : new[i] = IF i < k THEN list[i] ELSE list[i + 1]
  PROVE  /\ Range(new) = Range(list) \ {list[k]}
         /\ IsInjective(new)
<1> DEFINE n == Len(list)
<1>1. n \in Nat /\ n >= 1 /\ Range(list) = {list[i] : i \in 1 .. n} /\ DOMAIN list = 1 .. n
      /\ k \in Nat
  BY RangeIs
<1>2. Range(new) = {new[i] : i \in 1 .. n - 1} /\ DOMAIN new = 1 .. n - 1
  BY RangeIs
<1> HIDE DEF n
<1> DEFINE from(i) == IF i < k THEN i ELSE i + 1
<1>3. \A i \in 1 .. n - 1 : from(i) \in 1 .. n /\ from(i) # k /\ new[i] = list[from(i)]
  BY <1>1 DEF n
<1>4. \A i, j \in 1 .. n - 1 : from(i) = from(j) => i = j
  BY <1>1
<1>5. \A j \in 1 .. n : j # k => \E i \in 1 .. n - 1 : from(i) = j
  <2> SUFFICES ASSUME NEW j \in 1 .. n, j # k PROVE \E i \in 1 .. n - 1 : from(i) = j
    OBVIOUS
  <2>1. CASE j < k
    BY <1>1, <2>1 DEF n
  <2>2. CASE j > k
    <3>1. j - 1 \in 1 .. n - 1 /\ from(j - 1) = j
      BY <1>1, <2>2
    <3> QED
      BY <3>1
  <2> QED
    BY <1>1, <2>1, <2>2
<1>6. \A i, j \in 1 .. n : list[i] = list[j] => i = j
  BY <1>1 DEF IsInjective
<1> HIDE DEF from
<1>7. Range(new) \subseteq Range(list) \ {list[k]}
  <2> SUFFICES ASSUME NEW i \in 1 .. n - 1 PROVE new[i] \in Range(list) \ {list[k]}
    BY <1>2
  <2>1. k \in 1 .. n
    BY DEF n
  <2> QED
    BY <1>1, <1>3, <1>6, <2>1
<1>8. Range(list) \ {list[k]} \subseteq Range(new)
  <2> SUFFICES ASSUME NEW j \in 1 .. n, list[j] # list[k] PROVE list[j] \in Range(new)
    BY <1>1
  <2>1. PICK i \in 1 .. n - 1 : from(i) = j
    BY <1>5
  <2> QED
    BY <1>2, <1>3, <2>1
<1>9. IsInjective(new)
  <2> SUFFICES ASSUME NEW i \in 1 .. n - 1, NEW j \in 1 .. n - 1, new[i] = new[j]
               PROVE  i = j
    BY <1>2 DEF IsInjective
  <2> QED
    BY <1>3, <1>4, <1>6
<1> QED
  BY <1>7, <1>8, <1>9

LEMMA Popping ==
  ASSUME NEW S, NEW list \in Seq(S), IsInjective(list), list # <<>>
  PROVE  /\ Front(list) \in Seq(S)
         /\ Last(list) \in Range(list)
         /\ Range(Front(list)) = Range(list) \ {Last(list)}
         /\ IsInjective(Front(list))
<1> DEFINE n == Len(list)
<1>1. n \in Nat /\ n >= 1 /\ Range(list) = {list[i] : i \in 1 .. n}
  <2>1. n \in Nat \ {0}
    BY EmptySeq
  <2> QED
    BY <2>1, RangeIs
<1>2. \A i \in 1 .. n - 1 : list[i] \in S
  BY <1>1, ElementOfSeq
<1>3. /\ Front(list) \in Seq(S)
      /\ Len(Front(list)) = IF 1 <= n - 1 THEN (n - 1) - 1 + 1 ELSE 0
      /\ \A i \in 1 .. (n - 1) - 1 + 1 : Front(list)[i] = list[1 + i - 1]
  BY <1>1, <1>2, SubSeqProperties DEF Front
<1>4. Len(Front(list)) = n - 1 /\ \A i \in 1 .. n - 1 : Front(list)[i] = list[i]
  <2> HIDE DEF n
  <2>1. Len(Front(list)) = n - 1
    <3>1. CASE n = 1
      BY <1>3, <3>1
    <3>2. CASE n # 1
      <4>1. 1 <= n - 1 /\ (n - 1) - 1 + 1 = n - 1
        BY <1>1, <3>2
      <4> QED
        BY <1>3, <4>1
    <3> QED
      BY <3>1, <3>2
  <2>2. (n - 1) - 1 + 1 = n - 1 /\ \A i \in 1 .. n - 1 : 1 + i - 1 = i
    BY <1>1
  <2> QED
    BY <1>3, <2>1, <2>2
<1>5. Last(list) = list[n] /\ n \in 1 .. n
  BY <1>1 DEF Last
<1>6. \A i \in 1 .. n - 1 : Front(list)[i] = IF i < n THEN list[i] ELSE list[i + 1]
  BY <1>1, <1>4
<1>7. Range(Front(list)) = Range(list) \ {list[n]} /\ IsInjective(Front(list))
  BY <1>3, <1>4, <1>5, <1>6, TakingOut
<1> QED
  BY <1>1, <1>3, <1>5, <1>7

LEMMA Unlinking ==
  ASSUME NEW S, NEW list \in Seq(S), IsInjective(list), NEW e \in Range(list)
  PROVE  /\ RemoveAt(list, Position(list, e)) \in Seq(S)
         /\ Range(RemoveAt(list, Position(list, e))) = Range(list) \ {e}
         /\ IsInjective(RemoveAt(list, Position(list, e)))
<1> DEFINE n == Len(list)
           k == Position(list, e)
           new == RemoveAt(list, k)
<1>1. n \in Nat /\ Range(list) = {list[i] : i \in 1 .. n} /\ DOMAIN list = 1 .. n
  BY RangeIs
<1>2. k \in 1 .. n /\ list[k] = e
  <2>1. \E i \in DOMAIN list : list[i] = e
    BY <1>1
  <2>2. k \in DOMAIN list /\ list[k] = e
    BY <2>1 DEF Position
  <2> QED
    BY <1>1, <2>2
<1> HIDE DEF k
<1> DEFINE a == SubSeq(list, 1, k - 1)
           b == SubSeq(list, k + 1, n)
<1>3. \A i \in 1 .. n : list[i] \in S
  BY ElementOfSeq
<1>4. a \in Seq(S) /\ Len(a) = k - 1 /\ \A i \in 1 .. k - 1 : a[i] = list[i]
  <2>1. \A i \in 1 .. k - 1 : list[i] \in S
    BY <1>1, <1>2, <1>3
  <2>2. /\ a \in Seq(S)
        /\ Len(a) = IF 1 <= k - 1 THEN (k - 1) - 1 + 1 ELSE 0
        /\ \A i \in 1 .. (k - 1) - 1 + 1 : a[i] = list[1 + i - 1]
    BY <1>1, <1>2, <2>1, SubSeqProperties
  <2> HIDE DEF a
  <2> QED
    BY <1>1, <1>2, <2>2
<1>5. b \in Seq(S) /\ Len(b) = n - k /\ \A i \in 1 .. n - k : b[i] = list[k + i]
  <2>1. \A i \in k + 1 .. n : list[i] \in S
    BY <1>1, <1>2, <1>3
  <2>2. /\ b \in Seq(S)
        /\ Len(b) = IF k + 1 <= n THEN n - (k + 1) + 1 ELSE 0
        /\ \A i \in 1 .. n - (k + 1) + 1 : b[i] = list[(k + 1) + i - 1]
    BY <1>1, <1>2, <2>1, SubSeqProperties
  <2>3. n - (k + 1) + 1 = n - k /\ \A i \in 1 .. n - k : (k + 1) + i - 1 = k + i
    BY <1>1, <1>2
  <2> HIDE DEF b, n
  <2>4. Len(b) = n - k
    <3>1. CASE k = n
      BY <1>1, <1>2, <2>2, <3>1
    <3>2. CASE k # n
      <4>1. k + 1 <= n
        BY <1>1, <1>2, <3>2
      <4> QED
        BY <2>2, <2>3, <4>1
    <3> QED
      BY <3>1, <3>2
  <2> QED
    BY <2>2, <2>3, <2>4
<1>6. new = a \o b
  BY DEF RemoveAt
<1> HIDE DEF a, b, new
<1>7. /\ new \in Seq(S) /\ Len(new) = n - 1
      /\ \A i \in 1 .. n - 1 : new[i] = IF i <= k - 1 THEN a[i] ELSE b[i - (k - 1)]
  <2>1. /\ new \in Seq(S) /\ Len(new) = Len(a) + Len(b)
        /\ \A i \in 1 .. Len(a) + Len(b) : new[i] = IF i <= Len(a) THEN a[i] ELSE b[i - Len(a)]
    BY <1>4, <1>5, <1>6, ConcatProperties
  <2>2. Len(a) + Len(b) = n - 1
    BY <1>1, <1>2, <1>4, <1>5
  <2> QED
    BY <1>4, <2>1, <2>2
<1>8. ASSUME NEW i \in 1 .. n - 1
      PROVE  new[i] = IF i < k THEN list[i] ELSE list[i + 1]
  <2>1. CASE i < k
    BY <1>1, <1>2, <1>4, <1>7, <2>1
  <2>2. CASE ~ (i < k)
    <3>1. i - (k - 1) \in 1 .. n - k /\ k + (i - (k - 1)) = i + 1 /\ ~ (i <= k - 1)
      BY <1>1, <1>2, <2>2
    <3> QED
      BY <1>5, <1>7, <2>2, <3>1
  <2> QED
    BY <2>1, <2>2
<1>9. Range(new) = Range(list) \ {list[k]} /\ IsInjective(new)
  BY <1>2, <1>7, <1>8, TakingOut
<1> QED
  BY <1>2, <1>7, <1>9 DEF new, k

-------------------------------------------------------------------------------
(* The free lists *)

Lists ==
  /\ levels \in [Depths -> Seq(Pointers)]
  /\ \A d \in Depths : levels[d] \in Seq(Starts(d))
  /\ ListedOnce

LEMMA StartsArePointers ==
  ASSUME NEW d \in Depths, NEW s \in Seq(Starts(d))
  PROVE  s \in Seq(Pointers)
<1>1. Starts(d) \subseteq Pointers
  BY LevelDepth DEF Starts
<1> QED
  BY <1>1, SeqMonotonic

\* What changes when the list of one depth does.
LEMMA OneListChanges ==
  ASSUME Lists, NEW d \in Depths, NEW list \in Seq(Starts(d)), IsInjective(list),
         levels' = [levels EXCEPT ![d] = list]
  PROVE  /\ Lists'
         /\ \A j \in Ids : global_id_to_depth(j) # d => (InList(j)' <=> InList(j))
         /\ \A j \in Level(d) : InList(j)' <=> global_id_to_ptr(j) \in Range(list)
<1>1. levels'[d] = list /\ \A e \in Depths \ {d} : levels'[e] = levels[e]
  BY DEF Lists
<1>2. list \in Seq(Pointers)
  BY StartsArePointers
<1>3. Lists'
  <2>1. levels' \in [Depths -> Seq(Pointers)]
    BY <1>2 DEF Lists
  <2>2. \A e \in Depths : levels'[e] \in Seq(Starts(e))
    BY <1>1 DEF Lists
  <2>3. \A e \in Depths : IsInjective(levels'[e])
    BY <1>1 DEF Lists, ListedOnce
  <2> QED
    BY <2>1, <2>2, <2>3 DEF Lists, ListedOnce
<1>4. ASSUME NEW j \in Ids, global_id_to_depth(j) # d PROVE InList(j)' <=> InList(j)
  BY <1>1, <1>4, IdFacts DEF InList
<1>5. ASSUME NEW j \in Level(d) PROVE InList(j)' <=> global_id_to_ptr(j) \in Range(list)
  BY <1>1, LevelDepth DEF InList
<1> QED
  BY <1>3, <1>4, <1>5

\* list_push puts a block that was in no list into the list of its depth.
LEMMA ListPush ==
  ASSUME Lists, NEW d \in Depths, NEW id \in Level(d), ~ InList(id),
         levels' = Pushed(d, global_id_to_ptr(id))
  PROVE  Lists' /\ \A j \in Ids : InList(j)' <=> InList(j) \/ j = id
<1> DEFINE p == global_id_to_ptr(id)
<1>1. levels[d] \in Seq(Starts(d)) /\ IsInjective(levels[d]) /\ p \in Starts(d)
      /\ levels' = [levels EXCEPT ![d] = Append(levels[d], p)]
  BY DEF Lists, ListedOnce, Pushed, Starts
<1>2. p \notin Range(levels[d])
  BY LevelDepth DEF InList
<1>3. /\ Append(levels[d], p) \in Seq(Starts(d))
      /\ Range(Append(levels[d], p)) = Range(levels[d]) \cup {p}
      /\ IsInjective(Append(levels[d], p))
  BY <1>1, <1>2, Pushing
<1>4. /\ Lists'
      /\ \A j \in Ids : global_id_to_depth(j) # d => (InList(j)' <=> InList(j))
      /\ \A j \in Level(d) : InList(j)' <=> global_id_to_ptr(j) \in Range(Append(levels[d], p))
  BY <1>1, <1>3, OneListChanges
<1>5. ASSUME NEW j \in Ids PROVE InList(j)' <=> InList(j) \/ j = id
  <2>1. CASE global_id_to_depth(j) # d
    BY <1>4, <2>1, LevelDepth
  <2>2. CASE global_id_to_depth(j) = d
    <3>1. j \in Level(d) /\ id \in Ids /\ global_id_to_depth(id) = d
      BY <2>2, IdFacts, LevelDepth
    <3>2. InList(j) <=> global_id_to_ptr(j) \in Range(levels[d])
      BY <2>2 DEF InList
    <3>3. global_id_to_ptr(j) = p <=> j = id
      BY <2>2, <3>1, StartsApart
    <3> QED
      BY <1>3, <1>4, <3>1, <3>2, <3>3
  <2> QED
    BY <2>1, <2>2
<1> QED
  BY <1>4, <1>5

\* A list of depth d without one of its blocks.
LEMMA ListLoses ==
  ASSUME Lists, NEW d \in Depths, NEW id \in Level(d),
         NEW list \in Seq(Starts(d)), IsInjective(list),
         Range(list) = Range(levels[d]) \ {global_id_to_ptr(id)},
         levels' = [levels EXCEPT ![d] = list]
  PROVE  Lists' /\ \A j \in Ids : InList(j)' <=> InList(j) /\ j # id
<1>1. /\ Lists'
      /\ \A j \in Ids : global_id_to_depth(j) # d => (InList(j)' <=> InList(j))
      /\ \A j \in Level(d) : InList(j)' <=> global_id_to_ptr(j) \in Range(list)
  BY OneListChanges
<1>2. ASSUME NEW j \in Ids PROVE InList(j)' <=> InList(j) /\ j # id
  <2>1. CASE global_id_to_depth(j) # d
    BY <1>1, <2>1, LevelDepth
  <2>2. CASE global_id_to_depth(j) = d
    <3>1. j \in Level(d) /\ id \in Ids /\ global_id_to_depth(id) = d
      BY <2>2, IdFacts, LevelDepth
    <3>2. InList(j) <=> global_id_to_ptr(j) \in Range(levels[d])
      BY <2>2 DEF InList
    <3>3. global_id_to_ptr(j) = global_id_to_ptr(id) <=> j = id
      BY <2>2, <3>1, StartsApart
    <3> QED
      BY <1>1, <3>1, <3>2, <3>3
  <2> QED
    BY <2>1, <2>2
<1> QED
  BY <1>1, <1>2

\* list_pop takes a block of the list's depth out of it.
LEMMA ListPop ==
  ASSUME Lists, NEW d \in Depths, levels[d] # <<>>, levels' = Popped(d)
  PROVE  \E id \in Level(d) : /\ global_id_to_ptr(id) = Last(levels[d])
                              /\ InList(id)
                              /\ Lists'
                              /\ \A j \in Ids : InList(j)' <=> InList(j) /\ j # id
<1>1. levels[d] \in Seq(Starts(d)) /\ IsInjective(levels[d])
      /\ levels' = [levels EXCEPT ![d] = Front(levels[d])]
  BY DEF Lists, ListedOnce, Popped
<1>2. /\ Front(levels[d]) \in Seq(Starts(d))
      /\ Last(levels[d]) \in Range(levels[d])
      /\ Range(Front(levels[d])) = Range(levels[d]) \ {Last(levels[d])}
      /\ IsInjective(Front(levels[d]))
  BY <1>1, Popping
<1>3. Range(levels[d]) \subseteq Starts(d)
  BY <1>1, RangeIs
<1>4. PICK id \in Level(d) : Last(levels[d]) = global_id_to_ptr(id)
  BY <1>2, <1>3 DEF Starts
<1>5. InList(id)
  BY <1>2, <1>4, LevelDepth DEF InList
<1>6. Lists' /\ \A j \in Ids : InList(j)' <=> InList(j) /\ j # id
  BY <1>1, <1>2, <1>4, ListLoses
<1> QED
  BY <1>4, <1>5, <1>6

\* list_remove takes a block out of the list of its depth, and out of no other
\* one, if no other block in a list begins where it does.
LEMMA ListRemove ==
  ASSUME Lists, NEW d \in Depths, NEW id \in Level(d), InList(id),
         \A j \in Ids : InList(j) /\ global_id_to_ptr(j) = global_id_to_ptr(id) => j = id,
         levels' = Unlinked(global_id_to_ptr(id))
  PROVE  Lists' /\ \A j \in Ids : InList(j)' <=> InList(j) /\ j # id
<1> DEFINE p == global_id_to_ptr(id)
           list == RemoveAt(levels[d], Position(levels[d], p))
<1>1. levels[d] \in Seq(Starts(d)) /\ IsInjective(levels[d])
  BY DEF Lists, ListedOnce
<1>2. p \in Range(levels[d])
  BY LevelDepth DEF InList
<1>3. ASSUME NEW e \in Depths, e # d PROVE p \notin Range(levels[e])
  <2> SUFFICES ASSUME p \in Range(levels[e]) PROVE FALSE
    OBVIOUS
  <2>1. Range(levels[e]) \subseteq Starts(e)
    BY RangeIs DEF Lists
  <2>2. PICK j \in Level(e) : p = global_id_to_ptr(j)
    BY <2>1 DEF Starts
  <2>3. j \in Ids /\ global_id_to_depth(j) = e /\ global_id_to_depth(id) = d
    BY LevelDepth
  <2>4. InList(j)
    BY <2>2, <2>3 DEF InList
  <2> QED
    BY <1>3, <2>2, <2>3, <2>4
<1>4. /\ list \in Seq(Starts(d))
      /\ Range(list) = Range(levels[d]) \ {p}
      /\ IsInjective(list)
  BY <1>1, <1>2, Unlinking
<1>5. levels' = [levels EXCEPT ![d] = list]
  <2>1. levels' = [e \in Depths |-> IF p \in Range(levels[e])
                                    THEN RemoveAt(levels[e], Position(levels[e], p))
                                    ELSE levels[e]]
    BY DEF Unlinked
  <2>2. levels \in [Depths -> Seq(Pointers)]
    BY DEF Lists
  <2> QED
    BY <1>2, <1>3, <2>1, <2>2
<1> HIDE DEF list, p
<1>6. Range(list) = Range(levels[d]) \ {global_id_to_ptr(id)}
  BY <1>4 DEF p
<1> QED
  BY <1>4, <1>5, <1>6, ListLoses

-------------------------------------------------------------------------------
(* The two bit fields *)

\* Flipping the bit of one block changes whether that one is split, and so
\* which blocks exist: its two children.
LEMMA SplitFlips ==
  ASSUME is_split_index \in [InnerIds -> {0, 1}], NEW p \in InnerIds,
         is_split_index' = Flipped(is_split_index, p)
  PROVE  /\ is_split_index' \in [InnerIds -> {0, 1}]
         /\ Split(p)' <=> ~ Split(p)
         /\ \A j : j # p => (Split(j)' <=> Split(j))
         /\ \A j : Exists(j)' <=> IF j # 0 /\ parent_global_id(j) = p THEN ~ Split(p) ELSE Exists(j)
<1>1. is_split_index' = [is_split_index EXCEPT ![p] = 1 - @]
  BY DEF Flipped
<1>2. is_split_index[p] \in {0, 1} /\ is_split_index'[p] = 1 - is_split_index[p]
      /\ \A j \in InnerIds \ {p} : is_split_index'[j] = is_split_index[j]
  BY <1>1
<1>3. is_split_index' \in [InnerIds -> {0, 1}]
  BY <1>1, <1>2
<1>4. Split(p)' <=> ~ Split(p)
  BY <1>2 DEF Split, block_is_split
<1>5. \A j : j # p => (Split(j)' <=> Split(j))
  BY <1>2 DEF Split, block_is_split
<1>6. \A j : /\ Exists(j) <=> j = 0 \/ Split(parent_global_id(j))
             /\ Exists(j)' <=> j = 0 \/ Split(parent_global_id(j))'
  BY DEF Exists, Split
<1>7. ASSUME NEW j
      PROVE  Exists(j)' <=> IF j # 0 /\ parent_global_id(j) = p THEN ~ Split(p) ELSE Exists(j)
  <2>1. CASE j = 0
    BY <1>6, <2>1
  <2>2. CASE j # 0 /\ parent_global_id(j) = p
    BY <1>4, <1>6, <2>2
  <2>3. CASE j # 0 /\ parent_global_id(j) # p
    BY <1>5, <1>6, <2>3
  <2> QED
    BY <2>1, <2>2, <2>3
<1> QED
  BY <1>3, <1>4, <1>5, <1>7

\* The bit of a pair says whether one of the two is free.
BitOf(id) == merge_index[buddy_pair_unique_id(id)] = 1
OneFree(id) == ~ (Free(id) <=> Free(buddy_global_id(id)))

BitsAgree ==
  /\ BitOf(0) <=> ~ Free(0)
  /\ \A id \in Ids \ {0} : BitOf(id) <=> OneFree(id)

LEMMA BitsPlain ==
  merge_index \in [Pairs -> {0, 1}] => (MergeBitsExact <=> BitsAgree)
<1> SUFFICES ASSUME merge_index \in [Pairs -> {0, 1}] PROVE MergeBitsExact <=> BitsAgree
  OBVIOUS
<1>1. \A id : Free(id) \in BOOLEAN
  BY DEF Free, InList
<1>2. 0 \in Ids /\ buddy_pair_unique_id(0) = 0
  BY Root, PairOfId
<1>3. \A id \in Ids : merge_index[buddy_pair_unique_id(id)] \in {0, 1}
  BY PairInRange
<1>4. (merge_index[0] = IF Free(0) THEN 0 ELSE 1) <=> (BitOf(0) <=> ~ Free(0))
  <2>1. merge_index[0] \in {0, 1}
    BY <1>2, <1>3
  <2>2. CASE Free(0)
    BY <1>2, <2>1, <2>2 DEF BitOf
  <2>3. CASE ~ Free(0)
    BY <1>2, <2>1, <2>3 DEF BitOf
  <2> QED
    BY <2>2, <2>3
<1>5. ASSUME NEW id \in Ids
      PROVE  (merge_index[buddy_pair_unique_id(id)]
                = IF Free(id) # Free(buddy_global_id(id)) THEN 1 ELSE 0)
              <=> (BitOf(id) <=> OneFree(id))
  <2>1. (Free(id) # Free(buddy_global_id(id))) <=> OneFree(id)
    BY <1>1 DEF OneFree
  <2>2. CASE OneFree(id)
    BY <1>3, <2>1, <2>2 DEF BitOf
  <2>3. CASE ~ OneFree(id)
    BY <1>3, <2>1, <2>3 DEF BitOf
  <2> QED
    BY <2>2, <2>3
<1> QED
  BY <1>4, <1>5 DEF MergeBitsExact, BitsAgree

LEMMA BitsPlainNext ==
  (merge_index \in [Pairs -> {0, 1}] => (MergeBitsExact <=> BitsAgree))'
BY BitsPlain, PTL

\* Flipping the bit of a pair when one of the two becomes free or stops to be.
LEMMA MergeFlips ==
  ASSUME merge_index \in [Pairs -> {0, 1}], MergeBitsExact,
         NEW id \in Ids, merge_index' = IsFreeFlipped(id),
         id = 0 => (Free(0)' <=> ~ Free(0)),
         id # 0 => /\ Free(0)' <=> Free(0)
                   /\ OneFree(id)' <=> ~ OneFree(id),
         \A j \in Ids \ {0} : j # id /\ j # buddy_global_id(id) => (OneFree(j)' <=> OneFree(j))
  PROVE  merge_index' \in [Pairs -> {0, 1}] /\ MergeBitsExact'
<1> DEFINE pair == buddy_pair_unique_id(id)
<1>1. pair \in Pairs /\ merge_index' = [merge_index EXCEPT ![pair] = 1 - @]
  BY PairInRange DEF IsFreeFlipped, Flipped
<1>2. merge_index[pair] \in {0, 1} /\ merge_index'[pair] = 1 - merge_index[pair]
      /\ \A q \in Pairs \ {pair} : merge_index'[q] = merge_index[q]
  BY <1>1
<1>3. merge_index' \in [Pairs -> {0, 1}]
  BY <1>1, <1>2
<1>4. /\ BitOf(0) <=> ~ Free(0)
      /\ \A j \in Ids \ {0} : BitOf(j) <=> OneFree(j)
  BY BitsPlain DEF BitsAgree
<1>5. 0 \in Ids
  BY Root
<1>6. \A j \in Ids : /\ j = id \/ j = buddy_global_id(id) => (BitOf(j)' <=> ~ BitOf(j))
                     /\ j # id /\ j # buddy_global_id(id) => (BitOf(j)' <=> BitOf(j))
  <2> SUFFICES ASSUME NEW j \in Ids
               PROVE  /\ j = id \/ j = buddy_global_id(id) => (BitOf(j)' <=> ~ BitOf(j))
                      /\ j # id /\ j # buddy_global_id(id) => (BitOf(j)' <=> BitOf(j))
    OBVIOUS
  <2>1. buddy_pair_unique_id(j) = pair <=> j = id \/ j = buddy_global_id(id)
    BY PairsDistinct
  <2>2. buddy_pair_unique_id(j) \in Pairs
    BY PairInRange
  <2> HIDE DEF pair
  <2>3. CASE buddy_pair_unique_id(j) = pair
    BY <1>2, <2>1, <2>3 DEF BitOf
  <2>4. CASE buddy_pair_unique_id(j) # pair
    BY <1>2, <2>1, <2>2, <2>4 DEF BitOf
  <2> QED
    BY <2>3, <2>4
<1>7. CASE id = 0
  <2>1. buddy_global_id(0) = 0
    BY DEF buddy_global_id
  <2>2. BitOf(0)' <=> ~ Free(0)'
    BY <1>4, <1>5, <1>6, <1>7
  <2>3. \A j \in Ids \ {0} : BitOf(j)' <=> OneFree(j)'
    BY <1>4, <1>6, <1>7, <2>1
  <2> QED
    BY <1>3, <2>2, <2>3, BitsPlainNext DEF BitsAgree
<1>8. CASE id # 0
  <2>1. id \in Level(global_id_to_depth(id)) /\ global_id_to_depth(id) \in Depths
        /\ global_id_to_depth(id) > 0
    <3>1. id \in Level(global_id_to_depth(id)) /\ global_id_to_depth(id) \in Depths
      BY IdFacts
    <3>2. global_id_to_depth(id) # 0
      BY <1>8, <3>1, Root
    <3> QED
      BY <3>1, <3>2, DepthFacts
  <2>2. buddy_global_id(id) # 0 /\ buddy_global_id(buddy_global_id(id)) = id
    <3>1. buddy_global_id(id) \in Level(global_id_to_depth(id))
          /\ buddy_global_id(buddy_global_id(id)) = id
      BY <2>1, Buddy
    <3>2. 0 \notin Level(global_id_to_depth(id))
      BY <2>1, Root
    <3> QED
      BY <3>1, <3>2
  <2>3. OneFree(buddy_global_id(id)) <=> OneFree(id)
    BY <2>2 DEF OneFree
  <2>4. OneFree(buddy_global_id(id))' <=> OneFree(id)'
    BY <2>2 DEF OneFree
  <2>5. BitOf(0)' <=> ~ Free(0)'
    BY <1>4, <1>5, <1>6, <1>8, <2>2
  <2>6. ASSUME NEW j \in Ids \ {0} PROVE BitOf(j)' <=> OneFree(j)'
    <3>1. BitOf(j) <=> OneFree(j)
      BY <1>4
    <3>2. CASE j = id
      BY <1>6, <1>8, <3>1, <3>2
    <3>3. CASE j = buddy_global_id(id)
      BY <1>6, <1>8, <2>3, <2>4, <3>1, <3>3
    <3>4. CASE j # id /\ j # buddy_global_id(id)
      BY <1>6, <3>1, <3>4
    <3> QED
      BY <3>2, <3>3, <3>4
  <2> QED
    BY <1>3, <2>5, <2>6, BitsPlainNext DEF BitsAgree
<1> QED
  BY <1>7, <1>8

\* One block becomes free or stops to be.
LEMMA FreeFlips ==
  ASSUME merge_index \in [Pairs -> {0, 1}], MergeBitsExact,
         NEW id \in Ids, merge_index' = IsFreeFlipped(id),
         Free(id)' <=> ~ Free(id),
         \A j \in Ids \ {id} : Free(j)' <=> Free(j)
  PROVE  merge_index' \in [Pairs -> {0, 1}] /\ MergeBitsExact'
<1>1. \A j \in Ids \ {0} : /\ buddy_global_id(j) \in Ids
                           /\ buddy_global_id(j) # j
                           /\ buddy_global_id(buddy_global_id(j)) = j
  BY Relatives
<1>2. 0 \in Ids
  BY Root
<1>3. ASSUME id # 0 PROVE OneFree(id)' <=> ~ OneFree(id)
  BY <1>1, <1>3 DEF OneFree
<1>4. ASSUME NEW j \in Ids \ {0}, j # id, j # buddy_global_id(id)
      PROVE  OneFree(j)' <=> OneFree(j)
  <2>1. buddy_global_id(j) # id /\ buddy_global_id(j) \in Ids
    BY <1>1, <1>4
  <2> QED
    BY <1>4, <2>1 DEF OneFree
<1> QED
  BY <1>2, <1>3, <1>4, MergeFlips

-------------------------------------------------------------------------------
(* What a step leaves alone *)

LEMMA SplitsStay ==
  ASSUME is_split_index' = is_split_index
  PROVE  \A j : (Split(j)' <=> Split(j)) /\ (Exists(j)' <=> Exists(j))
BY DEF Split, Exists, block_is_split

LEMMA ListsStay ==
  ASSUME levels' = levels
  PROVE  (Lists' <=> Lists) /\ \A j : InList(j)' <=> InList(j)
BY DEF Lists, ListedOnce, InList

LEMMA HeldStays ==
  ASSUME held' = held
  PROVE  \A j : IsHeld(j)' <=> IsHeld(j)
BY DEF IsHeld

\* What the invariant says, taken apart.
LEMMA Known ==
  IInv <=> /\ TypeOK
           /\ Lists
           /\ \A p \in DOMAIN held : \E id \in Ids : global_id_to_ptr(id) = p /\ IsHeld(id)
           /\ pc = "malloc" => /\ requested_size \in Requests
                               /\ target_depth = depth_for_request(requested_size)
                               /\ depth <= target_depth
           /\ \A id \in Ids : OneRole(id)
           /\ MergeBitsExact
           /\ BuddiesMerged
BY DEF IInv, Placed, Lists

LEMMA KnownNext ==
  (IInv <=> /\ TypeOK
            /\ Lists
            /\ \A p \in DOMAIN held : \E id \in Ids : global_id_to_ptr(id) = p /\ IsHeld(id)
            /\ pc = "malloc" => /\ requested_size \in Requests
                                /\ target_depth = depth_for_request(requested_size)
                                /\ depth <= target_depth
            /\ \A id \in Ids : OneRole(id)
            /\ MergeBitsExact
            /\ BuddiesMerged)'
BY Known, PTL

\* The block in hand.
LEMMA BlockInHand ==
  ASSUME TypeOK
  PROVE  /\ block_id \in Level(depth)
         /\ block_id \in Ids
         /\ depth \in Depths
         /\ global_id_to_depth(block_id) = depth
         /\ block = global_id_to_ptr(block_id)
<1>1. depth \in Depths /\ block_id \in Level(depth) /\ block = global_id_to_ptr(block_id)
  BY DEF TypeOK, Level
<1> QED
  BY <1>1, LevelDepth

-------------------------------------------------------------------------------
(* The invariant begins, and survives every action *)

LEMMA Begins == Init => IInv
<1> SUFFICES ASSUME Init PROVE IInv
  OBVIOUS
<1>1. 0 \in Depths /\ 0 \in Pointers /\ \A d \in Depths : d \in Nat
  BY MemoryFacts, DepthFacts DEF Pointers
<1>2. levels[0] = <<0>> /\ \A d \in Depths : d # 0 => levels[d] = <<>>
  BY <1>1 DEF Init
<1>3. Range(<<0>>) = {0} /\ \A S : Range(<<>>) = {}
  BY DEF Range
<1>4. \A id \in Ids : InList(id) <=> id = 0
  <2> SUFFICES ASSUME NEW id \in Ids PROVE InList(id) <=> id = 0
    OBVIOUS
  <2>1. CASE id = 0
    BY <1>2, <1>3, <2>1, Root DEF InList
  <2>2. CASE id # 0
    <3>1. global_id_to_depth(id) \in Depths /\ global_id_to_depth(id) # 0
      BY <2>2, IdFacts, Root
    <3> QED
      BY <1>2, <1>3, <2>2, <3>1 DEF InList
  <2> QED
    BY <2>1, <2>2
<1>5. \A id : ~ Split(id) /\ ~ IsHeld(id) /\ ~ InHand(id) /\ (Exists(id) <=> id = 0)
  BY DEF Init, Split, IsHeld, InHand, Exists, block_is_split
<1>6. Lists
  <2>1. levels \in [Depths -> Seq(Pointers)]
    BY <1>1 DEF Init
  <2>2. 0 \in Starts(0)
    BY Root DEF Starts
  <2>3. ASSUME NEW d \in Depths PROVE levels[d] \in Seq(Starts(d))
    <3>1. CASE d = 0
      <4>1. \A S : 0 \in S => <<0>> \in Seq(S)
        OBVIOUS
      <4> QED
        BY <1>2, <2>2, <3>1, <4>1
    <3>2. CASE d # 0
      BY <1>2, <3>2, EmptySeq
    <3> QED
      BY <3>1, <3>2
  <2>4. \A d \in Depths : IsInjective(levels[d])
    BY <1>2 DEF IsInjective
  <2> QED
    BY <2>1, <2>3, <2>4 DEF Lists, ListedOnce
<1>7. TypeOK
  <2>1. levels \in [Depths -> Seq(Pointers)]
    BY <1>6 DEF Lists
  <2>2. is_split_index \in [InnerIds -> {0, 1}] /\ merge_index \in [Pairs -> {0, 1}]
    BY DEF Init
  <2>3. 0 \in min_global_id_at_depth(0) .. max_global_id_at_depth(0)
    BY Root DEF Level
  <2> QED
    BY <1>1, <2>1, <2>2, <2>3, Root DEF Init, TypeOK
<1>8. \A id \in Ids : OneRole(id)
  BY <1>4, <1>5 DEF OneRole
<1>9. \A id \in Ids : Free(id) <=> id = 0
  BY <1>4 DEF Init, Free
<1>10. MergeBitsExact
  <2>1. 0 \in Ids /\ buddy_pair_unique_id(0) = 0 /\ 0 \in Pairs
    BY Root, PairOfId, PairInRange
  <2>2. merge_index[0] = 0
    BY <2>1 DEF Init
  <2>3. \A id \in Ids \ {0} : merge_index[buddy_pair_unique_id(id)] = 0
    BY PairInRange DEF Init
  <2>4. BitOf(0) <=> ~ Free(0)
    BY <1>9, <2>1, <2>2 DEF BitOf
  <2>5. \A id \in Ids \ {0} : ~ BitOf(id) /\ ~ OneFree(id)
    BY <1>9, <2>3, Relatives DEF BitOf, OneFree
  <2> QED
    BY <1>7, <2>4, <2>5, BitsPlain DEF TypeOK, BitsAgree
<1>11. BuddiesMerged
  BY <1>4, Relatives DEF BuddiesMerged
<1> QED
  BY <1>5, <1>6, <1>7, <1>8, <1>10, <1>11, Known DEF Init

\* Nothing but the answer changes.
LEMMA OnlyAnswers ==
  ASSUME IInv, UNCHANGED <<levels, bits, pc, locals, held>>,
         answer' \in [size : Requests \cup {NULL}, ptr : Pointers \cup {NULL}]
  PROVE  IInv'
<1> USE DEF bits, locals
<1>1. \A j : InList(j)' <=> InList(j)
  BY ListsStay
<1>2. \A j : (Split(j)' <=> Split(j)) /\ (Exists(j)' <=> Exists(j))
  BY SplitsStay
<1>3. \A j : (IsHeld(j)' <=> IsHeld(j)) /\ (InHand(j)' <=> InHand(j))
  BY HeldStays DEF InHand
<1>4. TypeOK'
  BY DEF IInv, TypeOK
<1>5. Placed'
  BY <1>3 DEF IInv, Placed
<1>6. \A id \in Ids : OneRole(id)'
  BY <1>1, <1>2, <1>3 DEF IInv, OneRole
<1>7. ListedOnce'
  BY DEF IInv, ListedOnce
<1>8. MergeBitsExact'
  <2>1. \A j : Free(j)' = Free(j)
    BY DEF Free, InList
  <2> QED
    BY <2>1 DEF IInv, MergeBitsExact
<1>9. BuddiesMerged'
  BY <1>1 DEF IInv, BuddiesMerged
<1> QED
  BY <1>4, <1>5, <1>6, <1>7, <1>8, <1>9 DEF IInv

LEMMA StutterKeeps == IInv /\ UNCHANGED vars => IInv'
BY OnlyAnswers DEF vars, client, IInv, TypeOK

LEMMA RefusalKeeps ==
  ASSUME IInv, NEW request \in Requests, MallocRefuses(request) \/ MallocExhausted(request)
  PROVE  IInv'
<1>1. answer' \in [size : Requests \cup {NULL}, ptr : Pointers \cup {NULL}]
  BY DEF MallocRefuses, MallocExhausted, Answers
<1> QED
  BY <1>1, OnlyAnswers DEF MallocRefuses, MallocExhausted

LEMMA MallocTakesKeeps ==
  ASSUME IInv, NEW request \in Requests, MallocTakes(request)
  PROVE  IInv'
<1> DEFINE target == depth_for_request(request)
<1>1. target \in Depths
  <2>1. request \in Nat /\ MAX_ALLOC \in Nat
    BY RequestsAssumption, MemoryFacts
  <2>2. target # -1
    BY DEF MallocTakes
  <2> QED
    BY <2>1, <2>2, RequestHasDepth
<1>2. PICK d \in 0 .. target :
        /\ levels[d] # <<>>
        /\ target_depth' = target
        /\ depth' = d
        /\ block' = Last(levels[d])
        /\ block_id' = ptr_to_global_id(block', d)
        /\ levels' = Popped(d)
  BY DEF MallocTakes
<1> HIDE DEF target
<1>3. d \in Depths /\ d <= target
  BY <1>1, <1>2, DepthFacts
<1>4. /\ merge_index' = IsFreeFlipped(block_id')
      /\ requested_size' = request
      /\ pc = "idle" /\ pc' = "malloc"
      /\ is_split_index' = is_split_index /\ held' = held /\ answer' = answer
  BY DEF MallocTakes, client
<1>5. TypeOK /\ Lists /\ MergeBitsExact /\ BuddiesMerged /\ \A id \in Ids : OneRole(id)
  BY Known
<1>6. PICK id \in Level(d) : /\ global_id_to_ptr(id) = Last(levels[d])
                             /\ InList(id)
                             /\ Lists'
                             /\ \A j \in Ids : InList(j)' <=> InList(j) /\ j # id
  BY <1>2, <1>3, <1>5, ListPop
<1>7. id \in Ids /\ block' = global_id_to_ptr(id) /\ block_id' = id
  BY <1>2, <1>3, <1>6, LevelDepth
<1>8. \A j : (Split(j)' <=> Split(j)) /\ (Exists(j)' <=> Exists(j)) /\ (IsHeld(j)' <=> IsHeld(j))
  BY <1>4, SplitsStay, HeldStays
<1>9. \A j : ~ InHand(j) /\ (InHand(j)' <=> j = id)
  BY <1>4, <1>7 DEF InHand
<1>10. \A j \in Ids : OneRole(j)'
  BY <1>5, <1>6, <1>8, <1>9 DEF OneRole
<1>11. \A j \in Ids : /\ Free(j) <=> InList(j)
                      /\ Free(j)' <=> InList(j) /\ j # id
  BY <1>4, <1>6 DEF Free
<1>12. merge_index' \in [Pairs -> {0, 1}] /\ MergeBitsExact'
  <2>1. merge_index \in [Pairs -> {0, 1}] /\ merge_index' = IsFreeFlipped(id)
    BY <1>4, <1>5, <1>7 DEF TypeOK
  <2>2. Free(id)' <=> ~ Free(id)
    BY <1>6, <1>7, <1>11
  <2>3. \A j \in Ids \ {id} : Free(j)' <=> Free(j)
    BY <1>11
  <2> QED
    BY <1>5, <1>7, <2>1, <2>2, <2>3, FreeFlips
<1>13. BuddiesMerged'
  BY <1>5, <1>6, Relatives DEF BuddiesMerged
<1>14. TypeOK'
  <2>1. block_id' \in min_global_id_at_depth(depth') .. max_global_id_at_depth(depth')
    BY <1>2, <1>7 DEF Level
  <2> QED
    BY <1>1, <1>2, <1>3, <1>4, <1>5, <1>6, <1>7, <1>12, <2>1 DEF TypeOK, Lists
<1>15. \A p \in DOMAIN held' : \E j \in Ids : global_id_to_ptr(j) = p /\ IsHeld(j)'
  BY <1>4, <1>8, Known
<1>16. requested_size' \in Requests /\ target_depth' = depth_for_request(requested_size')
       /\ depth' <= target_depth'
  BY <1>2, <1>3, <1>4 DEF target
<1> QED
  BY <1>6, <1>10, <1>12, <1>13, <1>14, <1>15, <1>16, KnownNext

LEMMA MallocSplitsKeeps ==
  ASSUME IInv, MallocSplits
  PROVE  IInv'
<1>0. PICK b : b = block_id
  OBVIOUS
<1> DEFINE left == left_child_global_id(b)
           right == right_child_global_id(b)
<1>1. /\ pc = "malloc" /\ pc' = "malloc" /\ depth < target_depth
      /\ is_split_index' = ParentFlipped(left)
      /\ levels' = Pushed(depth + 1, global_id_to_ptr(right))
      /\ merge_index' = IsFreeFlipped(right)
      /\ block' = global_id_to_ptr(left)
      /\ block_id' = left
      /\ depth' = depth + 1
      /\ requested_size' = requested_size /\ target_depth' = target_depth
      /\ held' = held /\ answer' = answer
  BY <1>0 DEF MallocSplits, client
<1>2. TypeOK /\ Lists /\ MergeBitsExact /\ BuddiesMerged /\ \A j \in Ids : OneRole(j)
  BY Known
<1>3. b \in Level(depth) /\ b \in Ids /\ depth \in Depths
  BY <1>0, <1>2, BlockInHand
<1>4. depth < max_allocator_depth /\ depth + 1 \in Depths /\ depth + 1 <= target_depth
      /\ target_depth \in Depths
  BY <1>1, <1>2, <1>3, DepthFacts DEF TypeOK
<1>5. /\ left \in Level(depth + 1) /\ right \in Level(depth + 1)
      /\ left # right /\ left > 0
      /\ parent_global_id(left) = b /\ parent_global_id(right) = b
      /\ buddy_global_id(left) = right /\ buddy_global_id(right) = left
  BY <1>3, <1>4, Children
<1>6. \A j \in Ids \ {0} : parent_global_id(j) = b <=> j = left \/ j = right
  BY <1>5, ParentOf
<1> HIDE DEF left, right
<1>7. left \in Ids /\ right \in Ids /\ left # 0 /\ right # 0 /\ left # b /\ right # b
  <2>1. /\ left \in Ids /\ right \in Ids
        /\ global_id_to_depth(left) = depth + 1 /\ global_id_to_depth(right) = depth + 1
        /\ global_id_to_depth(b) = depth
    BY <1>3, <1>4, <1>5, LevelDepth
  <2>2. depth # depth + 1 /\ depth + 1 # 0
    BY <1>3, DepthFacts
  <2> QED
    BY <2>1, <2>2, Root
<1>8. \A j : InHand(j) <=> j = b
  BY <1>0, <1>1 DEF InHand
<1>9. ~ Split(b) /\ Exists(b) /\ ~ InList(b) /\ ~ IsHeld(b)
  BY <1>2, <1>3, <1>8 DEF OneRole
<1>10. ~ Exists(left) /\ ~ Exists(right)
  BY <1>5, <1>7, <1>9 DEF Exists, Split
<1>11. /\ ~ Split(left) /\ ~ InList(left) /\ ~ IsHeld(left)
       /\ ~ Split(right) /\ ~ InList(right) /\ ~ IsHeld(right)
  BY <1>2, <1>7, <1>10 DEF OneRole
<1>12. Lists' /\ \A j \in Ids : InList(j)' <=> InList(j) \/ j = right
  BY <1>1, <1>2, <1>4, <1>5, <1>11, ListPush
<1>13. /\ is_split_index' \in [InnerIds -> {0, 1}]
       /\ Split(b)' <=> ~ Split(b)
       /\ \A j : j # b => (Split(j)' <=> Split(j))
       /\ \A j : Exists(j)' <=> IF j # 0 /\ parent_global_id(j) = b
                                THEN ~ Split(b) ELSE Exists(j)
  <2>1. b \in InnerIds
    BY <1>3, <1>4, Inner
  <2>2. is_split_index' = Flipped(is_split_index, b)
    <3>1. ~ (left <= 0)
      BY <1>5, <1>7 DEF Ids
    <3> QED
      BY <1>1, <1>5, <3>1 DEF ParentFlipped
  <2> QED
    BY <1>2, <2>1, <2>2, SplitFlips DEF TypeOK
<1>14. \A j \in Ids : Exists(j)' <=> Exists(j) \/ j = left \/ j = right
  <2> SUFFICES ASSUME NEW j \in Ids PROVE Exists(j)' <=> Exists(j) \/ j = left \/ j = right
    OBVIOUS
  <2>1. CASE j = 0
    BY <1>7, <1>13, <2>1
  <2>2. CASE j # 0
    BY <1>6, <1>9, <1>10, <1>13, <2>2
  <2> QED
    BY <2>1, <2>2
<1>15. \A j : (IsHeld(j)' <=> IsHeld(j)) /\ (InHand(j)' <=> j = left)
  BY <1>1, HeldStays DEF InHand
<1>16. ASSUME NEW j \in Ids PROVE OneRole(j)'
  <2>1. CASE j = b
    BY <1>7, <1>9, <1>12, <1>13, <1>14, <1>15, <2>1 DEF OneRole
  <2>2. CASE j = left
    BY <1>5, <1>7, <1>11, <1>12, <1>13, <1>14, <1>15, <2>2 DEF OneRole
  <2>3. CASE j = right
    BY <1>5, <1>7, <1>11, <1>12, <1>13, <1>14, <1>15, <2>3 DEF OneRole
  <2>4. CASE j # b /\ j # left /\ j # right
    <3>1. OneRole(j) /\ ~ InHand(j) /\ ~ InHand(j)'
      BY <1>2, <1>8, <1>15, <2>4
    <3>2. (Split(j)' <=> Split(j)) /\ (Exists(j)' <=> Exists(j))
      BY <1>13, <1>14, <2>4
    <3>3. (InList(j)' <=> InList(j)) /\ (IsHeld(j)' <=> IsHeld(j))
      BY <1>12, <1>15, <2>4
    <3> QED
      BY <3>1, <3>2, <3>3 DEF OneRole
  <2> QED
    BY <2>1, <2>2, <2>3, <2>4
<1>17. merge_index' \in [Pairs -> {0, 1}] /\ MergeBitsExact'
  <2>1. \A j \in Ids : (Free(j) <=> InList(j)) /\ (Free(j)' <=> InList(j) \/ j = right)
    BY <1>1, <1>12 DEF Free
  <2>2. Free(right)' <=> ~ Free(right)
    BY <1>7, <1>11, <2>1
  <2>3. \A j \in Ids \ {right} : Free(j)' <=> Free(j)
    BY <2>1
  <2>4. merge_index \in [Pairs -> {0, 1}]
    BY <1>2 DEF TypeOK
  <2> QED
    BY <1>1, <1>2, <1>7, <2>2, <2>3, <2>4, FreeFlips
<1>18. BuddiesMerged'
  <2> SUFFICES ASSUME NEW j \in Ids \ {0}, InList(j)', InList(buddy_global_id(j))'
               PROVE  FALSE
    BY DEF BuddiesMerged
  <2>1. buddy_global_id(j) \in Ids /\ buddy_global_id(buddy_global_id(j)) = j
    BY Relatives
  <2>2. ~ InList(left)'
    BY <1>5, <1>7, <1>11, <1>12
  <2>3. j # right /\ j # left
    BY <1>5, <2>2
  <2>4. buddy_global_id(j) # right
    BY <1>5, <2>1, <2>3
  <2> QED
    BY <1>2, <1>12, <2>1, <2>3, <2>4 DEF BuddiesMerged
<1>19. TypeOK'
  <2>1. block_id' \in min_global_id_at_depth(depth') .. max_global_id_at_depth(depth')
    BY <1>1, <1>5 DEF Level
  <2> QED
    BY <1>1, <1>2, <1>4, <1>12, <1>13, <1>17, <2>1 DEF TypeOK, Lists
<1>20. \A p \in DOMAIN held' : \E j \in Ids : global_id_to_ptr(j) = p /\ IsHeld(j)'
  BY <1>1, <1>15, Known
<1>21. requested_size' \in Requests /\ target_depth' = depth_for_request(requested_size')
       /\ depth' <= target_depth'
  BY <1>1, <1>4, Known
<1> QED
  BY <1>12, <1>16, <1>17, <1>18, <1>19, <1>20, <1>21, KnownNext

\* What a client gets it did not hold.
LEMMA HandedOutOnce ==
  ASSUME IInv, pc # "idle"
  PROVE  block \notin DOMAIN held
<1> SUFFICES ASSUME block \in DOMAIN held PROVE FALSE
  OBVIOUS
<1>1. TypeOK /\ (\A j \in Ids : OneRole(j)) /\ \E j \in Ids : global_id_to_ptr(j) = block /\ IsHeld(j)
  BY Known
<1>2. PICK j \in Ids : global_id_to_ptr(j) = block /\ IsHeld(j)
  BY <1>1
<1>3. block_id \in Ids /\ block = global_id_to_ptr(block_id) /\ InHand(block_id)
  BY <1>1, BlockInHand DEF InHand
<1>4. Leaf(j) /\ Leaf(block_id) /\ Closed
  BY <1>1, <1>2, <1>3, RoleFacts
<1>5. j = block_id
  BY <1>2, <1>3, <1>4, LeafStarts
<1> QED
  BY <1>1, <1>2, <1>3, <1>5 DEF OneRole

LEMMA MallocReturnsKeeps ==
  ASSUME IInv, MallocReturns
  PROVE  IInv'
<1>1. /\ pc = "malloc" /\ pc' = "idle"
      /\ held' = [p \in DOMAIN held \cup {block} |->
                    IF p = block THEN block_size_at_depth(depth) ELSE held[p]]
      /\ answer' = [size |-> requested_size, ptr |-> block]
      /\ requested_size' = 0 /\ target_depth' = 0 /\ depth' = 0 /\ block' = 0 /\ block_id' = 0
      /\ levels' = levels /\ is_split_index' = is_split_index /\ merge_index' = merge_index
  BY DEF MallocReturns, bits, NoLocals, Answers
<1>2. TypeOK /\ Lists /\ MergeBitsExact /\ BuddiesMerged /\ \A j \in Ids : OneRole(j)
  BY Known
<1>3. block_id \in Ids /\ depth \in Depths /\ global_id_to_depth(block_id) = depth
      /\ block = global_id_to_ptr(block_id) /\ block \in Pointers
  BY <1>2, BlockInHand, LevelDepth
<1>4. \A j : (InHand(j) <=> j = block_id) /\ ~ InHand(j)'
  BY <1>1 DEF InHand
<1>5. block \notin DOMAIN held
  BY <1>1, HandedOutOnce
<1>6. DOMAIN held' = DOMAIN held \cup {block} /\ held'[block] = block_size_at_depth(depth)
      /\ \A p \in DOMAIN held : held'[p] = held[p]
  BY <1>1, <1>5
<1>7. ASSUME NEW j \in Ids PROVE IsHeld(j)' <=> IsHeld(j) \/ j = block_id
  <2>1. CASE global_id_to_ptr(j) = block
    <3>1. IsHeld(j)' <=> block_size_at_depth(depth) = block_size_at_depth(global_id_to_depth(j))
      BY <1>6, <2>1 DEF IsHeld
    <3>2. ~ IsHeld(j)
      BY <1>5, <2>1 DEF IsHeld
    <3>3. block_size_at_depth(depth) = block_size_at_depth(global_id_to_depth(j)) <=> j = block_id
      BY <1>3, <2>1, IdFacts, SizesDiffer, StartsApart
    <3> QED
      BY <3>1, <3>2, <3>3
  <2>2. CASE global_id_to_ptr(j) # block
    BY <1>3, <1>6, <2>2 DEF IsHeld
  <2> QED
    BY <2>1, <2>2
<1>8. \A j : (Split(j)' <=> Split(j)) /\ (Exists(j)' <=> Exists(j)) /\ (InList(j)' <=> InList(j))
  BY <1>1, SplitsStay, ListsStay
<1>9. \A j \in Ids : OneRole(j)'
  BY <1>2, <1>4, <1>7, <1>8 DEF OneRole
<1>10. MergeBitsExact'
  <2>1. \A j : (Free(j) <=> InList(j)) /\ (Free(j)' <=> InList(j))
    BY <1>1, <1>8 DEF Free
  <2>2. BitsAgree
    BY <1>2, BitsPlain DEF TypeOK
  <2>3. BitsAgree'
    BY <1>1, <2>1, <2>2 DEF BitsAgree, BitOf, OneFree
  <2>4. merge_index' \in [Pairs -> {0, 1}]
    BY <1>1, <1>2 DEF TypeOK
  <2> QED
    BY <2>3, <2>4, BitsPlainNext
<1>11. BuddiesMerged'
  BY <1>2, <1>8 DEF BuddiesMerged
<1>12. TypeOK'
  <2>1. 0 \in min_global_id_at_depth(0) .. max_global_id_at_depth(0) /\ 0 = global_id_to_ptr(0)
        /\ 0 \in Depths
    BY Root, MemoryFacts DEF Level
  <2>2. DOMAIN held' \subseteq Pointers /\ \A p \in DOMAIN held' : \E d \in Depths : held'[p] = block_size_at_depth(d)
    BY <1>2, <1>3, <1>6 DEF TypeOK
  <2>3. requested_size \in Requests
    BY <1>1, Known
  <2>4. answer' \in [size : Requests \cup {NULL}, ptr : Pointers \cup {NULL}]
    BY <1>1, <1>3, <2>3
  <2> QED
    BY <1>1, <1>2, <2>1, <2>2, <2>4 DEF TypeOK
<1>13. ASSUME NEW p \in DOMAIN held' PROVE \E j \in Ids : global_id_to_ptr(j) = p /\ IsHeld(j)'
  <2>1. CASE p = block
    BY <1>3, <1>7, <2>1
  <2>2. CASE p # block
    <3>1. \E j \in Ids : global_id_to_ptr(j) = p /\ IsHeld(j)
      BY <1>6, <2>2, Known
    <3> QED
      BY <1>7, <3>1
  <2> QED
    BY <2>1, <2>2
<1>14. Lists'
  BY <1>1, <1>2, ListsStay
<1> QED
  BY <1>1, <1>9, <1>10, <1>11, <1>12, <1>13, <1>14, KnownNext

\* depth_allocated_ptr finds the block that begins at a pointer.
LEMMA DepthOfLeaf ==
  ASSUME is_split_index \in [InnerIds -> {0, 1}], Closed, NEW h, Leaf(h)
  PROVE  depth_allocated_ptr(global_id_to_ptr(h)) = global_id_to_depth(h)
<1> DEFINE x == global_id_to_ptr(h)
           d == global_id_to_depth(h)
           Cut(a) == block_is_split(ptr_to_global_id(x, a)) = 1
           Stops(a) == /\ a = 0 \/ Cut(a - 1)
                       /\ \A e \in a + 1 .. max_allocator_depth :
                            block_is_split(ptr_to_global_id(x, e - 1)) = 0
<1>1. h \in Ids /\ x \in Pointers /\ d \in Depths /\ ptr_to_global_id(x, d) = h
      /\ ~ Split(h) /\ Exists(h)
  BY IdFacts DEF Leaf
<1> HIDE DEF x, d
<1>2. /\ d \in Nat
      /\ max_allocator_depth \in Nat
      /\ \A a : a \in Depths <=> a \in Nat /\ a <= max_allocator_depth
  BY <1>1, DepthFacts
<1>3. \A e \in Depths : \A a \in Depths : a < e /\ Exists(ptr_to_global_id(x, e)) => Cut(a)
  BY <1>1, <1>2, ExistsUpward DEF Split
<1>4. ASSUME NEW a \in Depths, a < d PROVE Cut(a)
  BY <1>1, <1>3, <1>4
<1>5. ASSUME NEW a \in Depths, d <= a, a < max_allocator_depth
      PROVE  block_is_split(ptr_to_global_id(x, a)) = 0
  <2>1. ptr_to_global_id(x, a) \in InnerIds /\ ptr_to_global_id(x, a) \in Ids
    BY <1>1, <1>5, Around, Inner
  <2>2. block_is_split(ptr_to_global_id(x, a)) \in {0, 1}
    BY <2>1 DEF block_is_split
  <2>3. ~ Cut(a)
    <3> SUFFICES ASSUME Cut(a) PROVE FALSE
      OBVIOUS
    <3>1. Exists(ptr_to_global_id(x, a))
      BY <2>1 DEF Closed, Split
    <3>2. d # a
      BY <1>1 DEF Split
    <3>3. d < a
      BY <1>2, <1>5, <3>2
    <3>4. Cut(d)
      BY <1>1, <1>3, <3>1, <3>3
    <3> QED
      BY <1>1, <3>4 DEF Split
  <2> QED
    BY <2>2, <2>3
<1>6. Stops(d)
  <2>1. d = 0 \/ Cut(d - 1)
    <3> SUFFICES ASSUME d # 0 PROVE Cut(d - 1)
      OBVIOUS
    <3>1. d - 1 \in Depths /\ d - 1 < d
      BY <1>1, <1>2
    <3> QED
      BY <1>4, <3>1
  <2>2. \A e \in d + 1 .. max_allocator_depth :
          e - 1 \in Depths /\ d <= e - 1 /\ e - 1 < max_allocator_depth
    BY <1>2
  <2> QED
    BY <1>5, <2>1, <2>2
<1>7. ASSUME NEW a \in Depths, Stops(a) PROVE a = d
  <2>1. CASE a < d
    <3>1. d \in a + 1 .. max_allocator_depth /\ d - 1 \in Depths /\ d - 1 < d
      BY <1>1, <1>2, <2>1
    <3>2. block_is_split(ptr_to_global_id(x, d - 1)) = 0
      BY <1>7, <3>1
    <3> QED
      BY <1>4, <3>1, <3>2
  <2>2. CASE d < a
    <3>1. a # 0 /\ a - 1 \in Depths /\ d <= a - 1 /\ a - 1 < max_allocator_depth
      BY <1>2, <2>2
    <3>2. Cut(a - 1)
      BY <1>7, <3>1
    <3> QED
      BY <1>5, <3>1, <3>2
  <2> QED
    BY <1>2, <2>1, <2>2
<1>8. depth_allocated_ptr(x) = CHOOSE a \in Depths : Stops(a)
  BY DEF depth_allocated_ptr
<1> HIDE DEF Stops
<1> QED
  BY <1>1, <1>6, <1>7, <1>8 DEF x, d

\* The block that a client gives back is found again with its depth.
LEMMA HeldBlock ==
  ASSUME IInv, NEW ptr \in DOMAIN held
  PROVE  \E h \in Ids : /\ global_id_to_ptr(h) = ptr
                        /\ IsHeld(h)
                        /\ depth_allocated_ptr(ptr) = global_id_to_depth(h)
                        /\ ptr_to_global_id(ptr, depth_allocated_ptr(ptr)) = h
                        /\ \A j \in Ids : IsHeld(j) /\ global_id_to_ptr(j) = ptr => j = h
<1>1. TypeOK /\ (\A j \in Ids : OneRole(j)) /\ \E j \in Ids : global_id_to_ptr(j) = ptr /\ IsHeld(j)
  BY Known
<1>2. PICK h \in Ids : global_id_to_ptr(h) = ptr /\ IsHeld(h)
  BY <1>1
<1>3. Closed /\ \A j \in Ids : IsHeld(j) => Leaf(j)
  BY <1>1, RoleFacts
<1>4. depth_allocated_ptr(ptr) = global_id_to_depth(h)
  BY <1>1, <1>2, <1>3, DepthOfLeaf DEF TypeOK
<1>5. ptr_to_global_id(ptr, depth_allocated_ptr(ptr)) = h
  BY <1>2, <1>4, IdFacts
<1>6. \A j \in Ids : IsHeld(j) /\ global_id_to_ptr(j) = ptr => j = h
  BY <1>2, <1>3, LeafStarts
<1> QED
  BY <1>2, <1>4, <1>5, <1>6

LEMMA FreeBeginsKeeps ==
  ASSUME IInv, NEW ptr \in Pointers, FreeBegins(ptr)
  PROVE  IInv'
<1>1. /\ pc = "idle" /\ pc' = "free" /\ ptr \in DOMAIN held
      /\ depth' = depth_allocated_ptr(ptr)
      /\ block' = ptr
      /\ block_id' = ptr_to_global_id(ptr, depth')
      /\ merge_index' = IsFreeFlipped(block_id')
      /\ held' = [p \in DOMAIN held \ {ptr} |-> held[p]]
      /\ answer' = [size |-> NULL, ptr |-> NULL]
      /\ levels' = levels /\ is_split_index' = is_split_index
      /\ requested_size' = requested_size /\ target_depth' = target_depth
  BY DEF FreeBegins, Answers
<1>2. TypeOK /\ Lists /\ MergeBitsExact /\ BuddiesMerged /\ \A j \in Ids : OneRole(j)
  BY Known
<1>3. PICK h \in Ids : /\ global_id_to_ptr(h) = ptr
                       /\ IsHeld(h)
                       /\ depth_allocated_ptr(ptr) = global_id_to_depth(h)
                       /\ ptr_to_global_id(ptr, depth_allocated_ptr(ptr)) = h
                       /\ \A j \in Ids : IsHeld(j) /\ global_id_to_ptr(j) = ptr => j = h
  BY <1>1, HeldBlock
<1>4. block_id' = h /\ depth' = global_id_to_depth(h) /\ depth' \in Depths /\ h \in Level(depth')
  BY <1>1, <1>3, IdFacts
<1>5. DOMAIN held' = DOMAIN held \ {ptr} /\ \A p \in DOMAIN held' : held'[p] = held[p]
  BY <1>1
<1>6. \A j \in Ids : IsHeld(j)' <=> IsHeld(j) /\ j # h
  <2> SUFFICES ASSUME NEW j \in Ids PROVE IsHeld(j)' <=> IsHeld(j) /\ j # h
    OBVIOUS
  <2>1. CASE global_id_to_ptr(j) = ptr
    BY <1>3, <1>5, <2>1 DEF IsHeld
  <2>2. CASE global_id_to_ptr(j) # ptr
    BY <1>3, <1>5, <2>2 DEF IsHeld
  <2> QED
    BY <2>1, <2>2
<1>7. \A j : ~ InHand(j) /\ (InHand(j)' <=> j = h)
  BY <1>1, <1>4 DEF InHand
<1>8. \A j : (Split(j)' <=> Split(j)) /\ (Exists(j)' <=> Exists(j)) /\ (InList(j)' <=> InList(j))
  BY <1>1, SplitsStay, ListsStay
<1>9. \A j \in Ids : OneRole(j)'
  BY <1>2, <1>3, <1>6, <1>7, <1>8 DEF OneRole
<1>10. merge_index' \in [Pairs -> {0, 1}] /\ MergeBitsExact'
  <2>1. \A j : (Free(j) <=> InList(j)) /\ (Free(j)' <=> InList(j) \/ j = h)
    BY <1>1, <1>4, <1>8 DEF Free
  <2>2. ~ InList(h)
    BY <1>2, <1>3 DEF OneRole
  <2>3. /\ Free(h)' <=> ~ Free(h)
        /\ \A j \in Ids \ {h} : Free(j)' <=> Free(j)
    BY <2>1, <2>2
  <2>4. merge_index \in [Pairs -> {0, 1}] /\ merge_index' = IsFreeFlipped(h)
    BY <1>1, <1>2, <1>4 DEF TypeOK
  <2> QED
    BY <1>2, <2>3, <2>4, FreeFlips
<1>11. BuddiesMerged'
  BY <1>2, <1>8 DEF BuddiesMerged
<1>12. TypeOK'
  <2>1. block_id' \in min_global_id_at_depth(depth') .. max_global_id_at_depth(depth')
        /\ block' = global_id_to_ptr(block_id')
    BY <1>1, <1>3, <1>4 DEF Level
  <2>2. DOMAIN held' \subseteq Pointers /\ \A p \in DOMAIN held' : \E d \in Depths : held'[p] = block_size_at_depth(d)
    BY <1>2, <1>5 DEF TypeOK
  <2>3. answer' \in [size : Requests \cup {NULL}, ptr : Pointers \cup {NULL}]
    BY <1>1
  <2> QED
    BY <1>1, <1>2, <1>4, <1>10, <2>1, <2>2, <2>3 DEF TypeOK
<1>13. ASSUME NEW p \in DOMAIN held' PROVE \E j \in Ids : global_id_to_ptr(j) = p /\ IsHeld(j)'
  <2>1. p \in DOMAIN held /\ p # ptr
    BY <1>5
  <2>2. \E j \in Ids : global_id_to_ptr(j) = p /\ IsHeld(j)
    BY <2>1, Known
  <2> QED
    BY <1>3, <1>6, <2>1, <2>2
<1>14. Lists'
  BY <1>1, <1>2, ListsStay
<1> QED
  BY <1>1, <1>9, <1>10, <1>11, <1>12, <1>13, <1>14, KnownNext

\* Only buddies have a parent in common.
LEMMA SameParent ==
  ASSUME NEW i \in Ids \ {0}, NEW j \in Ids \ {0}
  PROVE  parent_global_id(j) = parent_global_id(i) <=> j = i \/ j = buddy_global_id(i)
<1>1. /\ buddy_pair_unique_id(i) = parent_global_id(i) + 1 /\ parent_global_id(i) \in Nat
      /\ buddy_pair_unique_id(j) = parent_global_id(j) + 1 /\ parent_global_id(j) \in Nat
  BY PairOfId
<1>2. parent_global_id(j) = parent_global_id(i) <=> buddy_pair_unique_id(j) = buddy_pair_unique_id(i)
  BY <1>1
<1> QED
  BY <1>2, PairsDistinct

\* The loop of allocator_free trusts the bit of the pair, and may.
LEMMA BuddyOfBlockFree ==
  ASSUME IInv, pc = "free", depth > 0
  PROVE  /\ block_id # 0
         /\ block_is_free(block_id) = 0 <=> InList(buddy_global_id(block_id))
<1>1. TypeOK /\ BitsAgree
  BY Known, BitsPlain DEF TypeOK
<1>2. block_id \in Ids /\ block_id # 0 /\ buddy_pair_unique_id(block_id) \in Pairs
  <2>1. block_id \in Level(depth) /\ block_id \in Ids
    BY <1>1, BlockInHand
  <2> QED
    BY <1>1, <2>1, Root, PairInRange DEF TypeOK
<1>3. BitOf(block_id) <=> OneFree(block_id)
  BY <1>1, <1>2 DEF BitsAgree
<1>4. block_is_free(block_id) = 0 <=> ~ BitOf(block_id)
  BY <1>1, <1>2 DEF block_is_free, BitOf, TypeOK
<1>5. Free(block_id) /\ (Free(buddy_global_id(block_id)) <=> InList(buddy_global_id(block_id)))
  BY <1>2, Relatives DEF Free
<1> QED
  BY <1>2, <1>3, <1>4, <1>5 DEF OneFree

LEMMA FreeMergesKeeps ==
  ASSUME IInv, FreeMerges
  PROVE  IInv'
<1>0. PICK b, d : b = block_id /\ d = depth
  OBVIOUS
<1> DEFINE g == buddy_global_id(b)
           up == parent_global_id(b)
<1>1. /\ pc = "free" /\ pc' = "free" /\ depth > 0
      /\ block_is_free(block_id) = 0
      /\ levels' = Unlinked(global_id_to_ptr(g))
      /\ is_split_index' = ParentFlipped(b)
      /\ block_id' = up
      /\ block' = global_id_to_ptr(up)
      /\ depth' = d - 1
      /\ merge_index' = IsFreeFlipped(up)
      /\ requested_size' = requested_size /\ target_depth' = target_depth
      /\ held' = held /\ answer' = answer
  BY <1>0 DEF FreeMerges, client
<1>2. TypeOK /\ Lists /\ MergeBitsExact /\ BuddiesMerged /\ \A j \in Ids : OneRole(j)
  BY Known
<1>3. b \in Level(d) /\ b \in Ids \ {0} /\ d \in Depths /\ d > 0 /\ InList(g)
  BY <1>0, <1>1, <1>2, BlockInHand, BuddyOfBlockFree
<1>4. /\ g \in Level(d) /\ g \in Ids \ {0} /\ g # b
      /\ up \in InnerIds /\ up \in Ids /\ up # b /\ up # g
      /\ d - 1 \in Depths /\ up \in Level(d - 1)
      /\ buddy_global_id(g) = b
  <2>1. g \in Level(d) /\ g \in Ids \ {0} /\ g # b /\ up \in InnerIds /\ buddy_global_id(g) = b
    BY <1>3, Relatives, Buddy
  <2>2. d - 1 \in Depths /\ up \in Level(d - 1)
    BY <1>3, Parent
  <2>3. /\ global_id_to_depth(b) = d /\ global_id_to_depth(g) = d
        /\ global_id_to_depth(up) = d - 1 /\ up \in Ids
    BY <1>3, <2>1, <2>2, LevelDepth
  <2>4. d # d - 1
    BY <1>3, DepthFacts
  <2> QED
    BY <2>1, <2>2, <2>3, <2>4
<1>5. \A j \in Ids \ {0} : parent_global_id(j) = up <=> j = b \/ j = g
  BY <1>3, SameParent
<1> HIDE DEF g, up
<1>6. \A j : (InHand(j) <=> j = b) /\ (InHand(j)' <=> j = up)
  BY <1>0, <1>1 DEF InHand
<1>7. Closed /\ (\A j \in Ids : InList(j) => Leaf(j)) /\ Exists(b) /\ ~ InList(b) /\ ~ Split(b) /\ ~ IsHeld(b)
  BY <1>2, <1>3, <1>6, RoleFacts DEF OneRole
<1>8. Split(up) /\ Exists(up) /\ ~ InList(up) /\ ~ IsHeld(up)
  <2>1. Split(up)
    BY <1>3, <1>7 DEF Exists, Split, up
  <2> QED
    BY <1>2, <1>4, <2>1 DEF OneRole
<1>9. ~ Split(g) /\ ~ IsHeld(g)
  BY <1>2, <1>3, <1>4 DEF OneRole
<1>10. Lists' /\ \A j \in Ids : InList(j)' <=> InList(j) /\ j # g
  <2>1. \A j \in Ids : InList(j) /\ global_id_to_ptr(j) = global_id_to_ptr(g) => j = g
    BY <1>3, <1>4, <1>7, LeafStarts
  <2> QED
    BY <1>1, <1>2, <1>3, <1>4, <2>1, ListRemove
<1>11. /\ is_split_index' \in [InnerIds -> {0, 1}]
       /\ Split(up)' <=> ~ Split(up)
       /\ \A j : j # up => (Split(j)' <=> Split(j))
       /\ \A j : Exists(j)' <=> IF j # 0 /\ parent_global_id(j) = up
                                THEN ~ Split(up) ELSE Exists(j)
  <2>1. is_split_index' = Flipped(is_split_index, up)
    <3>1. ~ (b <= 0)
      BY <1>3 DEF Ids
    <3> QED
      BY <1>1, <3>1 DEF ParentFlipped, up
  <2> QED
    BY <1>2, <1>4, <2>1, SplitFlips DEF TypeOK
<1>12. \A j \in Ids : Exists(j)' <=> Exists(j) /\ j # b /\ j # g
  <2> SUFFICES ASSUME NEW j \in Ids PROVE Exists(j)' <=> Exists(j) /\ j # b /\ j # g
    OBVIOUS
  <2>1. CASE j = 0
    BY <1>3, <1>4, <1>11, <2>1
  <2>2. CASE j # 0
    BY <1>5, <1>8, <1>11, <2>2
  <2> QED
    BY <2>1, <2>2
<1>13. \A j : IsHeld(j)' <=> IsHeld(j)
  BY <1>1, HeldStays
<1>14. ASSUME NEW j \in Ids PROVE OneRole(j)'
  <2>1. CASE j = up
    BY <1>4, <1>6, <1>8, <1>10, <1>11, <1>12, <1>13, <2>1 DEF OneRole
  <2>2. CASE j = b
    BY <1>4, <1>6, <1>7, <1>10, <1>11, <1>12, <1>13, <2>2 DEF OneRole
  <2>3. CASE j = g
    BY <1>4, <1>6, <1>9, <1>10, <1>11, <1>12, <1>13, <2>3 DEF OneRole
  <2>4. CASE j # up /\ j # b /\ j # g
    <3>1. OneRole(j) /\ ~ InHand(j) /\ ~ InHand(j)'
      BY <1>2, <1>6, <2>4
    <3>2. (Split(j)' <=> Split(j)) /\ (Exists(j)' <=> Exists(j))
      BY <1>11, <1>12, <2>4
    <3>3. (InList(j)' <=> InList(j)) /\ (IsHeld(j)' <=> IsHeld(j))
      BY <1>10, <1>13, <2>4
    <3> QED
      BY <3>1, <3>2, <3>3 DEF OneRole
  <2> QED
    BY <2>1, <2>2, <2>3, <2>4
<1>15. merge_index' \in [Pairs -> {0, 1}] /\ MergeBitsExact'
  <2>1. \A j \in Ids : /\ Free(j) <=> InList(j) \/ j = b
                       /\ Free(j)' <=> (InList(j) /\ j # g) \/ j = up
    BY <1>0, <1>1, <1>10 DEF Free
  <2>2. /\ Free(b) /\ Free(g) /\ ~ Free(up)
        /\ ~ Free(b)' /\ ~ Free(g)' /\ Free(up)'
        /\ \A j \in Ids : j # b /\ j # g /\ j # up => (Free(j)' <=> Free(j))
    BY <1>3, <1>4, <1>7, <1>8, <2>1
  <2>3. /\ up = 0 => (Free(0)' <=> ~ Free(0))
        /\ up # 0 => (Free(0)' <=> Free(0))
    BY <1>3, <1>4, <2>2, Root
  <2>4. ASSUME up # 0 PROVE OneFree(up)' <=> ~ OneFree(up)
    <3>1. /\ buddy_global_id(up) \in Ids /\ buddy_global_id(up) # up
          /\ buddy_global_id(buddy_global_id(up)) = up
      BY <1>4, <2>4, Relatives
    <3>2. buddy_global_id(up) # b /\ buddy_global_id(up) # g
      BY <1>4, <3>1 DEF g
    <3> QED
      BY <2>2, <3>1, <3>2 DEF OneFree
  <2>5. ASSUME NEW j \in Ids \ {0}, j # up, j # buddy_global_id(up)
        PROVE  OneFree(j)' <=> OneFree(j)
    <3>1. /\ buddy_global_id(j) \in Ids \ {0} /\ buddy_global_id(j) # j
          /\ buddy_global_id(buddy_global_id(j)) = j
      BY Relatives
    <3>2. buddy_global_id(j) # up
      BY <2>5, <3>1
    <3>3. buddy_global_id(b) = g
      BY DEF g
    <3>4. CASE j = b
      BY <1>4, <2>2, <3>3, <3>4 DEF OneFree
    <3>5. CASE j = g
      BY <1>4, <2>2, <3>3, <3>5 DEF OneFree
    <3>6. CASE j # b /\ j # g
      <4>1. buddy_global_id(j) # b /\ buddy_global_id(j) # g
        BY <1>4, <3>1, <3>3, <3>6
      <4> QED
        BY <2>2, <2>5, <3>1, <3>2, <3>6, <4>1 DEF OneFree
    <3> QED
      BY <3>4, <3>5, <3>6
  <2>6. merge_index \in [Pairs -> {0, 1}]
    BY <1>2 DEF TypeOK
  <2> QED
    BY <1>1, <1>2, <1>4, <2>3, <2>4, <2>5, <2>6, MergeFlips
<1>16. BuddiesMerged'
  BY <1>2, <1>10, Relatives DEF BuddiesMerged
<1>17. TypeOK'
  <2>1. block_id' \in min_global_id_at_depth(depth') .. max_global_id_at_depth(depth')
        /\ depth' \in Depths
    BY <1>1, <1>4 DEF Level
  <2> QED
    BY <1>1, <1>2, <1>10, <1>11, <1>15, <2>1 DEF TypeOK, Lists
<1>18. \A p \in DOMAIN held' : \E j \in Ids : global_id_to_ptr(j) = p /\ IsHeld(j)'
  BY <1>1, <1>13, Known
<1> QED
  BY <1>1, <1>10, <1>14, <1>15, <1>16, <1>17, <1>18, KnownNext

LEMMA FreeReturnsKeeps ==
  ASSUME IInv, FreeReturns
  PROVE  IInv'
<1>0. PICK b : b = block_id
  OBVIOUS
<1>1. /\ pc = "free" /\ pc' = "idle"
      /\ depth <= 0 \/ block_is_free(block_id) # 0
      /\ levels' = Pushed(depth, block)
      /\ requested_size' = 0 /\ target_depth' = 0 /\ depth' = 0 /\ block' = 0 /\ block_id' = 0
      /\ is_split_index' = is_split_index /\ merge_index' = merge_index
      /\ held' = held /\ answer' = answer
  BY DEF FreeReturns, bits, client, NoLocals
<1>2. TypeOK /\ Lists /\ MergeBitsExact /\ BuddiesMerged /\ \A j \in Ids : OneRole(j)
  BY Known
<1>3. b \in Ids /\ b \in Level(depth) /\ depth \in Depths /\ block = global_id_to_ptr(b)
  BY <1>0, <1>2, BlockInHand
<1>4. \A j : (InHand(j) <=> j = b) /\ ~ InHand(j)'
  BY <1>0, <1>1 DEF InHand
<1>5. ~ InList(b) /\ Exists(b) /\ ~ Split(b) /\ ~ IsHeld(b)
  BY <1>2, <1>3, <1>4 DEF OneRole
<1>6. Lists' /\ \A j \in Ids : InList(j)' <=> InList(j) \/ j = b
  BY <1>1, <1>2, <1>3, <1>5, ListPush
<1>7. \A j : (Split(j)' <=> Split(j)) /\ (Exists(j)' <=> Exists(j)) /\ (IsHeld(j)' <=> IsHeld(j))
  BY <1>1, SplitsStay, HeldStays
<1>8. \A j \in Ids : OneRole(j)'
  BY <1>2, <1>4, <1>5, <1>6, <1>7 DEF OneRole
<1>9. b = 0 \/ ~ InList(buddy_global_id(b))
  <2>1. CASE depth <= 0
    <3>1. depth = 0
      BY <1>3, <2>1, DepthFacts
    <3> QED
      BY <1>3, <3>1, Root
  <2>2. CASE ~ (depth <= 0)
    <3>1. depth > 0
      BY <1>3, <2>2, DepthFacts
    <3> QED
      BY <1>0, <1>1, <2>2, <3>1, BuddyOfBlockFree
  <2> QED
    BY <2>1, <2>2
<1>10. MergeBitsExact'
  <2>1. \A j \in Ids : (Free(j) <=> InList(j) \/ j = b) /\ (Free(j)' <=> InList(j) \/ j = b)
    BY <1>0, <1>1, <1>6 DEF Free
  <2>2. BitsAgree
    BY <1>2, BitsPlain DEF TypeOK
  <2>3. /\ \A j : BitOf(j)' <=> BitOf(j)
        /\ \A j \in Ids \ {0} : OneFree(j)' <=> OneFree(j)
    BY <1>1, <2>1, Relatives DEF BitOf, OneFree
  <2>4. BitsAgree'
    BY <2>1, <2>2, <2>3, Root DEF BitsAgree
  <2>5. merge_index' \in [Pairs -> {0, 1}]
    BY <1>1, <1>2 DEF TypeOK
  <2> QED
    BY <2>4, <2>5, BitsPlainNext
<1>11. BuddiesMerged'
  <2> SUFFICES ASSUME NEW j \in Ids \ {0}, InList(j)', InList(buddy_global_id(j))'
               PROVE  FALSE
    BY DEF BuddiesMerged
  <2>1. /\ buddy_global_id(j) \in Ids \ {0} /\ buddy_global_id(buddy_global_id(j)) = j
        /\ buddy_global_id(j) # j
    BY Relatives
  <2>2. CASE j = b
    BY <1>6, <1>9, <2>1, <2>2
  <2>3. CASE buddy_global_id(j) = b
    BY <1>6, <1>9, <2>1, <2>3
  <2>4. CASE j # b /\ buddy_global_id(j) # b
    BY <1>2, <1>6, <2>1, <2>4 DEF BuddiesMerged
  <2> QED
    BY <2>2, <2>3, <2>4
<1>12. TypeOK'
  <2>1. 0 \in min_global_id_at_depth(0) .. max_global_id_at_depth(0) /\ 0 = global_id_to_ptr(0)
        /\ 0 \in Depths
    BY Root, MemoryFacts DEF Level
  <2> QED
    BY <1>1, <1>2, <1>6, <2>1 DEF TypeOK, Lists
<1>13. \A p \in DOMAIN held' : \E j \in Ids : global_id_to_ptr(j) = p /\ IsHeld(j)'
  BY <1>1, <1>7, Known
<1> QED
  BY <1>1, <1>6, <1>8, <1>10, <1>11, <1>12, <1>13, KnownNext

LEMMA NextKeeps == IInv /\ [Next]_vars => IInv'
<1> SUFFICES ASSUME IInv, [Next]_vars PROVE IInv'
  OBVIOUS
<1>1. ASSUME NEW request \in Requests, MallocRefuses(request) \/ MallocExhausted(request)
      PROVE  IInv'
  BY <1>1, RefusalKeeps
<1>2. ASSUME NEW request \in Requests, MallocTakes(request) PROVE IInv'
  BY <1>2, MallocTakesKeeps
<1>3. CASE FreeIgnores(NULL) \/ FreeIgnores(MAX_ALLOC)
  BY <1>3, StutterKeeps DEF FreeIgnores
<1>4. ASSUME NEW ptr \in Pointers, FreeBegins(ptr) PROVE IInv'
  BY <1>4, FreeBeginsKeeps
<1>5. CASE CallStep
  BY <1>5, MallocSplitsKeeps, MallocReturnsKeeps, FreeMergesKeeps, FreeReturnsKeeps DEF CallStep
<1>6. CASE UNCHANGED vars
  BY <1>6, StutterKeeps
<1> QED
  BY <1>1, <1>2, <1>3, <1>4, <1>5, <1>6 DEF Next

\* The inductive invariant holds of every history of calls of allocator_malloc
\* and allocator_free (4_3.c:150-216): each block is split, free, with a client or
\* in hand, the lists hold the blocks of their depth once, and every pair's bit
\* says whether one of the two is free.
THEOREM AlwaysSound == Spec => []IInv
BY Begins, NextKeeps, PTL DEF Spec

-------------------------------------------------------------------------------
(* Between two calls a memory that no client uses is one block *)

\* Two bytes in one block are in one block at every level above it.
LEMMA SameAbove ==
  ASSUME NEW x \in Pointers, NEW y \in Pointers, NEW e \in Depths,
         ptr_to_global_id(x, e) = ptr_to_global_id(y, e), NEW t \in Depths, t <= e
  PROVE  ptr_to_global_id(x, t) = ptr_to_global_id(y, t)
<1> DEFINE Bad == {d \in Depths : /\ d <= e
                                  /\ ptr_to_global_id(x, d) # ptr_to_global_id(y, d)}
           Gaps == {e - d : d \in Bad}
<1>0. \A d \in Depths : d \in Nat
  BY DepthFacts
<1> SUFFICES ASSUME Bad # {} PROVE FALSE
  BY <1>0
<1>1. Gaps \subseteq Nat /\ Gaps # {}
  BY <1>0
<1>2. PICK n \in Gaps : \A m \in Gaps : n <= m
  BY <1>1, LeastElement
<1>3. PICK d \in Bad : n = e - d
  BY <1>2
<1>4. d \in Depths /\ d \in Nat /\ e \in Nat /\ d <= e
      /\ ptr_to_global_id(x, d) # ptr_to_global_id(y, d)
  BY <1>0, <1>3
<1>5. d < e
  BY <1>4
<1>6. d + 1 \in Depths /\ d + 1 <= e /\ d + 1 > 0 /\ (d + 1) - 1 = d /\ ~ (e - d <= e - (d + 1))
  BY <1>4, <1>5, DepthFacts
<1>7. ptr_to_global_id(x, d + 1) = ptr_to_global_id(y, d + 1)
  <2>1. e - (d + 1) \notin Gaps
    BY <1>2, <1>3, <1>6
  <2>2. d + 1 \notin Bad
    BY <2>1
  <2> QED
    BY <1>6, <2>2
<1>8. /\ parent_global_id(ptr_to_global_id(x, d + 1)) = ptr_to_global_id(x, d)
      /\ parent_global_id(ptr_to_global_id(y, d + 1)) = ptr_to_global_id(y, d)
  BY <1>6, AroundParent
<1> QED
  BY <1>4, <1>7, <1>8

\* Whether block id is block v of depth t or a part of it.
Within(id, v, t) ==
  /\ id \in Ids
  /\ t <= global_id_to_depth(id)
  /\ ptr_to_global_id(global_id_to_ptr(id), t) = v

\* A split block contains two buddies that are leaves.
LEMMA DeepestSplit ==
  ASSUME NEW t \in Depths, NEW v \in Level(t), Split(v)
  PROVE  \E i \in Ids \ {0} : /\ Leaf(i) /\ Within(i, v, t)
                              /\ Leaf(buddy_global_id(i)) /\ Within(buddy_global_id(i), v, t)
<1> DEFINE D == {id \in InnerIds : Split(id) /\ Within(id, v, t)}
           Gaps == {max_global_id - id : id \in D}
<1>0. InnerIds \subseteq Ids /\ t \in Nat /\ \A d \in Depths : d \in Nat
  BY Inner, DepthFacts
<1>1. v \in D
  <2>1. v \in InnerIds
    BY DEF Split, block_is_split
  <2>2. v \in Ids /\ global_id_to_depth(v) = t /\ ptr_to_global_id(global_id_to_ptr(v), t) = v
    BY LevelDepth
  <2> QED
    BY <1>0, <2>1, <2>2 DEF Within
<1>2. max_global_id \in Int /\ \A id \in Ids : id \in Nat /\ id <= max_global_id
  <2>1. max_allocator_depth \in Depths
    BY DepthFacts
  <2>2. max_global_id = 2 * Pow2[max_allocator_depth] - 2 /\ Pow2[max_allocator_depth] \in Nat
    BY <2>1, LevelBounds DEF max_global_id
  <2> QED
    BY <2>2 DEF Ids
<1>3. Gaps \subseteq Nat /\ Gaps # {}
  BY <1>0, <1>1, <1>2
<1>4. PICK n \in Gaps : \A m \in Gaps : n <= m
  BY <1>3, LeastElement
<1>5. PICK id \in D : n = max_global_id - id
  BY <1>4
<1>6. \A j \in D : j <= id
  <2> SUFFICES ASSUME NEW j \in D PROVE j <= id
    OBVIOUS
  <2>1. max_global_id - id <= max_global_id - j
    BY <1>4, <1>5
  <2>2. j \in Int /\ id \in Int
    BY <1>0, <1>2
  <2> QED
    BY <1>2, <2>1, <2>2
<1> DEFINE d == global_id_to_depth(id)
           left == left_child_global_id(id)
           right == right_child_global_id(id)
<1>7. id \in InnerIds /\ Split(id) /\ Within(id, v, t) /\ id \in Ids /\ id \in Nat
  BY <1>0, <1>2, <1>5
<1>8. d \in Depths /\ id \in Level(d) /\ d < max_allocator_depth /\ d + 1 \in Depths /\ t <= d
  BY <1>7, IdFacts, Inner, SizesHalve DEF Within
<1>9. /\ left \in Level(d + 1) /\ right \in Level(d + 1) /\ left > 0
      /\ parent_global_id(left) = id /\ parent_global_id(right) = id
      /\ buddy_global_id(left) = right
  BY <1>8, Children
<1>10. id < left /\ id < right /\ left # 0 /\ right # 0
  BY <1>7 DEF left_child_global_id, right_child_global_id
<1> HIDE DEF D, d, left, right
<1>11. ASSUME NEW j \in Level(d + 1), parent_global_id(j) = id, id < j, j # 0
       PROVE  Leaf(j) /\ Within(j, v, t)
  <2>1. /\ j \in Ids /\ global_id_to_depth(j) = d + 1 /\ global_id_to_ptr(j) \in Pointers
        /\ ptr_to_global_id(global_id_to_ptr(j), d + 1) = j
    BY <1>8, LevelDepth
  <2>2. d + 1 > 0 /\ (d + 1) - 1 = d /\ t <= d + 1
    BY <1>0, <1>8
  <2>3. ptr_to_global_id(global_id_to_ptr(j), d) = id
    BY <1>8, <1>11, <2>1, <2>2, AroundParent
  <2>4. ptr_to_global_id(global_id_to_ptr(id), d) = id /\ global_id_to_ptr(id) \in Pointers
    BY <1>7, IdFacts DEF d
  <2>5. ptr_to_global_id(global_id_to_ptr(j), t) = v
    BY <1>7, <1>8, <2>1, <2>3, <2>4, SameAbove DEF Within
  <2>6. Within(j, v, t)
    BY <2>1, <2>2, <2>5 DEF Within
  <2>7. ~ Split(j)
    <3> SUFFICES ASSUME Split(j) PROVE FALSE
      OBVIOUS
    <3>1. j \in InnerIds
      BY DEF Split, block_is_split
    <3>2. j <= id
      BY <1>6, <2>6, <3>1 DEF D
    <3> QED
      BY <1>2, <1>7, <1>11, <2>1, <3>2
  <2>8. Exists(j)
    BY <1>7, <1>11 DEF Exists, Split
  <2> QED
    BY <2>1, <2>6, <2>7, <2>8 DEF Leaf
<1>12. Leaf(left) /\ Within(left, v, t) /\ Leaf(right) /\ Within(right, v, t)
  BY <1>9, <1>10, <1>11
<1> QED
  BY <1>9, <1>10, <1>12 DEF Leaf

LEMMA ComesBack == IInv => EverythingComesBack
<1> SUFFICES ASSUME IInv, pc = "idle", DOMAIN held = {}
             PROVE  /\ levels = [d \in Depths |-> IF d = 0 THEN <<0>> ELSE <<>>]
                    /\ \A id \in InnerIds : is_split_index[id] = 0
                    /\ \A p \in Pairs : merge_index[p] = 0
  BY DEF EverythingComesBack
<1>1. TypeOK /\ Lists /\ BitsAgree /\ BuddiesMerged /\ \A j \in Ids : OneRole(j)
  BY Known, BitsPlain DEF TypeOK
<1>2. Closed /\ (\A j \in Ids : InList(j) => Leaf(j)) /\ (\A j : Leaf(j) => InList(j))
  BY <1>1, RoleFacts DEF IsHeld, InHand
<1>3. \A j \in Ids : ~ Split(j)
  <2> SUFFICES ASSUME NEW j \in Ids, Split(j) PROVE FALSE
    OBVIOUS
  <2> DEFINE x == global_id_to_ptr(j)
             e == global_id_to_depth(j)
  <2>1. x \in Pointers /\ e \in Depths /\ ptr_to_global_id(x, e) = j /\ Exists(j) /\ j \in Level(e)
    BY <1>2, IdFacts DEF Closed
  <2>2. 0 \in Depths /\ ptr_to_global_id(x, 0) = 0 /\ 0 \in Level(0)
    BY <2>1, Around, Root, MemoryFacts
  <2> HIDE DEF x, e
  <2>3. Split(0)
    <3>1. CASE e = 0
      BY <2>1, <3>1, Root
    <3>2. CASE e # 0
      <4>1. 0 < e /\ 0 <= e
        BY <2>1, <3>2, DepthFacts
      <4> QED
        BY <1>2, <2>1, <2>2, <4>1, ExistsUpward
    <3> QED
      BY <3>1, <3>2
  <2>4. PICK i \in Ids \ {0} : Leaf(i) /\ Leaf(buddy_global_id(i))
    BY <2>2, <2>3, DeepestSplit
  <2> QED
    BY <1>1, <1>2, <2>4 DEF BuddiesMerged
<1>4. \A j \in Ids : InList(j) <=> j = 0
  <2>1. Leaf(0)
    BY <1>3, Root DEF Leaf, Exists
  <2>2. ASSUME NEW j \in Ids \ {0} PROVE ~ Exists(j)
    <3>1. parent_global_id(j) \in Ids
      BY Relatives, Inner
    <3> QED
      BY <1>3, <3>1 DEF Exists, Split
  <2> QED
    BY <1>2, <2>1, <2>2 DEF Leaf
<1>5. levels = [d \in Depths |-> IF d = 0 THEN <<0>> ELSE <<>>]
  <2>1. ASSUME NEW d \in Depths, NEW p \in Range(levels[d]) PROVE d = 0 /\ p = 0
    <3>1. Range(levels[d]) \subseteq Starts(d)
      BY <1>1, RangeIs DEF Lists
    <3>2. PICK j \in Level(d) : p = global_id_to_ptr(j)
      BY <3>1 DEF Starts
    <3>3. j \in Ids /\ global_id_to_depth(j) = d /\ InList(j)
      BY <3>2, LevelDepth DEF InList
    <3>4. j = 0
      BY <1>4, <3>3
    <3> QED
      BY <3>2, <3>3, <3>4, Root
  <2>2. 0 \in Range(levels[0]) /\ 0 \in Depths
    <3>1. InList(0)
      BY <1>4, Root
    <3> QED
      BY <3>1, Root, MemoryFacts DEF InList
  <2>3. \A d \in Depths : levels[d] \in Seq(Starts(d)) /\ IsInjective(levels[d])
    BY <1>1 DEF Lists, ListedOnce
  <2>4. ASSUME NEW d \in Depths, d # 0 PROVE levels[d] = <<>>
    <3>1. Range(levels[d]) = {}
      BY <2>1, <2>4
    <3> QED
      BY <2>3, <3>1, RangeOfNone
  <2>5. levels[0] = <<0>>
    <3>1. Range(levels[0]) = {0}
      BY <2>1, <2>2
    <3> QED
      BY <2>2, <2>3, <3>1, RangeOfOne
  <2>6. levels \in [Depths -> Seq(Pointers)]
    BY <1>1 DEF Lists
  <2> QED
    BY <2>4, <2>5, <2>6
<1>6. ASSUME NEW id \in InnerIds PROVE is_split_index[id] = 0
  <2>1. is_split_index[id] \in {0, 1}
    BY <1>1 DEF TypeOK
  <2>2. is_split_index[id] # 1
    BY <1>3, Inner DEF Split, block_is_split
  <2> QED
    BY <2>1, <2>2
<1>7. \A j \in Ids : Free(j) <=> j = 0
  BY <1>4 DEF Free
<1>8. ASSUME NEW p \in Pairs PROVE merge_index[p] = 0
  <2>1. merge_index[p] \in {0, 1}
    BY <1>1 DEF TypeOK
  <2>2. CASE p = 0
    BY <1>1, <1>7, <2>1, <2>2, Root, PairOfId DEF BitsAgree, BitOf
  <2>3. CASE p # 0
    <3> DEFINE j == 2 * p - 1
    <3>1. max_global_id \in Nat
      <4>1. max_allocator_depth \in Depths
        BY DepthFacts
      <4> QED
        BY <4>1, LevelBounds DEF max_global_id
    <3>2. p \in Nat /\ p >= 1 /\ p <= (max_global_id + 1) \div 2
      BY <2>3, <3>1 DEF Pairs, max_buddy_pair_unique_id, buddy_pair_unique_id
    <3>3. j \in 1 .. max_global_id /\ (j + 1) \div 2 = p
      BY <3>1, <3>2
    <3>4. j \in Ids \ {0} /\ buddy_pair_unique_id(j) = p
      BY <3>1, <3>3 DEF Ids, buddy_pair_unique_id
    <3>5. ~ OneFree(j)
      BY <1>7, <3>4, Relatives DEF OneFree
    <3> QED
      BY <1>1, <2>1, <3>4, <3>5 DEF BitsAgree, BitOf
  <2> QED
    BY <2>2, <2>3
<1> QED
  BY <1>5, <1>6, <1>8

-------------------------------------------------------------------------------
(* The memory is cut into the leaves of the tree *)

RegionOf(id) == Region(global_id_to_ptr(id), block_size_at_depth(global_id_to_depth(id)))

\* Leaves have no byte in common, and every leaf has some.
LEMMA RegionsApart ==
  ASSUME Closed, NEW i, NEW j, Leaf(i), Leaf(j)
  PROVE  /\ RegionOf(i) \subseteq Pointers
         /\ RegionOf(i) # {}
         /\ i # j => RegionOf(i) \cap RegionOf(j) = {}
<1>1. i \in Ids /\ j \in Ids
  BY DEF Leaf
<1>2. \A x : /\ x \in RegionOf(i) <=> x \in Pointers /\ ptr_to_global_id(x, global_id_to_depth(i)) = i
             /\ x \in RegionOf(j) <=> x \in Pointers /\ ptr_to_global_id(x, global_id_to_depth(j)) = j
  BY <1>1, IdFacts, RegionIsAround DEF RegionOf
<1>3. global_id_to_ptr(i) \in RegionOf(i)
  BY <1>1, <1>2, IdFacts
<1>4. ASSUME NEW x \in RegionOf(i), x \in RegionOf(j) PROVE i = j
  <2>1. /\ x \in Pointers
        /\ ptr_to_global_id(x, global_id_to_depth(i)) = i
        /\ ptr_to_global_id(x, global_id_to_depth(j)) = j
    BY <1>2, <1>4
  <2>2. global_id_to_depth(i) = global_id_to_depth(j)
    BY <1>1, <2>1, IdFacts, LeavesApart
  <2> QED
    BY <2>1, <2>2
<1> QED
  BY <1>2, <1>3, <1>4

LEMMA Partitioned == IInv => MemoryPartitioned
<1> SUFFICES ASSUME IInv PROVE MemoryPartitioned
  OBVIOUS
<1> DEFINE regions == ListedRegions \cup HeldRegions \cup RegionInHand
<1>1. TypeOK /\ Lists /\ \A j \in Ids : OneRole(j)
  BY Known
<1>2. /\ Closed
      /\ \A j \in Ids : InList(j) \/ IsHeld(j) \/ InHand(j) => Leaf(j)
      /\ \A j : Leaf(j) => InList(j) \/ IsHeld(j) \/ InHand(j)
  BY <1>1, RoleFacts
<1>3. \A r : r \in ListedRegions <=> \E j \in Ids : InList(j) /\ r = RegionOf(j)
  <2>1. ASSUME NEW d \in Depths, NEW p \in Range(levels[d])
        PROVE  \E j \in Ids : InList(j) /\ Region(p, block_size_at_depth(d)) = RegionOf(j)
    <3>1. Range(levels[d]) \subseteq Starts(d)
      BY <1>1, RangeIs DEF Lists
    <3>2. PICK j \in Level(d) : p = global_id_to_ptr(j)
      BY <3>1 DEF Starts
    <3>3. j \in Ids /\ global_id_to_depth(j) = d /\ InList(j)
      BY <3>2, LevelDepth DEF InList
    <3> QED
      BY <3>2, <3>3 DEF RegionOf
  <2>2. ASSUME NEW j \in Ids, InList(j)
        PROVE  \E d \in Depths : \E p \in Range(levels[d]) : RegionOf(j) = Region(p, block_size_at_depth(d))
    BY <2>2, IdFacts DEF InList, RegionOf
  <2>3. \A r : r \in ListedRegions
                 <=> \E d \in Depths : \E p \in Range(levels[d]) : r = Region(p, block_size_at_depth(d))
    BY DEF ListedRegions
  <2> QED
    BY <2>1, <2>2, <2>3
<1>4. \A r : r \in HeldRegions <=> \E j \in Ids : IsHeld(j) /\ r = RegionOf(j)
  <2>1. ASSUME NEW p \in DOMAIN held
        PROVE  \E j \in Ids : IsHeld(j) /\ Region(p, held[p]) = RegionOf(j)
    <3>1. PICK j \in Ids : global_id_to_ptr(j) = p /\ IsHeld(j)
      BY Known
    <3> QED
      BY <3>1 DEF IsHeld, RegionOf
  <2>2. ASSUME NEW j \in Ids, IsHeld(j)
        PROVE  \E p \in DOMAIN held : RegionOf(j) = Region(p, held[p])
    BY <2>2 DEF IsHeld, RegionOf
  <2>3. \A r : r \in HeldRegions <=> \E p \in DOMAIN held : r = Region(p, held[p])
    BY DEF HeldRegions
  <2> QED
    BY <2>1, <2>2, <2>3
<1>5. \A r : r \in RegionInHand <=> \E j \in Ids : InHand(j) /\ r = RegionOf(j)
  <2>1. /\ block_id \in Ids /\ global_id_to_depth(block_id) = depth
        /\ block = global_id_to_ptr(block_id)
    BY <1>1, BlockInHand
  <2>2. CASE pc = "idle"
    BY <2>2 DEF RegionInHand, InHand
  <2>3. CASE pc # "idle"
    BY <2>1, <2>3 DEF RegionInHand, InHand, RegionOf
  <2> QED
    BY <2>2, <2>3
<1> HIDE DEF regions
<1>6. \A r : r \in regions <=> \E j : Leaf(j) /\ r = RegionOf(j)
  <2>1. \A r : r \in regions <=> r \in ListedRegions \/ r \in HeldRegions \/ r \in RegionInHand
    BY DEF regions
  <2>2. \A j : Leaf(j) <=> j \in Ids /\ (InList(j) \/ IsHeld(j) \/ InHand(j))
    BY <1>2 DEF Leaf
  <2> QED
    BY <1>3, <1>4, <1>5, <2>1, <2>2
<1>7. UNION regions = Pointers
  <2>1. UNION regions \subseteq Pointers
    BY <1>2, <1>6, RegionsApart
  <2>2. ASSUME NEW x \in Pointers PROVE x \in UNION regions
    <3>1. PICK d \in Depths : Leaf(ptr_to_global_id(x, d))
      BY LeafAround
    <3> DEFINE j == ptr_to_global_id(x, d)
    <3>2. j \in Level(d) /\ global_id_to_depth(j) = d
      BY Around
    <3>3. x \in RegionOf(j)
      BY <3>2, RegionIsAround DEF RegionOf
    <3>4. RegionOf(j) \in regions
      BY <1>6, <3>1
    <3> QED
      BY <3>3, <3>4
  <2> QED
    BY <2>1, <2>2
<1>8. \A r, s \in regions : r # s => r \cap s = {}
  <2> SUFFICES ASSUME NEW r \in regions, NEW s \in regions, r # s PROVE r \cap s = {}
    OBVIOUS
  <2>1. PICK i : Leaf(i) /\ r = RegionOf(i)
    BY <1>6
  <2>2. PICK j : Leaf(j) /\ s = RegionOf(j)
    BY <1>6
  <2>3. i # j
    BY <2>1, <2>2
  <2> QED
    BY <1>2, <2>1, <2>2, <2>3, RegionsApart
<1>9. \A i, j \in Ids : Leaf(i) /\ Leaf(j) /\ RegionOf(i) = RegionOf(j) => i = j
  <2> SUFFICES ASSUME NEW i \in Ids, NEW j \in Ids, Leaf(i), Leaf(j), RegionOf(i) = RegionOf(j), i # j
               PROVE  FALSE
    OBVIOUS
  <2>1. RegionOf(i) # {} /\ RegionOf(i) \cap RegionOf(j) = {}
    BY <1>2, RegionsApart
  <2> QED
    BY <2>1
<1>10. ListedRegions \cap HeldRegions = {}
  <2> SUFFICES ASSUME NEW r \in ListedRegions, r \in HeldRegions PROVE FALSE
    OBVIOUS
  <2>1. PICK i \in Ids : InList(i) /\ r = RegionOf(i)
    BY <1>3
  <2>2. PICK j \in Ids : IsHeld(j) /\ r = RegionOf(j)
    BY <1>4
  <2>3. i = j
    BY <1>2, <1>9, <2>1, <2>2
  <2> QED
    BY <1>1, <2>1, <2>2, <2>3 DEF OneRole
<1>11. RegionInHand \cap (ListedRegions \cup HeldRegions) = {}
  <2> SUFFICES ASSUME NEW r \in RegionInHand, r \in ListedRegions \/ r \in HeldRegions PROVE FALSE
    OBVIOUS
  <2>1. PICK i \in Ids : InHand(i) /\ r = RegionOf(i)
    BY <1>5
  <2>2. PICK j \in Ids : (InList(j) \/ IsHeld(j)) /\ r = RegionOf(j)
    BY <1>3, <1>4
  <2>3. i = j
    BY <1>2, <1>9, <2>1, <2>2
  <2> QED
    BY <1>1, <2>1, <2>2, <2>3 DEF OneRole
<1> QED
  BY <1>7, <1>8, <1>10, <1>11 DEF MemoryPartitioned, regions

-------------------------------------------------------------------------------
(* Refinement *)

BlockSizes == {block_size_at_depth(d) : d \in Depths}

\* The loop of depth_for_request finds the smallest block that is large enough.
LEMMA ClassOf ==
  ASSUME NEW request \in Nat, request <= MAX_ALLOC
  PROVE  Abstract!Class(request) = block_size_at_depth(depth_for_request(request))
<1> DEFINE D == depth_for_request(request)
           s == block_size_at_depth(D)
           Best(a) == a >= request /\ \A b \in BlockSizes : b >= request => a <= b
<1>1. D \in Depths /\ \A d \in Depths : d \in Nat
  BY RequestHasDepth, DepthFacts
<1>2. request <= s /\ (D = max_allocator_depth \/ block_size_at_depth(D + 1) < request)
  BY <1>1, DepthOfRequest
<1>3. \A d \in Depths : block_size_at_depth(d) \in Nat
  BY SizeFacts
<1>4. ASSUME NEW e \in Depths, block_size_at_depth(e) >= request PROVE s <= block_size_at_depth(e)
  <2>1. CASE e = D
    BY <1>3, <2>1
  <2>2. CASE e < D
    <3>1. block_size_at_depth(e) >= 2 * block_size_at_depth(D)
      BY <1>1, <2>2, SizesShrink
    <3> QED
      BY <1>1, <1>3, <3>1
  <2>3. CASE e > D
    <3>1. D # max_allocator_depth /\ D + 1 \in Depths /\ (e = D + 1 \/ D + 1 < e)
      BY <1>1, <2>3, DepthFacts
    <3>2. block_size_at_depth(e) <= block_size_at_depth(D + 1)
      <4>1. CASE e = D + 1
        BY <1>3, <4>1
      <4>2. CASE D + 1 < e
        <5>1. block_size_at_depth(D + 1) >= 2 * block_size_at_depth(e)
          BY <3>1, <4>2, SizesShrink
        <5>2. block_size_at_depth(D + 1) \in Nat /\ block_size_at_depth(e) \in Nat
          BY <1>3, <3>1
        <5> QED
          BY <5>1, <5>2
      <4> QED
        BY <3>1, <4>1, <4>2
    <3>3. block_size_at_depth(D + 1) \in Nat /\ block_size_at_depth(e) \in Nat
      BY <1>3, <3>1
    <3> QED
      BY <1>2, <1>4, <3>1, <3>2, <3>3
  <2>4. e \in Nat /\ D \in Nat
    BY <1>1
  <2> QED
    BY <2>1, <2>2, <2>3, <2>4
<1> HIDE DEF D
<1>5. s \in BlockSizes /\ Best(s)
  BY <1>1, <1>2, <1>3, <1>4 DEF BlockSizes
<1>6. \A a \in BlockSizes : Best(a) => a = s
  <2> SUFFICES ASSUME NEW a \in BlockSizes, Best(a) PROVE a = s
    OBVIOUS
  <2>1. a \in Nat /\ s \in Nat
    BY <1>1, <1>3 DEF BlockSizes
  <2>2. a <= s /\ s <= a
    BY <1>5
  <2> QED
    BY <2>1, <2>2
<1>7. Abstract!Class(request) = CHOOSE a \in BlockSizes : Best(a)
  BY DEF Abstract!Class, BlockSizes
<1> HIDE DEF Best, s
<1>8. Abstract!Class(request) = s
  BY <1>5, <1>6, <1>7
<1> QED
  BY <1>8 DEF D, s

\* The starts of the blocks of a depth are the multiples of their size.
LEMMA StartsAligned ==
  ASSUME NEW d \in Depths
  PROVE  Abstract!Aligned(block_size_at_depth(d)) = Starts(d)
<1> DEFINE s == block_size_at_depth(d)
<1>1. s \in Nat /\ s >= 1 /\ MAX_ALLOC \in Nat
  BY SizeFacts, MemoryFacts
<1>2. ASSUME NEW id \in Level(d) PROVE global_id_to_ptr(id) \in Abstract!Aligned(s)
  <2> DEFINE i == id - (Pow2[d] - 1)
  <2>1. i \in Nat
    BY LevelBounds
  <2>2. global_id_to_ptr(id) = i * s + 0
    BY <1>1, <2>1, PtrOfId
  <2>3. (i * s + 0) % s = 0
    BY <1>1, <2>1, Remainder
  <2>4. global_id_to_ptr(id) \in 0 .. MAX_ALLOC - 1 /\ global_id_to_ptr(id) + s <= MAX_ALLOC
    BY LevelDepth DEF Pointers
  <2> HIDE DEF i, s
  <2> QED
    BY <2>2, <2>3, <2>4 DEF Abstract!Aligned
<1>3. ASSUME NEW p \in Abstract!Aligned(s) PROVE p \in Starts(d)
  <2>1. p \in Pointers /\ p \in Nat /\ p % s = 0
    BY <1>1, <1>3 DEF Abstract!Aligned, Pointers
  <2> DEFINE id == ptr_to_global_id(p, d)
             i == id - (Pow2[d] - 1)
  <2>2. id \in Level(d) /\ global_id_to_ptr(id) <= p /\ p < global_id_to_ptr(id) + s
    BY <2>1, Around
  <2>3. i \in Nat /\ global_id_to_ptr(id) = i * s
    BY <2>2, LevelBounds, PtrOfId
  <2> HIDE DEF id, i, s
  <2>4. p \div s = i
    BY <1>1, <2>1, <2>2, <2>3, Quotient
  <2>5. p = s * (p \div s) + (p % s)
    BY <1>1, <2>1, Division
  <2>6. p = i * s
    BY <1>1, <2>1, <2>3, <2>4, <2>5
  <2> QED
    BY <2>2, <2>3, <2>6 DEF Starts
<1> QED
  BY <1>2, <1>3 DEF Starts

\* A block that a client holds, in bytes.
LEMMA HeldBytes ==
  ASSUME IInv, NEW q \in DOMAIN held
  PROVE  \E j \in Ids : /\ IsHeld(j) /\ Leaf(j) /\ q = global_id_to_ptr(j)
                        /\ held[q] = block_size_at_depth(global_id_to_depth(j))
                        /\ q \in Nat /\ held[q] \in Nat /\ held[q] >= 1
                        /\ \A x : x \in RegionOf(j) <=> x \in Int /\ q <= x /\ x < q + held[q]
<1>1. (\A j \in Ids : OneRole(j)) /\ \E j \in Ids : global_id_to_ptr(j) = q /\ IsHeld(j)
  BY Known
<1>2. PICK j \in Ids : global_id_to_ptr(j) = q /\ IsHeld(j)
  BY <1>1
<1>3. Leaf(j)
  BY <1>1, <1>2, RoleFacts
<1>4. held[q] = block_size_at_depth(global_id_to_depth(j))
  BY <1>2 DEF IsHeld
<1>5. q \in Nat /\ held[q] \in Nat /\ held[q] >= 1
  BY <1>2, <1>4, IdFacts, SizeFacts, MemoryFacts DEF Pointers
<1>6. \A x : x \in RegionOf(j) <=> x \in Int /\ q <= x /\ x < q + held[q]
  BY <1>2, <1>4, <1>5 DEF RegionOf, Region
<1> QED
  BY <1>2, <1>3, <1>4, <1>5, <1>6

\* What allocator_malloc returns is vacant and of the size asked for.
LEMMA ReturnsImplement ==
  ASSUME IInv, MallocReturns
  PROVE  \E request \in Requests : Abstract!Malloc(request)
<1>1. /\ pc = "malloc"
      /\ depth >= target_depth
      /\ held' = [p \in DOMAIN held \cup {block} |->
                    IF p = block THEN block_size_at_depth(depth) ELSE held[p]]
      /\ answer' = [size |-> requested_size, ptr |-> block]
  BY DEF MallocReturns, Answers
<1>2. TypeOK /\ (\A j \in Ids : OneRole(j))
      /\ requested_size \in Requests /\ target_depth = depth_for_request(requested_size)
      /\ depth <= target_depth
  BY <1>1, Known
<1>3. /\ block_id \in Level(depth) /\ block_id \in Ids /\ depth \in Depths
      /\ global_id_to_depth(block_id) = depth /\ block = global_id_to_ptr(block_id)
  BY <1>2, BlockInHand
<1>4. depth = depth_for_request(requested_size) /\ requested_size \in Nat /\ requested_size <= MAX_ALLOC
  <2>1. target_depth \in Nat /\ depth \in Nat /\ requested_size \in Nat /\ MAX_ALLOC \in Nat
    BY <1>2, <1>3, DepthFacts, RequestsAssumption, MemoryFacts DEF TypeOK
  <2>2. depth = target_depth
    BY <1>1, <1>2, <2>1
  <2>3. ~ (requested_size > MAX_ALLOC)
    BY <1>2, <2>1, RequestHasDepth
  <2> QED
    BY <1>2, <2>1, <2>2, <2>3
<1> DEFINE s == block_size_at_depth(depth)
<1>5. Abstract!Class(requested_size) = s
  BY <1>4, ClassOf
<1>6. block \in Abstract!Aligned(s)
  BY <1>3, StartsAligned DEF Starts
<1>7. s \in Nat /\ s >= 1 /\ block \in Nat
  BY <1>3, SizeFacts, PtrOfId
<1>8. Abstract!Vacant(block, s)
  <2> SUFFICES ASSUME NEW q \in DOMAIN held PROVE q + held[q] <= block \/ block + s <= q
    BY DEF Abstract!Vacant
  <2>1. PICK j \in Ids : /\ IsHeld(j) /\ Leaf(j) /\ q = global_id_to_ptr(j)
                         /\ held[q] = block_size_at_depth(global_id_to_depth(j))
                         /\ q \in Nat /\ held[q] \in Nat /\ held[q] >= 1
                         /\ \A x : x \in RegionOf(j) <=> x \in Int /\ q <= x /\ x < q + held[q]
    BY HeldBytes
  <2>2. InHand(block_id)
    BY <1>1 DEF InHand
  <2>3. Closed /\ Leaf(block_id) /\ j # block_id
    BY <1>2, <1>3, <2>1, <2>2, RoleFacts DEF OneRole
  <2>4. RegionOf(j) \cap RegionOf(block_id) = {}
    BY <2>1, <2>3, RegionsApart
  <2>5. \A x : x \in RegionOf(block_id) <=> x \in Int /\ block <= x /\ x < block + s
    BY <1>3, <1>7 DEF RegionOf, Region
  <2> HIDE DEF s
  <2> SUFFICES ASSUME q + held[q] > block, block + s > q PROVE FALSE
    BY <1>7, <2>1
  <2>6. CASE q <= block
    <3>1. block \in RegionOf(j) /\ block \in RegionOf(block_id)
      BY <1>7, <2>1, <2>5, <2>6
    <3> QED
      BY <2>4, <3>1
  <2>7. CASE block < q
    <3>1. q \in RegionOf(j) /\ q \in RegionOf(block_id)
      BY <1>7, <2>1, <2>5, <2>7
    <3> QED
      BY <2>4, <3>1
  <2> QED
    BY <1>7, <2>1, <2>6, <2>7
<1>9. Abstract!Malloc(requested_size)
  BY <1>1, <1>4, <1>5, <1>6, <1>8 DEF Abstract!Malloc
<1> QED
  BY <1>2, <1>9

\* When allocator_malloc finds no list with a block, no block of the size is
\* vacant: what is free has been merged.
LEMMA ExhaustedImplements ==
  ASSUME IInv, NEW request \in Requests, MallocExhausted(request)
  PROVE  Abstract!Fail(request)
<1> DEFINE t == depth_for_request(request)
           s == block_size_at_depth(t)
<1>1. /\ pc = "idle"
      /\ t >= 0
      /\ \A d \in 0 .. t : levels[d] = <<>>
      /\ answer' = [size |-> request, ptr |-> NULL]
      /\ held' = held
  BY DEF MallocExhausted, Answers
<1>2. TypeOK /\ BuddiesMerged /\ \A j \in Ids : OneRole(j)
  BY Known
<1>3. /\ Closed
      /\ \A j \in Ids : InList(j) => Leaf(j)
      /\ \A j : Leaf(j) => InList(j) \/ IsHeld(j)
  BY <1>1, <1>2, RoleFacts DEF InHand
<1>4. request \in Nat /\ request <= MAX_ALLOC /\ t \in Depths
  <2>1. request \in Nat /\ MAX_ALLOC \in Nat
    BY RequestsAssumption, MemoryFacts
  <2>2. t # -1
    BY <1>1
  <2> QED
    BY <2>1, <2>2, RequestHasDepth
<1> HIDE DEF t
<1>5. \A d \in Depths : levels[d] # <<>> => t < d
  BY <1>1, <1>4, DepthFacts
<1>6. s \in Nat /\ s >= 1
  BY <1>4, SizeFacts
<1>7. ASSUME NEW p \in Abstract!Aligned(s), Abstract!Vacant(p, s) PROVE FALSE
  <2>1. PICK v \in Level(t) : p = global_id_to_ptr(v)
    BY <1>4, <1>7, StartsAligned DEF Starts
  <2>2. p \in Pointers /\ p \in Nat /\ ptr_to_global_id(p, t) = v
    BY <1>4, <2>1, LevelDepth, PtrOfId
  <2>3. ASSUME NEW j \in Ids, IsHeld(j), NEW x \in Pointers, p <= x, x < p + s
        PROVE  x \notin RegionOf(j)
    <3> DEFINE q == global_id_to_ptr(j)
    <3>1. /\ q \in DOMAIN held /\ q \in Nat
          /\ held[q] = block_size_at_depth(global_id_to_depth(j)) /\ held[q] \in Nat
      BY <2>3, IdFacts, SizeFacts, PtrOfId DEF IsHeld
    <3>2. q + held[q] <= p \/ p + s <= q
      BY <1>7, <3>1 DEF Abstract!Vacant
    <3>3. x \in RegionOf(j) <=> x \in Int /\ q <= x /\ x < q + held[q]
      BY <3>1 DEF RegionOf, Region
    <3>4. x \in Int
      BY MemoryFacts DEF Pointers
    <3> HIDE DEF q, s
    <3> QED
      BY <1>6, <2>2, <2>3, <3>1, <3>2, <3>3, <3>4
  <2>4. PICK d \in Depths : Leaf(ptr_to_global_id(p, d))
    BY <2>2, LeafAround
  <2> DEFINE k == ptr_to_global_id(p, d)
  <2>5. k \in Ids /\ k \in Level(d) /\ global_id_to_depth(k) = d /\ p \in RegionOf(k)
    BY <2>2, Around, RegionIsAround DEF RegionOf
  <2>6. InList(k)
    <3>1. p <= p /\ p < p + s
      BY <1>6, <2>2
    <3>2. ~ IsHeld(k)
      BY <2>2, <2>3, <2>5, <3>1
    <3> QED
      BY <1>3, <2>4, <3>2
  <2>7. t < d
    <3>1. levels[d] # <<>>
      BY <2>5, <2>6 DEF InList, Range
    <3> QED
      BY <1>5, <3>1
  <2>8. Split(v)
    <3>1. Exists(ptr_to_global_id(p, d))
      BY <2>4 DEF Leaf
    <3>2. t <= d
      BY <1>4, <2>7, DepthFacts
    <3> QED
      BY <1>3, <1>4, <2>2, <2>7, <3>1, <3>2, ExistsUpward
  <2>9. PICK i \in Ids \ {0} : /\ Leaf(i) /\ Within(i, v, t)
                               /\ Leaf(buddy_global_id(i)) /\ Within(buddy_global_id(i), v, t)
    BY <1>4, <2>8, DeepestSplit
  <2>10. ASSUME NEW j, Leaf(j), Within(j, v, t) PROVE InList(j)
    <3> DEFINE x == global_id_to_ptr(j)
    <3>1. j \in Ids /\ x \in Pointers /\ ptr_to_global_id(x, t) = v
      BY <2>10, IdFacts DEF Within
    <3>2. p <= x /\ x < p + s
      BY <1>4, <2>1, <3>1, Around
    <3>3. x \in RegionOf(j)
      BY <3>1, IdFacts, RegionIsAround DEF RegionOf
    <3>4. ~ IsHeld(j)
      BY <2>3, <3>1, <3>2, <3>3
    <3> QED
      BY <1>3, <2>10, <3>4
  <2>11. InList(i) /\ InList(buddy_global_id(i))
    BY <2>9, <2>10
  <2> QED
    BY <1>2, <2>11 DEF BuddiesMerged
<1>8. Abstract!Class(request) = s
  BY <1>4, ClassOf DEF t
<1> QED
  BY <1>1, <1>7, <1>8 DEF Abstract!Fail

LEMMA StepImplements == IInv /\ [Next]_vars => [Abstract!Next]_(Abstract!vars)
<1> SUFFICES ASSUME IInv, [Next]_vars PROVE Abstract!Next \/ UNCHANGED <<held, answer>>
  BY DEF Abstract!vars
<1>1. ASSUME NEW request \in Requests, MallocRefuses(request)
      PROVE  Abstract!Fail(request)
  <2>1. request \in Nat /\ MAX_ALLOC \in Nat /\ ~ (depth_for_request(request) \in Depths)
    BY <1>1, RequestsAssumption, MemoryFacts, DepthFacts DEF MallocRefuses
  <2>2. request > MAX_ALLOC
    BY <2>1, RequestHasDepth
  <2> QED
    BY <1>1, <2>2 DEF MallocRefuses, Answers, Abstract!Fail
<1>2. ASSUME NEW request \in Requests, MallocTakes(request)
      PROVE  UNCHANGED <<held, answer>>
  BY <1>2 DEF MallocTakes, client
<1>3. CASE FreeIgnores(NULL) \/ FreeIgnores(MAX_ALLOC) \/ UNCHANGED vars
  BY <1>3 DEF FreeIgnores, vars, client
<1>4. ASSUME NEW ptr \in Pointers, FreeBegins(ptr)
      PROVE  ptr \in DOMAIN held /\ Abstract!Free(ptr)
  BY <1>4 DEF FreeBegins, Answers, Abstract!Free, Abstract!NoAnswer
<1>5. CASE MallocSplits \/ FreeMerges \/ FreeReturns
  BY <1>5 DEF MallocSplits, FreeMerges, FreeReturns, client
<1>6. CASE MallocReturns
  BY <1>6, ReturnsImplement DEF Abstract!Next
<1> QED
  BY <1>1, <1>2, <1>3, <1>4, <1>5, <1>6, ExhaustedImplements DEF Next, CallStep, Abstract!Next

-------------------------------------------------------------------------------
(* Theorems *)

\* The fields and locals keep their types: a bit that is flipped is a bit, and
\* the block in hand is one of the tree at the depth that the call holds.
THEOREM AlwaysTyped == Spec => []TypeOK
BY AlwaysSound, PTL DEF IInv

\* Every block that exists is split, in a list, with a client or in hand, and
\* only one of these, whatever the order of the calls (4_3.c:150-216).
THEOREM AlwaysAgrees == Spec => []TreeAgrees
<1>1. IInv => TreeAgrees
  BY RolesPlain DEF IInv, TreeAgrees
<1> QED
  BY <1>1, AlwaysSound, PTL

\* The pair's bit, by which allocator_free decides to merge (4_3.c:201), tells
\* whether the buddy is free; two buddies are never both free; and when every
\* block has come back the memory is the one that init_allocator made.
THEOREM AlwaysMerged == Spec => []MergingExact
<1>1. IInv => MergingExact
  BY ComesBack DEF IInv, MergingExact
<1> QED
  BY <1>1, AlwaysSound, PTL

\* No byte of the memory is lost or belongs to two blocks.
THEOREM AlwaysPartitioned == Spec => []MemoryPartitioned
BY Partitioned, AlwaysSound, PTL

\* allocator_malloc and allocator_free keep the promise of AllocatorSpec, for
\* every depth of the tree: what is handed out was vacant and is the smallest
\* block that is large enough, and NULL means that no such block is vacant.
THEOREM Implements == Spec => ImplementsAllocator
<1>1. Init => Abstract!Init
  BY DEF Init, Abstract!Init, Abstract!NoAnswer
<1> QED
  BY <1>1, AlwaysSound, StepImplements, PTL DEF Spec, ImplementsAllocator, Abstract!Spec
===============================================================================
