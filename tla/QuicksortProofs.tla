---------------------------- MODULE QuicksortProofs -----------------------------
(***************************************************************************)
(* What holds of Quicksort for every array, any thresholds, a pipe of    *)
(* any size and any system calls that fail: first of the serial algorithm, *)
(* then of the threads and processes that run it on parts of an array.     *)
(***************************************************************************)
EXTENDS Quicksort, FiniteSetTheorems, FunctionTheorems, SequenceTheorems,
        WellFoundedInduction, TLAPS

\* Every non-empty set of natural numbers has a least element.
LEMMA LeastNumber ==
  ASSUME NEW T, T \subseteq Nat, T # {}
  PROVE  \E x \in T : \A y \in T : x <= y
<1> DEFINE R == OpToRel(<, Nat)
<1>1. IsWellFoundedOn(R, Nat)
  BY NatLessThanWellFounded, Zenon
<1> HIDE DEF R
<1>2. PICK x \in T : \A y \in T : ~ (<<y, x>> \in R)
  BY <1>1, WFMin
<1>3. \A y \in T : y < x => <<y, x>> \in R
  BY DEF R, OpToRel
<1>4. \A y \in T : ~ (y < x)
  BY <1>2, <1>3
<1>5. \A y \in T : y \in Nat
  OBVIOUS
<1>6. \A y \in T : x <= y
  BY <1>4, <1>5
<1> QED
  BY <1>6

-------------------------------------------------------------------------------
(* Arrays of n elements, and the order of their elements *)

Indices(n) == 0 .. n - 1
IntArrays(n) == [Indices(n) -> Int]

\* b is a with the elements from first to last put in some order: the element
\* at i comes from place f[i].
Shuffles(f, n, a, b, first, last) ==
  /\ f \in [Indices(n) -> Indices(n)]
  /\ \A i, j \in Indices(n) : f[i] = f[j] => i = j
  /\ \A j \in Indices(n) : \E i \in Indices(n) : f[i] = j
  /\ \A i \in Indices(n) : b[i] = a[f[i]]
  /\ \A i \in Indices(n) : i < first \/ i > last => f[i] = i
Shuffled(n, a, b, first, last) == \E f : Shuffles(f, n, a, b, first, last)

Sorted(a, first, last) ==
  \A i, j \in first .. last : i <= j => a[i] <= a[j]

LEMMA ShuffledSame ==
  ASSUME NEW n \in Nat, NEW a \in IntArrays(n), NEW first \in Int, NEW last \in Int
  PROVE  Shuffled(n, a, a, first, last)
<1> DEFINE f == [i \in Indices(n) |-> i]
<1>1. Shuffles(f, n, a, a, first, last)
  BY DEF Shuffles
<1> QED
  BY <1>1 DEF Shuffled

LEMMA ShuffledWider ==
  ASSUME NEW n \in Nat, NEW a, NEW b, NEW first \in Int, NEW last \in Int,
         NEW first2 \in Int, NEW last2 \in Int, first2 <= first, last <= last2,
         Shuffled(n, a, b, first, last)
  PROVE  Shuffled(n, a, b, first2, last2)
<1>1. PICK f : Shuffles(f, n, a, b, first, last)
  BY DEF Shuffled
<1>2. \A i \in Indices(n) : i < first2 \/ i > last2 => f[i] = i
  BY <1>1, SMTT(60) DEF Shuffles, Indices
<1>3. Shuffles(f, n, a, b, first2, last2)
  BY <1>1, <1>2 DEF Shuffles
<1> QED
  BY <1>3 DEF Shuffled

LEMMA ShuffledTwice ==
  ASSUME NEW n \in Nat, NEW a, NEW b, NEW c, NEW first \in Int, NEW last \in Int,
         Shuffled(n, a, b, first, last), Shuffled(n, b, c, first, last)
  PROVE  Shuffled(n, a, c, first, last)
<1>1. PICK f : Shuffles(f, n, a, b, first, last)
  BY DEF Shuffled
<1>2. PICK g : Shuffles(g, n, b, c, first, last)
  BY DEF Shuffled
<1> DEFINE h == [i \in Indices(n) |-> f[g[i]]]
<1>3. h \in [Indices(n) -> Indices(n)]
  BY <1>1, <1>2 DEF Shuffles
<1>4. \A i, j \in Indices(n) : h[i] = h[j] => i = j
  BY <1>1, <1>2 DEF Shuffles
<1>5. \A j \in Indices(n) : \E i \in Indices(n) : h[i] = j
  BY <1>1, <1>2 DEF Shuffles
<1>6. \A i \in Indices(n) : c[i] = a[h[i]]
  BY <1>1, <1>2 DEF Shuffles
<1>7. \A i \in Indices(n) : i < first \/ i > last => h[i] = i
  BY <1>1, <1>2 DEF Shuffles
<1>8. Shuffles(h, n, a, c, first, last)
  BY <1>3, <1>4, <1>5, <1>6, <1>7 DEF Shuffles
<1> QED
  BY <1>8 DEF Shuffled

LEMMA SwapShuffles ==
  ASSUME NEW n \in Nat, NEW a \in IntArrays(n), NEW i \in Indices(n), NEW j \in Indices(n),
         NEW first \in Int, NEW last \in Int, i \in first .. last, j \in first .. last
  PROVE  /\ swap(a, i, j) \in IntArrays(n)
         /\ swap(a, i, j)[i] = a[j]
         /\ swap(a, i, j)[j] = a[i]
         /\ \A k \in Indices(n) : k # i /\ k # j => swap(a, i, j)[k] = a[k]
         /\ Shuffled(n, a, swap(a, i, j), first, last)
<1>1. PICK b : b = swap(a, i, j)
  OBVIOUS
<1>2. /\ b \in IntArrays(n)
      /\ b[i] = a[j] /\ b[j] = a[i]
      /\ \A k \in Indices(n) : k # i /\ k # j => b[k] = a[k]
  BY <1>1 DEF swap, IntArrays
<1> DEFINE f == [k \in Indices(n) |-> IF k = i THEN j ELSE IF k = j THEN i ELSE k]
<1>3. f \in [Indices(n) -> Indices(n)]
  OBVIOUS
<1>4. \A k, l \in Indices(n) : f[k] = f[l] => k = l
  OBVIOUS
<1>5. \A k \in Indices(n) : \E l \in Indices(n) : f[l] = k
  <2> TAKE k \in Indices(n)
  <2>1. f[k] \in Indices(n) /\ f[f[k]] = k
    OBVIOUS
  <2> QED
    BY <2>1
<1>6. \A k \in Indices(n) : b[k] = a[f[k]]
  BY <1>2
<1>7. \A k \in Indices(n) : k < first \/ k > last => f[k] = k
  BY DEF Indices
<1>8. Shuffles(f, n, a, b, first, last)
  BY <1>3, <1>4, <1>5, <1>6, <1>7 DEF Shuffles
<1> QED
  BY <1>1, <1>2, <1>8 DEF Shuffled

\* Outside the part that is shuffled nothing changes, and inside it is what was
\* inside before.
LEMMA ShuffledPart ==
  ASSUME NEW n \in Nat, NEW a, NEW b, NEW first \in Int, NEW last \in Int,
         Shuffled(n, a, b, first, last)
  PROVE  /\ \A i \in Indices(n) : i < first \/ i > last => b[i] = a[i]
         /\ \A i \in Indices(n) : first <= i /\ i <= last =>
              \E j \in Indices(n) : first <= j /\ j <= last /\ b[i] = a[j]
<1>1. PICK f : Shuffles(f, n, a, b, first, last)
  BY DEF Shuffled
<1>2. \A i \in Indices(n) : i < first \/ i > last => b[i] = a[i]
  BY <1>1 DEF Shuffles
<1>3. ASSUME NEW i \in Indices(n), first <= i, i <= last
      PROVE  \E j \in Indices(n) : first <= j /\ j <= last /\ b[i] = a[j]
  <2>1. f[i] \in Indices(n) /\ b[i] = a[f[i]]
    BY <1>1 DEF Shuffles
  <2>2. f[i] < first \/ f[i] > last => f[f[i]] = f[i]
    BY <1>1, <2>1 DEF Shuffles
  <2>3. f[f[i]] = f[i] => f[i] = i
    BY <1>1, <2>1 DEF Shuffles
  <2>4. first <= f[i] /\ f[i] <= last
    BY <1>3, <2>1, <2>2, <2>3 DEF Indices
  <2> QED
    BY <2>1, <2>4
<1> QED
  BY <1>2, <1>3

-------------------------------------------------------------------------------
(* pivot *)

\* What the loop has made of a when it has seen the elements up to i.
Seen(n, a, first, i, s) ==
  /\ s.p \in first .. i
  /\ s.array \in IntArrays(n)
  /\ Shuffled(n, a, s.array, first + 1, i)
  /\ \A j \in Indices(n) : first < j /\ j <= s.p => s.array[j] <= a[first]
  /\ \A j \in Indices(n) : s.p < j /\ j <= i => s.array[j] > a[first]

LEMMA ComparedSeen ==
  ASSUME NEW n \in Nat, NEW a \in IntArrays(n), NEW first \in Indices(n), NEW i \in Indices(n),
         first < i, NEW s, Seen(n, a, first, i - 1, s)
  PROVE  Seen(n, a, first, i, Compared(s, i, a[first]))
<1>1. PICK p \in first .. i - 1 : p = s.p
  BY DEF Seen
<1>2. PICK b \in IntArrays(n) : b = s.array
  BY DEF Seen
<1>3. PICK x \in Int : x = a[first]
  BY DEF IntArrays
<1>4. /\ first \in Int /\ i \in Int /\ p \in Int /\ n \in Int /\ 0 <= first /\ i < n
      /\ first <= p /\ p <= i - 1
  BY DEF Indices
<1>5. Shuffled(n, a, b, first + 1, i)
  BY <1>2, <1>4, ShuffledWider DEF Seen
<1>6. /\ \A j \in Indices(n) : first < j /\ j <= p => b[j] <= x
      /\ \A j \in Indices(n) : p < j /\ j <= i - 1 => b[j] > x
  BY <1>1, <1>2, <1>3 DEF Seen
<1>7. b[i] \in Int
  BY DEF IntArrays
<1>8. CASE b[i] <= x
  <2>1. PICK q \in Indices(n) : q = p + 1
    <3>1. p + 1 \in Indices(n)
      BY <1>4 DEF Indices
    <3> QED
      BY <3>1
  <2>2. q \in Int /\ first < q /\ q <= i
    BY <1>4, <2>1
  <2>3. PICK c : c = swap(b, i, q)
    OBVIOUS
  <2>4. i \in first + 1 .. i /\ q \in first + 1 .. i /\ first + 1 \in Int
    BY <1>4, <2>2
  <2>5. /\ c \in IntArrays(n)
        /\ c[i] = b[q] /\ c[q] = b[i]
        /\ \A k \in Indices(n) : k # i /\ k # q => c[k] = b[k]
        /\ Shuffled(n, b, c, first + 1, i)
    BY <1>4, <2>3, <2>4, SwapShuffles
  <2>6. Shuffled(n, a, c, first + 1, i)
    BY <1>4, <1>5, <2>4, <2>5, ShuffledTwice
  <2>7. \A j \in Indices(n) : first < j /\ j <= q => c[j] <= x
    <3> SUFFICES ASSUME NEW j \in Indices(n), first < j, j <= q PROVE c[j] <= x
      OBVIOUS
    <3>1. CASE j = q
      BY <1>8, <2>5, <3>1
    <3>2. CASE j # q
      <4>1. j \in Int /\ j <= p /\ j # i
        BY <1>4, <2>1, <2>2, <3>2 DEF Indices
      <4> QED
        BY <1>6, <2>5, <3>2, <4>1
    <3> QED
      BY <3>1, <3>2
  <2>8. \A j \in Indices(n) : q < j /\ j <= i => c[j] > x
    <3> SUFFICES ASSUME NEW j \in Indices(n), q < j, j <= i PROVE c[j] > x
      OBVIOUS
    <3>1. j \in Int /\ p < q /\ p < j /\ j # q
      BY <1>4, <2>1, <2>2 DEF Indices
    <3>2. CASE j = i
      <4>1. q <= i - 1
        BY <1>4, <2>2, <3>2
      <4> QED
        BY <1>6, <2>5, <3>1, <3>2, <4>1
    <3>3. CASE j # i
      <4>1. j <= i - 1
        BY <1>4, <3>1, <3>3
      <4> QED
        BY <1>6, <2>5, <3>1, <3>3, <4>1
    <3> QED
      BY <3>2, <3>3
  <2>9. Compared(s, i, a[first]) = [p |-> q, array |-> c]
    BY <1>1, <1>2, <1>3, <1>8, <2>1, <2>3 DEF Compared
  <2>10. PICK r : r = [p |-> q, array |-> c]
    OBVIOUS
  <2>11. r.p = q /\ r.array = c /\ q \in first .. i
    BY <1>4, <2>2, <2>10
  <2>12. Seen(n, a, first, i, r)
    BY <1>3, <2>5, <2>6, <2>7, <2>8, <2>11 DEF Seen
  <2> QED
    BY <2>9, <2>10, <2>12
<1>9. CASE ~ (b[i] <= x)
  <2>1. Compared(s, i, a[first]) = s
    BY <1>2, <1>3, <1>9 DEF Compared
  <2>2. b[i] > x
    BY <1>7, <1>9
  <2>3. \A j \in Indices(n) : p < j /\ j <= i => b[j] > x
    <3> SUFFICES ASSUME NEW j \in Indices(n), p < j, j <= i PROVE b[j] > x
      OBVIOUS
    <3>1. j = i \/ j <= i - 1
      BY <1>4 DEF Indices
    <3> QED
      BY <1>6, <2>2, <3>1
  <2>4. p \in first .. i
    BY <1>4
  <2>5. Seen(n, a, first, i, s)
    BY <1>1, <1>2, <1>3, <1>5, <1>6, <2>3, <2>4 DEF Seen
  <2> QED
    BY <2>1, <2>5
<1> QED
  BY <1>8, <1>9

\* The function that pivot defines by recursion, up to index k.
Scans(f, a, first, k) ==
  f = [i \in first .. k |->
         IF i = first THEN [p |-> first, array |-> a] ELSE Compared(f[i - 1], i, a[first])]

LEMMA ScanExists ==
  ASSUME NEW a, NEW first \in Nat, NEW last \in Nat, first <= last
  PROVE  \E f : Scans(f, a, first, last)
<1> DEFINE Bad == {k \in first .. last : ~ \E f : Scans(f, a, first, k)}
<1>1. Bad = {}
  <2> SUFFICES ASSUME Bad # {} PROVE FALSE
    OBVIOUS
  <2>1. PICK k \in Bad : \A m \in Bad : k <= m
    <3>1. Bad \subseteq Nat
      OBVIOUS
    <3> QED
      BY <3>1, LeastNumber
  <2>2. k \in first .. last /\ k \in Int /\ ~ \E f : Scans(f, a, first, k)
    OBVIOUS
  <2>3. CASE k = first
    <3> DEFINE f == [i \in first .. k |-> [p |-> first, array |-> a]]
    <3>1. \A i \in first .. k : i = first
      BY <2>3
    <3>2. f = [i \in first .. k |-> IF i = first THEN [p |-> first, array |-> a]
                                    ELSE Compared(f[i - 1], i, a[first])]
      BY <3>1
    <3> HIDE DEF f
    <3>3. Scans(f, a, first, k)
      BY <3>2 DEF Scans
    <3> QED
      BY <2>2, <3>3
  <2>4. CASE k # first
    <3>1. k - 1 \in first .. last /\ k - 1 \notin Bad
      BY <2>1, <2>2, <2>4
    <3>2. PICK f : Scans(f, a, first, k - 1)
      BY <3>1
    <3> DEFINE g == [i \in first .. k |-> IF i = k THEN Compared(f[k - 1], k, a[first]) ELSE f[i]]
    <3>3. \A i \in first .. k - 1 :
            f[i] = IF i = first THEN [p |-> first, array |-> a] ELSE Compared(f[i - 1], i, a[first])
      BY <3>2, Zenon DEF Scans
    <3>4. \A i \in first .. k : i # k => i \in first .. k - 1 /\ g[i] = f[i]
      BY <2>2
    <3>5. g[k] = Compared(f[k - 1], k, a[first])
      BY <2>2
    <3> HIDE DEF g
    <3>6. \A i \in first .. k : i # first => i - 1 \in first .. k /\ i - 1 # k
      BY <2>2
    <3>7. ASSUME NEW i \in first .. k
          PROVE  g[i] = IF i = first THEN [p |-> first, array |-> a]
                        ELSE Compared(g[i - 1], i, a[first])
      <4>1. CASE i = first
        <5>1. f[first] = [p |-> first, array |-> a]
          BY <2>4, <3>3, <3>4, <4>1
        <5> QED
          BY <2>4, <3>4, <4>1, <5>1
      <4>2. CASE i # first
        <5>1. g[i - 1] = f[i - 1]
          BY <3>4, <3>6, <4>2
        <5>2. i = k => g[i] = Compared(f[i - 1], i, a[first])
          BY <3>5
        <5>3. i # k => g[i] = Compared(f[i - 1], i, a[first])
          BY <3>3, <3>4, <4>2
        <5> QED
          BY <4>2, <5>1, <5>2, <5>3
      <4> QED
        BY <4>1, <4>2
    <3>8. g = [i \in first .. k |-> g[i]]
      BY DEF g
    <3>9. Scans(g, a, first, k)
      BY <3>7, <3>8, Zenon DEF Scans
    <3> QED
      BY <2>2, <3>9
  <2> QED
    BY <2>3, <2>4
<1>2. last \in first .. last /\ last \notin Bad
  BY <1>1
<1> QED
  BY <1>2

LEMMA PivotScans ==
  ASSUME NEW a, NEW first \in Nat, NEW last \in Nat, first <= last
  PROVE  \E f : /\ Scans(f, a, first, last)
                /\ pivot(a, first, last) = [p |-> f[last].p,
                                            array |-> swap(f[last].array, f[last].p, first)]
<1>1. PICK g : Scans(g, a, first, last)
  BY ScanExists
<1> QED
  BY <1>1 DEF pivot, Scans

LEMMA ScannedSeen ==
  ASSUME NEW n \in Nat, NEW a \in IntArrays(n), NEW first \in Indices(n), NEW last \in Indices(n),
         first <= last, NEW f, Scans(f, a, first, last)
  PROVE  Seen(n, a, first, last, f[last])
<1>1. first \in Nat /\ last \in Nat /\ \A i \in first .. last : i \in Indices(n) /\ i \in Nat
  BY DEF Indices
<1>2. \A i \in first .. last :
        f[i] = IF i = first THEN [p |-> first, array |-> a] ELSE Compared(f[i - 1], i, a[first])
  BY Zenon DEF Scans
<1>3. Seen(n, a, first, first, f[first])
  <2>1. f[first] = [p |-> first, array |-> a] /\ first \in first .. first
    BY <1>1, <1>2
  <2>2. PICK s : s = f[first]
    OBVIOUS
  <2>3. s.p = first /\ s.array = a
    BY <2>1, <2>2
  <2>4. Shuffled(n, a, a, first + 1, first)
    <3>1. first + 1 \in Int /\ first \in Int
      BY <1>1
    <3> QED
      BY <3>1, ShuffledSame
  <2>5. \A j \in Indices(n) : ~ (first < j /\ j <= first)
    BY <1>1 DEF Indices
  <2>6. Seen(n, a, first, first, s)
    BY <2>1, <2>3, <2>4, <2>5 DEF Seen
  <2> QED
    BY <2>2, <2>6
<1> DEFINE Bad == {i \in first .. last : ~ Seen(n, a, first, i, f[i])}
<1>4. Bad = {}
  <2> SUFFICES ASSUME Bad # {} PROVE FALSE
    OBVIOUS
  <2>1. PICK k \in Bad : \A m \in Bad : k <= m
    <3>1. Bad \subseteq Nat
      BY <1>1
    <3> QED
      BY <3>1, LeastNumber
  <2>2. k # first /\ k \in first .. last /\ k \in Indices(n) /\ k \in Nat
    BY <1>1, <1>3
  <2>3. k - 1 \in first .. last /\ k - 1 \notin Bad /\ first < k
    BY <1>1, <2>1, <2>2
  <2>4. Seen(n, a, first, k - 1, f[k - 1])
    BY <2>3
  <2>5. PICK s : s = f[k - 1]
    OBVIOUS
  <2>6. Seen(n, a, first, k, Compared(s, k, a[first]))
    BY <2>2, <2>3, <2>4, <2>5, ComparedSeen
  <2>7. f[k] = Compared(s, k, a[first])
    BY <1>2, <2>2, <2>5
  <2> QED
    BY <2>6, <2>7
<1>5. last \in first .. last /\ last \notin Bad
  BY <1>1, <1>4
<1> QED
  BY <1>5

\* An array partitioned around index p, as far as first .. last goes.
Partitioned(n, b, first, p, last) ==
  /\ p \in first .. last
  /\ \A j \in Indices(n) : first <= j /\ j < p => b[j] <= b[p]
  /\ \A j \in Indices(n) : p < j /\ j <= last => b[j] > b[p]

\* pivot puts the elements from first to last in another order, in which none
\* before the pivot is greater and all behind it are.
LEMMA PivotPartitions ==
  ASSUME NEW n \in Nat, NEW a \in IntArrays(n), NEW first \in Indices(n), NEW last \in Indices(n),
         first <= last, NEW r, r = pivot(a, first, last)
  PROVE  /\ r.array \in IntArrays(n)
         /\ Shuffled(n, a, r.array, first, last)
         /\ Partitioned(n, r.array, first, r.p, last)
         /\ r.p \in first .. last
<1>1. /\ first \in Nat /\ last \in Nat /\ n \in Int /\ first < n /\ last < n
  BY DEF Indices
<1>2. PICK f : /\ Scans(f, a, first, last)
               /\ r = [p |-> f[last].p, array |-> swap(f[last].array, f[last].p, first)]
  BY <1>1, PivotScans
<1>3. PICK s : s = f[last]
  OBVIOUS
<1>4. Seen(n, a, first, last, s)
  BY <1>2, <1>3, ScannedSeen
<1>5. PICK p \in first .. last : p = s.p
  BY <1>4 DEF Seen
<1>6. PICK b \in IntArrays(n) : b = s.array
  BY <1>4 DEF Seen
<1>7. p \in Indices(n) /\ p \in Int /\ first <= p /\ p <= last
  BY <1>1 DEF Indices
<1>8. PICK x \in Int : x = a[first]
  BY DEF IntArrays
<1>9. /\ Shuffled(n, a, b, first + 1, last)
      /\ \A j \in Indices(n) : first < j /\ j <= p => b[j] <= x
      /\ \A j \in Indices(n) : p < j /\ j <= last => b[j] > x
  BY <1>4, <1>5, <1>6, <1>8 DEF Seen
<1>10. b[first] = x
  <2>1. first + 1 \in Int /\ first < first + 1 /\ last \in Int
    BY <1>1
  <2> QED
    BY <1>8, <1>9, <2>1, ShuffledPart
<1>11. PICK c : c = swap(b, p, first)
  OBVIOUS
<1>12. /\ c \in IntArrays(n)
       /\ c[p] = b[first] /\ c[first] = b[p]
       /\ \A k \in Indices(n) : k # p /\ k # first => c[k] = b[k]
       /\ Shuffled(n, b, c, first, last)
  <2>1. p \in first .. last /\ first \in first .. last /\ first \in Int /\ last \in Int
    BY <1>1
  <2> QED
    BY <1>7, <1>11, <2>1, SwapShuffles
<1>13. Shuffled(n, a, b, first, last)
  BY <1>1, <1>9, ShuffledWider
<1>14. Shuffled(n, a, c, first, last)
  BY <1>1, <1>12, <1>13, ShuffledTwice
<1>15. \A j \in Indices(n) : first <= j /\ j < p => c[j] <= c[p]
  <2> SUFFICES ASSUME NEW j \in Indices(n), first <= j, j < p PROVE c[j] <= x
    BY <1>10, <1>12
  <2>0. j \in Int /\ j # p
    BY <1>7 DEF Indices
  <2>1. CASE j = first
    <3>1. first < p
      BY <2>1
    <3> QED
      BY <1>7, <1>9, <1>12, <2>1, <3>1
  <2>2. CASE j # first
    <3>1. first < j /\ j <= p
      BY <1>1, <1>7, <2>0, <2>2
    <3> QED
      BY <1>9, <1>12, <2>0, <2>2, <3>1
  <2> QED
    BY <2>1, <2>2
<1>16. \A j \in Indices(n) : p < j /\ j <= last => c[j] > c[p]
  <2> SUFFICES ASSUME NEW j \in Indices(n), p < j, j <= last PROVE c[j] > x
    BY <1>10, <1>12
  <2>1. j # p /\ j # first
    BY <1>1, <1>7 DEF Indices
  <2> QED
    BY <1>9, <1>12, <2>1
<1>17. r.p = p /\ r.array = c
  BY <1>2, <1>3, <1>5, <1>6, <1>11
<1> QED
  BY <1>12, <1>14, <1>15, <1>16, <1>17 DEF Partitioned

-------------------------------------------------------------------------------
(* serial_quicksort *)

\* The calls there are: two indices, or the empty half next to one.
Spans(n) == (0 .. n) \X (-1 .. n - 1)

\* What a call for <<first, last>> that does its own work makes of b, when f
\* says what the calls for its halves do.
Sorts(f, b, first, last) ==
  IF first >= last THEN b
  ELSE LET r == pivot(b, first, last)
       IN  f[<<r.p + 1, last>>][f[<<first, r.p - 1>>][r.array]]

\* The function that serial_quicksort defines by recursion.
Sorting(f, n) ==
  f = [t \in Spans(n) |-> [b \in IntArrays(n) |-> Sorts(f, b, t[1], t[2])]]

\* f is this function as far as spans of less than m indices go.
SortsShort(f, n, m) ==
  /\ f \in [Spans(n) -> [IntArrays(n) -> IntArrays(n)]]
  /\ \A x \in 0 .. n, y \in -1 .. n - 1 : y - x < m =>
       \A b \in IntArrays(n) : f[<<x, y>>][b] = Sorts(f, b, x, y)

LEMMA SerialSorts ==
  ASSUME NEW n \in Nat, NEW a, DOMAIN a = Indices(n), NEW s, NEW g, Sorting(g, n)
  PROVE  \E f : Sorting(f, n) /\ serial_quicksort(a, s) = f[s][a]
<1>1. Cardinality(Indices(n)) = n
  BY FS_Interval DEF Indices
<1>2. [DOMAIN a -> Int] = IntArrays(n) /\ Cardinality(DOMAIN a) = n
  BY <1>1 DEF IntArrays
<1>3. g = [t \in (0 .. Cardinality(DOMAIN a)) \X (-1 .. Cardinality(DOMAIN a) - 1) |->
            [b \in [DOMAIN a -> Int] |-> Sorts(g, b, t[1], t[2])]]
  BY <1>2 DEF Sorting, Spans
<1>4. \E f : /\ f = [t \in (0 .. Cardinality(DOMAIN a)) \X (-1 .. Cardinality(DOMAIN a) - 1) |->
                     [b \in [DOMAIN a -> Int] |-> Sorts(f, b, t[1], t[2])]]
            /\ serial_quicksort(a, s) = f[s][a]
  BY <1>3 DEF serial_quicksort, Sorts
<1> QED
  BY <1>2, <1>4 DEF Sorting, Spans

\* The halves of a span are spans, and shorter.
LEMMA Halves ==
  ASSUME NEW n \in Nat, NEW x \in 0 .. n, NEW y \in -1 .. n - 1, x < y, NEW b \in IntArrays(n),
         NEW r, r = pivot(b, x, y)
  PROVE  /\ x \in Indices(n) /\ y \in Indices(n)
         /\ r.array \in IntArrays(n)
         /\ Shuffled(n, b, r.array, x, y)
         /\ Partitioned(n, r.array, x, r.p, y)
         /\ r.p \in x .. y /\ r.p \in Int
         /\ r.p - 1 \in -1 .. n - 1 /\ r.p - 1 - x < y - x
         /\ r.p + 1 \in 0 .. n /\ y - (r.p + 1) < y - x
<1>1. x \in Indices(n) /\ y \in Indices(n) /\ x <= y
  BY DEF Indices
<1>2. /\ r.array \in IntArrays(n)
      /\ Shuffled(n, b, r.array, x, y)
      /\ Partitioned(n, r.array, x, r.p, y)
      /\ r.p \in x .. y
  BY <1>1, PivotPartitions
<1>3. PICK p \in x .. y : p = r.p
  BY <1>2
<1>4. /\ p - 1 \in -1 .. n - 1 /\ p - 1 - x < y - x
      /\ p + 1 \in 0 .. n /\ y - (p + 1) < y - x /\ p \in Int
  OBVIOUS
<1> QED
  BY <1>1, <1>2, <1>3, <1>4

LEMMA SortsStays ==
  ASSUME NEW n \in Nat, NEW f \in [Spans(n) -> [IntArrays(n) -> IntArrays(n)]],
         NEW x \in 0 .. n, NEW y \in -1 .. n - 1, NEW b \in IntArrays(n)
  PROVE  Sorts(f, b, x, y) \in IntArrays(n)
<1>1. CASE x >= y
  BY <1>1 DEF Sorts
<1>2. CASE x < y
  <2>1. PICK r : r = pivot(b, x, y)
    OBVIOUS
  <2>2. /\ r.array \in IntArrays(n) /\ r.p - 1 \in -1 .. n - 1 /\ r.p + 1 \in 0 .. n
    BY <1>2, <2>1, Halves
  <2>3. <<x, r.p - 1>> \in Spans(n) /\ <<r.p + 1, y>> \in Spans(n)
    BY <2>2 DEF Spans
  <2>4. ~ (x >= y)
    BY <1>2
  <2>5. Sorts(f, b, x, y) = f[<<r.p + 1, y>>][f[<<x, r.p - 1>>][r.array]]
    BY <2>1, <2>4 DEF Sorts
  <2>6. f[<<x, r.p - 1>>][r.array] \in IntArrays(n)
    BY <2>2, <2>3
  <2> QED
    BY <2>3, <2>5, <2>6
<1> QED
  BY <1>1, <1>2

LEMMA SortsSame ==
  ASSUME NEW n \in Nat, NEW f \in [Spans(n) -> [IntArrays(n) -> IntArrays(n)]], NEW g,
         NEW x \in 0 .. n, NEW y \in -1 .. n - 1, NEW b \in IntArrays(n),
         \A u \in 0 .. n, v \in -1 .. n - 1 : v - u < y - x =>
           \A c \in IntArrays(n) : g[<<u, v>>][c] = f[<<u, v>>][c]
  PROVE  Sorts(g, b, x, y) = Sorts(f, b, x, y)
<1>1. CASE x >= y
  BY <1>1 DEF Sorts
<1>2. CASE x < y
  <2>1. PICK r : r = pivot(b, x, y)
    OBVIOUS
  <2>2. /\ r.array \in IntArrays(n)
        /\ r.p - 1 \in -1 .. n - 1 /\ r.p - 1 - x < y - x
        /\ r.p + 1 \in 0 .. n /\ y - (r.p + 1) < y - x
    BY <1>2, <2>1, Halves
  <2>3. <<x, r.p - 1>> \in Spans(n)
    BY <2>2 DEF Spans
  <2>4. ~ (x >= y)
    BY <1>2
  <2>5. /\ Sorts(f, b, x, y) = f[<<r.p + 1, y>>][f[<<x, r.p - 1>>][r.array]]
        /\ Sorts(g, b, x, y) = g[<<r.p + 1, y>>][g[<<x, r.p - 1>>][r.array]]
    BY <2>1, <2>4 DEF Sorts
  <2>6. PICK c \in IntArrays(n) : c = f[<<x, r.p - 1>>][r.array]
    BY <2>2, <2>3
  <2>7. g[<<x, r.p - 1>>][r.array] = c
    BY <2>2, <2>6
  <2>8. g[<<r.p + 1, y>>][c] = f[<<r.p + 1, y>>][c]
    BY <2>2
  <2> QED
    BY <2>5, <2>6, <2>7, <2>8
<1> QED
  BY <1>1, <1>2

LEMMA SortsLonger ==
  ASSUME NEW n \in Nat, NEW m \in Nat, NEW f, SortsShort(f, n, m)
  PROVE  \E g : SortsShort(g, n, m + 1)
<1>1. f \in [Spans(n) -> [IntArrays(n) -> IntArrays(n)]]
  BY DEF SortsShort
<1> DEFINE G(t, b) == IF t[2] - t[1] < m THEN f[t][b] ELSE Sorts(f, b, t[1], t[2])
           g == [t \in Spans(n) |-> [b \in IntArrays(n) |-> G(t, b)]]
<1>2. \A t \in Spans(n), b \in IntArrays(n) : G(t, b) \in IntArrays(n)
  <2> TAKE t \in Spans(n), b \in IntArrays(n)
  <2>1. t[1] \in 0 .. n /\ t[2] \in -1 .. n - 1
    BY DEF Spans
  <2>2. Sorts(f, b, t[1], t[2]) \in IntArrays(n)
    BY <1>1, <2>1, SortsStays
  <2>3. f[t][b] \in IntArrays(n)
    BY <1>1
  <2> QED
    BY <2>2, <2>3
<1> HIDE DEF G
<1>3. g \in [Spans(n) -> [IntArrays(n) -> IntArrays(n)]]
  BY <1>2
<1>4. ASSUME NEW x \in 0 .. n, NEW y \in -1 .. n - 1, NEW b \in IntArrays(n)
      PROVE  /\ y - x < m => g[<<x, y>>][b] = f[<<x, y>>][b]
             /\ ~ (y - x < m) => g[<<x, y>>][b] = Sorts(f, b, x, y)
  <2>1. PICK t \in Spans(n) : t = <<x, y>>
    BY DEF Spans
  <2>2. t[1] = x /\ t[2] = y
    BY <2>1
  <2>3. g[t][b] = G(t, b)
    OBVIOUS
  <2> QED
    BY <2>1, <2>2, <2>3 DEF G
<1> HIDE DEF g
<1>5. ASSUME NEW x \in 0 .. n, NEW y \in -1 .. n - 1, y - x < m + 1, NEW b \in IntArrays(n)
      PROVE  g[<<x, y>>][b] = Sorts(g, b, x, y)
  <2>1. \A u \in 0 .. n, v \in -1 .. n - 1 : v - u < y - x =>
          \A c \in IntArrays(n) : g[<<u, v>>][c] = f[<<u, v>>][c]
    <3> SUFFICES ASSUME NEW u \in 0 .. n, NEW v \in -1 .. n - 1, v - u < y - x, NEW c \in IntArrays(n)
                 PROVE  g[<<u, v>>][c] = f[<<u, v>>][c]
      OBVIOUS
    <3>1. v - u < m
      BY <1>5
    <3> QED
      BY <1>4, <3>1
  <2>2. Sorts(g, b, x, y) = Sorts(f, b, x, y)
    BY <1>1, <2>1, SortsSame, ZenonT(60)
  <2>3. CASE y - x < m
    BY <1>4, <2>2, <2>3 DEF SortsShort
  <2>4. CASE ~ (y - x < m)
    BY <1>4, <2>2, <2>4
  <2> QED
    BY <2>3, <2>4
<1>6. SortsShort(g, n, m + 1)
  BY <1>3, <1>5 DEF SortsShort
<1> QED
  BY <1>6

LEMMA SortingExists ==
  ASSUME NEW n \in Nat
  PROVE  \E f : Sorting(f, n)
<1> DEFINE Bad == {m \in Nat : ~ \E f : SortsShort(f, n, m)}
<1>1. 0 \notin Bad
  <2> DEFINE f == [t \in Spans(n) |-> [b \in IntArrays(n) |-> b]]
  <2>1. f \in [Spans(n) -> [IntArrays(n) -> IntArrays(n)]]
    OBVIOUS
  <2>2. ASSUME NEW x \in 0 .. n, NEW y \in -1 .. n - 1, y - x < 0, NEW b \in IntArrays(n)
        PROVE  f[<<x, y>>][b] = Sorts(f, b, x, y)
    <3>1. <<x, y>> \in Spans(n) /\ x >= y
      BY <2>2 DEF Spans
    <3>2. f[<<x, y>>][b] = b
      BY <3>1
    <3> HIDE DEF f
    <3>3. Sorts(f, b, x, y) = b
      BY <3>1 DEF Sorts
    <3> QED
      BY <3>2, <3>3
  <2> HIDE DEF f
  <2>3. SortsShort(f, n, 0)
    BY <2>1, <2>2 DEF SortsShort
  <2> QED
    BY <2>3
<1>2. Bad = {}
  <2> SUFFICES ASSUME Bad # {} PROVE FALSE
    OBVIOUS
  <2>1. PICK k \in Bad : \A m \in Bad : k <= m
    <3>1. Bad \subseteq Nat
      OBVIOUS
    <3> QED
      BY <3>1, LeastNumber
  <2>2. k # 0 /\ k \in Nat
    BY <1>1
  <2>3. PICK m \in Nat : m + 1 = k
    <3>1. k - 1 \in Nat /\ (k - 1) + 1 = k
      BY <2>2
    <3> QED
      BY <3>1
  <2>4. m \notin Bad
    BY <2>1, <2>3
  <2>5. PICK f : SortsShort(f, n, m)
    BY <2>4
  <2>6. \E g : SortsShort(g, n, k)
    BY <2>3, <2>5, SortsLonger
  <2> QED
    BY <2>6
<1>3. PICK f : SortsShort(f, n, n)
  BY <1>2
<1>4. f = [t \in Spans(n) |-> [b \in IntArrays(n) |-> f[t][b]]]
  BY <1>3 DEF SortsShort
<1>5. ASSUME NEW t \in Spans(n), NEW b \in IntArrays(n)
      PROVE  f[t][b] = Sorts(f, b, t[1], t[2])
  <2>1. PICK x \in 0 .. n, y \in -1 .. n - 1 : t = <<x, y>>
    BY DEF Spans
  <2>2. y - x < n
    OBVIOUS
  <2>3. f[<<x, y>>][b] = Sorts(f, b, x, y)
    BY <1>3, <2>2 DEF SortsShort
  <2> QED
    BY <2>1, <2>3
<1>6. Sorting(f, n)
  BY <1>4, <1>5 DEF Sorting
<1> QED
  BY <1>6

\* What a call for <<first, last>> has to make of an array a.
SortedPart(n, a, b, first, last) ==
  /\ b \in IntArrays(n)
  /\ Shuffled(n, a, b, first, last)
  /\ Sorted(b, first, last)

\* Two sorted halves around a pivot are a sorted whole.
LEMMA HalvesSort ==
  ASSUME NEW n \in Nat, NEW x \in Indices(n), NEW y \in Indices(n), NEW p \in x .. y,
         NEW c \in IntArrays(n), Partitioned(n, c, x, p, y),
         NEW d, SortedPart(n, c, d, x, p - 1),
         NEW e, SortedPart(n, d, e, p + 1, y)
  PROVE  SortedPart(n, c, e, x, y) /\ Partitioned(n, e, x, p, y)
<1>1. x \in Int /\ y \in Int /\ p \in Int /\ p \in Indices(n) /\ x <= p /\ p <= y
  BY DEF Indices
<1>2. \A i \in x .. y : i \in Indices(n) /\ i \in Int
  BY DEF Indices
<1>3. Shuffled(n, c, e, x, y)
  <2>1. Shuffled(n, c, d, x, y)
    <3>1. p - 1 <= y /\ p - 1 \in Int /\ x <= x
      BY <1>1
    <3> QED
      BY <1>1, <3>1, ShuffledWider DEF SortedPart
  <2>2. Shuffled(n, d, e, x, y)
    <3>1. x <= p + 1 /\ p + 1 \in Int /\ y <= y
      BY <1>1
    <3> QED
      BY <1>1, <3>1, ShuffledWider DEF SortedPart
  <2> QED
    BY <1>1, <2>1, <2>2, ShuffledTwice
<1>4. \A i \in Indices(n) : c[i] \in Int /\ d[i] \in Int /\ e[i] \in Int
  BY DEF SortedPart, IntArrays
<1>5. d[p] = c[p] /\ \A i \in Indices(n) : i > p => d[i] = c[i]
  <2>1. p - 1 \in Int /\ \A i \in Indices(n) : i >= p => i > p - 1
    BY <1>1 DEF Indices
  <2>2. Shuffled(n, c, d, x, p - 1)
    BY DEF SortedPart
  <2>3. \A i \in Indices(n) : i > p - 1 => d[i] = c[i]
    BY <1>1, <2>1, <2>2, ShuffledPart
  <2>4. \A i \in Indices(n) : i > p => i > p - 1
    BY <1>1 DEF Indices
  <2> QED
    BY <1>1, <2>1, <2>3, <2>4
<1>6. \A i \in Indices(n) : i <= p => e[i] = d[i]
  <2>1. p + 1 \in Int /\ \A i \in Indices(n) : i <= p => i < p + 1
    BY <1>1 DEF Indices
  <2>2. Shuffled(n, d, e, p + 1, y)
    BY DEF SortedPart
  <2> QED
    BY <1>1, <2>1, <2>2, ShuffledPart
<1>7. \A i \in Indices(n) : x <= i /\ i < p => e[i] <= c[p]
  <2> SUFFICES ASSUME NEW i \in Indices(n), x <= i, i < p PROVE e[i] <= c[p]
    OBVIOUS
  <2>1. i <= p - 1 /\ i <= p /\ p - 1 \in Int
    BY <1>1 DEF Indices
  <2>2. PICK j \in Indices(n) : x <= j /\ j <= p - 1 /\ d[i] = c[j]
    BY <1>1, <2>1, ShuffledPart DEF SortedPart
  <2>3. j < p
    BY <1>1, <2>2 DEF Indices
  <2> QED
    BY <1>6, <2>1, <2>2, <2>3 DEF Partitioned
<1>8. \A i \in Indices(n) : p < i /\ i <= y => e[i] > c[p]
  <2> SUFFICES ASSUME NEW i \in Indices(n), p < i, i <= y PROVE e[i] > c[p]
    OBVIOUS
  <2>1. p + 1 <= i /\ p + 1 \in Int
    BY <1>1 DEF Indices
  <2>2. PICK j \in Indices(n) : p + 1 <= j /\ j <= y /\ e[i] = d[j]
    BY <1>1, <2>1, ShuffledPart DEF SortedPart
  <2>3. p < j
    BY <1>1, <2>2 DEF Indices
  <2> QED
    BY <1>5, <2>2, <2>3 DEF Partitioned
<1>9. e[p] = c[p]
  BY <1>1, <1>5, <1>6
<1>10. ASSUME NEW i \in x .. y, NEW j \in x .. y, i <= j PROVE e[i] <= e[j]
  <2>0. i \in Indices(n) /\ j \in Indices(n) /\ i \in Int /\ j \in Int
    BY <1>2
  <2>1. CASE j < p
    <3>1. i \in x .. p - 1 /\ j \in x .. p - 1 /\ i <= p /\ j <= p
      BY <1>1, <1>10, <2>0, <2>1
    <3>2. d[i] <= d[j]
      BY <1>10, <3>1 DEF SortedPart, Sorted
    <3> QED
      BY <1>6, <2>0, <3>1, <3>2
  <2>2. CASE i < p /\ j >= p
    <3>1. e[i] <= c[p]
      BY <1>7, <2>0, <2>2
    <3>2. j = p => e[j] = c[p]
      BY <1>9
    <3>3. j > p => e[j] > c[p]
      BY <1>8, <2>0
    <3> QED
      BY <1>1, <1>4, <2>0, <2>2, <3>1, <3>2, <3>3
  <2>3. CASE i = p
    <3>1. j > p => e[j] > c[p]
      BY <1>8, <2>0
    <3> QED
      BY <1>1, <1>4, <1>9, <1>10, <2>0, <2>3, <3>1
  <2>4. CASE i > p
    <3>1. i \in p + 1 .. y /\ j \in p + 1 .. y
      BY <1>1, <1>10, <2>0, <2>4
    <3> QED
      BY <1>10, <3>1 DEF SortedPart, Sorted
  <2> QED
    BY <1>1, <1>10, <2>0, <2>1, <2>2, <2>3, <2>4
<1>11. Sorted(e, x, y)
  BY <1>10 DEF Sorted
<1>12. e \in IntArrays(n)
  BY DEF SortedPart
<1> QED
  BY <1>3, <1>7, <1>8, <1>9, <1>11, <1>12 DEF SortedPart, Partitioned

LEMMA SortingSorts ==
  ASSUME NEW n \in Nat, NEW f, Sorting(f, n)
  PROVE  \A x \in 0 .. n, y \in -1 .. n - 1 :
           \A b \in IntArrays(n) : SortedPart(n, b, f[<<x, y>>][b], x, y)
<1> DEFINE Good(x, y) == \A b \in IntArrays(n) : SortedPart(n, b, f[<<x, y>>][b], x, y)
           Bad == {m \in Nat : \E x \in 0 .. n, y \in -1 .. n - 1 : y - x < m /\ ~ Good(x, y)}
<1>1. ASSUME NEW x \in 0 .. n, NEW y \in -1 .. n - 1, NEW b \in IntArrays(n)
      PROVE  f[<<x, y>>][b] = Sorts(f, b, x, y)
  <2>1. PICK t \in Spans(n) : t = <<x, y>>
    BY DEF Spans
  <2>2. t[1] = x /\ t[2] = y
    BY <2>1
  <2>3. f[t] = [c \in IntArrays(n) |-> Sorts(f, c, t[1], t[2])]
    BY Zenon DEF Sorting
  <2>4. f[t][b] = Sorts(f, b, t[1], t[2])
    BY <2>3
  <2> QED
    BY <2>1, <2>2, <2>4
<1>2. ASSUME NEW x \in 0 .. n, NEW y \in -1 .. n - 1, x >= y
      PROVE  Good(x, y)
  <2> SUFFICES ASSUME NEW b \in IntArrays(n) PROVE SortedPart(n, b, f[<<x, y>>][b], x, y)
    OBVIOUS
  <2>1. f[<<x, y>>][b] = b
    BY <1>1, <1>2 DEF Sorts
  <2>2. Shuffled(n, b, b, x, y)
    <3>1. x \in Int /\ y \in Int
      OBVIOUS
    <3> QED
      BY <3>1, ShuffledSame
  <2>3. \A i, j \in x .. y : i = j /\ i \in Indices(n)
    BY <1>2 DEF Indices
  <2>4. \A i \in Indices(n) : b[i] <= b[i]
    BY DEF IntArrays
  <2>5. Sorted(b, x, y)
    BY <2>3, <2>4 DEF Sorted
  <2> QED
    BY <2>1, <2>2, <2>5 DEF SortedPart
<1>3. ASSUME NEW x \in 0 .. n, NEW y \in -1 .. n - 1, x < y,
             \A u \in 0 .. n, v \in -1 .. n - 1 : v - u < y - x => Good(u, v)
      PROVE  Good(x, y)
  <2> SUFFICES ASSUME NEW b \in IntArrays(n) PROVE SortedPart(n, b, f[<<x, y>>][b], x, y)
    OBVIOUS
  <2>1. PICK r : r = pivot(b, x, y)
    OBVIOUS
  <2>2. PICK c \in IntArrays(n), p \in x .. y : c = r.array /\ p = r.p
    BY <1>3, <2>1, Halves
  <2>3. /\ x \in Indices(n) /\ y \in Indices(n) /\ x \in Int /\ y \in Int
        /\ Shuffled(n, b, c, x, y)
        /\ Partitioned(n, c, x, p, y)
        /\ p - 1 \in -1 .. n - 1 /\ p - 1 - x < y - x
        /\ p + 1 \in 0 .. n /\ y - (p + 1) < y - x
    <3>1. /\ x \in Indices(n) /\ y \in Indices(n)
          /\ Shuffled(n, b, r.array, x, y)
          /\ Partitioned(n, r.array, x, r.p, y)
      BY <1>3, <2>1, Halves
    <3>2. /\ p - 1 \in -1 .. n - 1 /\ p - 1 - x < y - x
          /\ p + 1 \in 0 .. n /\ y - (p + 1) < y - x /\ x \in Int /\ y \in Int
      OBVIOUS
    <3> QED
      BY <2>2, <3>1, <3>2
  <2>4. f[<<x, y>>][b] = f[<<p + 1, y>>][f[<<x, p - 1>>][c]]
    <3>1. ~ (x >= y)
      BY <1>3
    <3> QED
      BY <1>1, <2>1, <2>2, <3>1 DEF Sorts
  <2>5. PICK d : d = f[<<x, p - 1>>][c]
    OBVIOUS
  <2>6. SortedPart(n, c, d, x, p - 1)
    BY <1>3, <2>3, <2>5
  <2>7. PICK e : e = f[<<p + 1, y>>][d]
    OBVIOUS
  <2>8. SortedPart(n, d, e, p + 1, y)
    BY <1>3, <2>3, <2>6, <2>7 DEF SortedPart
  <2>9. SortedPart(n, c, e, x, y)
    BY <2>3, <2>6, <2>8, HalvesSort
  <2>10. Shuffled(n, b, e, x, y)
    BY <2>3, <2>9, ShuffledTwice DEF SortedPart
  <2>11. SortedPart(n, b, e, x, y)
    BY <2>9, <2>10 DEF SortedPart
  <2> QED
    BY <2>4, <2>5, <2>7, <2>11
<1> HIDE DEF Good
<1>4. Bad = {}
  <2> SUFFICES ASSUME Bad # {} PROVE FALSE
    OBVIOUS
  <2>1. PICK k \in Bad : \A m \in Bad : k <= m
    <3>1. Bad \subseteq Nat
      OBVIOUS
    <3> QED
      BY <3>1, LeastNumber
  <2>2. PICK x \in 0 .. n, y \in -1 .. n - 1 : y - x < k /\ ~ Good(x, y)
    OBVIOUS
  <2>3. x < y
    BY <1>2, <2>2
  <2>4. ASSUME NEW u \in 0 .. n, NEW v \in -1 .. n - 1, v - u < y - x PROVE Good(u, v)
    <3>1. y - x \in Nat /\ ~ (k <= y - x)
      BY <2>2, <2>3
    <3>2. y - x \notin Bad
      BY <2>1, <3>1
    <3> QED
      BY <2>4, <3>1, <3>2
  <2> QED
    BY <1>3, <2>2, <2>3, <2>4
<1>5. ASSUME NEW x \in 0 .. n, NEW y \in -1 .. n - 1 PROVE Good(x, y)
  <2>1. n \in Nat /\ y - x < n
    OBVIOUS
  <2> QED
    BY <1>4, <2>1
<1> QED
  BY <1>5 DEF Good

\* serial_quicksort sorts the part of the array it is called for and leaves the
\* rest alone.
THEOREM SerialSortsPart ==
  ASSUME NEW n \in Nat, NEW a \in IntArrays(n), NEW x \in 0 .. n, NEW y \in -1 .. n - 1
  PROVE  SortedPart(n, a, serial_quicksort(a, <<x, y>>), x, y)
<1>1. PICK g : Sorting(g, n)
  BY SortingExists
<1>2. DOMAIN a = Indices(n)
  BY DEF IntArrays
<1>3. PICK f : Sorting(f, n) /\ serial_quicksort(a, <<x, y>>) = f[<<x, y>>][a]
  BY <1>1, <1>2, SerialSorts
<1> QED
  BY <1>3, SortingSorts

-------------------------------------------------------------------------------
(* Places in the sorted order *)

\* x is what a sorted array would have at i, if g is the array.
Fits(n, g, x, i) ==
  /\ Cardinality({j \in Indices(n) : g[j] < x}) <= i
  /\ Cardinality({j \in Indices(n) : g[j] <= x}) > i

\* In a shuffled array, an element that nothing before it exceeds and nothing
\* behind it is less than is where a sorted array has it.
LEMMA ShuffledInPlace ==
  ASSUME NEW n \in Nat, NEW g \in IntArrays(n), NEW a \in IntArrays(n),
         Shuffled(n, g, a, 0, n - 1), NEW i \in Indices(n),
         \A j \in Indices(n) : j < i => a[j] <= a[i],
         \A j \in Indices(n) : j > i => a[j] >= a[i]
  PROVE  Fits(n, g, a[i], i)
<1>1. PICK f : Shuffles(f, n, g, a, 0, n - 1)
  BY DEF Shuffled
<1>2. /\ f \in [Indices(n) -> Indices(n)]
      /\ \A k, l \in Indices(n) : f[k] = f[l] => k = l
      /\ \A l \in Indices(n) : \E k \in Indices(n) : f[k] = l
      /\ \A k \in Indices(n) : a[k] = g[f[k]]
  BY <1>1 DEF Shuffles
<1>3. PICK x \in Int : x = a[i]
  BY DEF IntArrays
<1>4. i \in Nat /\ i < n /\ \A k \in 0 .. i : k \in Indices(n) /\ (k < i \/ k = i)
  BY DEF Indices
<1>5. \A k \in Indices(n) : a[k] \in Int /\ g[k] \in Int
  BY DEF IntArrays
<1>6. Cardinality({j \in Indices(n) : g[j] < x}) <= i
  <2> DEFINE S == {k \in Indices(n) : a[k] < x}
             T == {j \in Indices(n) : g[j] < x}
             h == [k \in S |-> f[k]]
  <2>1. S \subseteq 0 .. i - 1
    <3> SUFFICES ASSUME NEW k \in Indices(n), a[k] < x PROVE k \in 0 .. i - 1
      OBVIOUS
    <3>1. ~ (k > i) /\ k # i
      BY <1>3, <1>5
    <3> QED
      BY <1>4, <3>1 DEF Indices
  <2>2. h \in [S -> T]
    BY <1>2
  <2>3. \A j \in T : \E k \in S : h[k] = j
    BY <1>2
  <2> HIDE DEF S, T, h
  <2>4. h \in Surjection(S, T)
    BY <2>2, <2>3, Fun_IsSurj
  <2>5. IsFiniteSet(0 .. i - 1) /\ Cardinality(0 .. i - 1) = i
    <3>1. 0 \in Int /\ i - 1 \in Int
      BY <1>4
    <3>2. IsFiniteSet(0 .. i - 1) /\ Cardinality(0 .. i - 1) = IF 0 > i - 1 THEN 0 ELSE i - 1 - 0 + 1
      BY <3>1, FS_Interval
    <3> QED
      BY <1>4, <3>2
  <2>6. IsFiniteSet(S) /\ Cardinality(S) <= i
    <3>1. S \in SUBSET (0 .. i - 1)
      BY <2>1
    <3> QED
      BY <2>5, <3>1, FS_Subset
  <2>7. IsFiniteSet(T) /\ Cardinality(T) <= Cardinality(S)
    BY <2>4, <2>6, FS_Surjection
  <2>8. Cardinality(S) \in Nat /\ Cardinality(T) \in Nat
    BY <2>6, <2>7, FS_CardinalityType
  <2>9. Cardinality(T) <= i
    BY <1>4, <2>6, <2>7, <2>8
  <2> QED
    BY <2>9 DEF T
<1>7. Cardinality({j \in Indices(n) : g[j] <= x}) > i
  <2> DEFINE T == {j \in Indices(n) : g[j] <= x}
             h == [k \in 0 .. i |-> f[k]]
  <2>1. h \in [0 .. i -> T]
    BY <1>2, <1>3, <1>4, <1>5
  <2>2. \A k, l \in 0 .. i : h[k] = h[l] => k = l
    BY <1>2, <1>4
  <2>3. IsFiniteSet(T)
    <3>1. IsFiniteSet(Indices(n))
      BY FS_Interval DEF Indices
    <3>2. T \in SUBSET Indices(n)
      OBVIOUS
    <3> QED
      BY <3>1, <3>2, FS_Subset
  <2> HIDE DEF T, h
  <2>4. h \in Injection(0 .. i, T)
    BY <2>1, <2>2, Fun_IsInj
  <2>5. Cardinality(0 .. i) <= Cardinality(T)
    BY <2>3, <2>4, FS_Injection
  <2>6. Cardinality(0 .. i) = i + 1
    <3>1. Cardinality(0 .. i) = IF 0 > i THEN 0 ELSE i - 0 + 1
      BY <1>4, FS_Interval
    <3> QED
      BY <1>4, <3>1
  <2>7. Cardinality(T) \in Nat
    BY <2>3, FS_CardinalityType
  <2>8. Cardinality(T) > i
    BY <1>4, <2>5, <2>6, <2>7
  <2> QED
    BY <2>8 DEF T
<1> QED
  BY <1>3, <1>6, <1>7 DEF Fits

\* An element of an array that nothing before it exceeds and nothing behind it
\* is less than.
Around(n, a, p) ==
  /\ \A i \in Indices(n) : i < p => a[i] <= a[p]
  /\ \A i \in Indices(n) : i > p => a[i] >= a[p]

\* It remains one when a part that it is not in is shuffled.
LEMMA AroundShuffled ==
  ASSUME NEW n \in Nat, NEW a \in IntArrays(n), NEW b \in IntArrays(n),
         NEW x \in Int, NEW y \in Int, Shuffled(n, a, b, x, y),
         NEW p \in Indices(n), p < x \/ p > y, Around(n, a, p)
  PROVE  b[p] = a[p] /\ Around(n, b, p)
<1>1. \A i \in Indices(n) : i \in Int
  BY DEF Indices
<1>2. \A i \in Indices(n) : i < x \/ i > y => b[i] = a[i]
  BY ShuffledPart
<1>3. \A i \in Indices(n) : x <= i /\ i <= y =>
        \E j \in Indices(n) : x <= j /\ j <= y /\ b[i] = a[j]
  BY ShuffledPart
<1>4. b[p] = a[p]
  BY <1>2
<1>5. ASSUME NEW i \in Indices(n)
      PROVE  (i < p => b[i] <= b[p]) /\ (i > p => b[i] >= b[p])
  <2>1. CASE i < x \/ i > y
    BY <1>2, <1>4, <2>1 DEF Around
  <2>2. CASE x <= i /\ i <= y
    <3>1. PICK j \in Indices(n) : x <= j /\ j <= y /\ b[i] = a[j]
      BY <1>3, <2>2
    <3>2. (i < p => j < p) /\ (i > p => j > p)
      BY <1>1, <2>2, <3>1
    <3> QED
      BY <1>4, <3>1, <3>2 DEF Around
  <2> QED
    BY <1>1, <2>1, <2>2
<1> QED
  BY <1>4, <1>5 DEF Around

\* The elements of a part that are greater than v still are when something
\* inside or outside of the part is shuffled.
LEMMA GreaterShuffled ==
  ASSUME NEW n \in Nat, NEW a \in IntArrays(n), NEW b \in IntArrays(n),
         NEW x \in Int, NEW y \in Int, Shuffled(n, a, b, x, y),
         NEW first \in Int, NEW last \in Int, NEW v \in Int,
         y < first \/ x > last \/ (first <= x /\ y <= last),
         \A i \in Indices(n) : first <= i /\ i <= last => a[i] > v
  PROVE  \A i \in Indices(n) : first <= i /\ i <= last => b[i] > v
<1>1. \A i \in Indices(n) : i \in Int
  BY DEF Indices
<1>2. \A i \in Indices(n) : i < x \/ i > y => b[i] = a[i]
  BY ShuffledPart
<1>3. \A i \in Indices(n) : x <= i /\ i <= y =>
        \E j \in Indices(n) : x <= j /\ j <= y /\ b[i] = a[j]
  BY ShuffledPart
<1> SUFFICES ASSUME NEW i \in Indices(n), first <= i, i <= last
             PROVE  b[i] > v
  OBVIOUS
<1>4. CASE i < x \/ i > y
  BY <1>2, <1>4
<1>5. CASE x <= i /\ i <= y
  <2>1. PICK j \in Indices(n) : x <= j /\ j <= y /\ b[i] = a[j]
    BY <1>3, <1>5
  <2>2. first <= j /\ j <= last
    BY <1>1, <1>5, <2>1
  <2> QED
    BY <2>1, <2>2
<1> QED
  BY <1>1, <1>4, <1>5

\* A part whose neighbours are elements of this kind, partitioned: the pivot
\* is one as well.
LEMMA PartAround ==
  ASSUME NEW n \in Nat, NEW b \in IntArrays(n), NEW x \in Indices(n), NEW y \in Indices(n),
         NEW p \in x .. y, Partitioned(n, b, x, p, y),
         x = 0 \/ Around(n, b, x - 1), y = n - 1 \/ Around(n, b, y + 1)
  PROVE  Around(n, b, p)
<1>1. \A i \in Indices(n) : i \in Int /\ 0 <= i /\ i <= n - 1 /\ b[i] \in Int
  BY DEF Indices, IntArrays
<1>2. p \in Indices(n) /\ p \in Int /\ x <= p /\ p <= y /\ x \in Int /\ y \in Int
  BY DEF Indices
<1>3. ASSUME NEW i \in Indices(n), i < p
      PROVE  b[i] <= b[p]
  <2>1. CASE x <= i
    BY <1>2, <1>3, <2>1 DEF Partitioned
  <2>2. CASE i < x
    <3>1. x # 0 /\ x - 1 \in Indices(n)
      BY <1>1, <1>2, <2>2 DEF Indices
    <3>2. i < x - 1 \/ i = x - 1
      BY <1>1, <1>2, <2>2
    <3>3. b[i] <= b[x - 1]
      BY <1>1, <3>1, <3>2 DEF Around
    <3>4. p > x - 1
      BY <1>2
    <3>5. b[p] >= b[x - 1]
      BY <1>2, <3>1, <3>4 DEF Around
    <3> QED
      BY <1>1, <1>2, <3>1, <3>3, <3>5
  <2> QED
    BY <1>1, <1>2, <2>1, <2>2
<1>4. ASSUME NEW i \in Indices(n), i > p
      PROVE  b[i] >= b[p]
  <2>1. CASE i <= y
    BY <1>1, <1>2, <1>4, <2>1 DEF Partitioned
  <2>2. CASE i > y
    <3>1. y # n - 1 /\ y + 1 \in Indices(n)
      BY <1>1, <1>2, <2>2 DEF Indices
    <3>2. i > y + 1 \/ i = y + 1
      BY <1>1, <1>2, <2>2
    <3>3. b[i] >= b[y + 1]
      BY <1>1, <3>1, <3>2 DEF Around
    <3>4. p < y + 1
      BY <1>2
    <3>5. b[p] <= b[y + 1]
      BY <1>2, <3>1, <3>4 DEF Around
    <3> QED
      BY <1>1, <1>2, <3>1, <3>3, <3>5
  <2> QED
    BY <1>1, <1>2, <2>1, <2>2
<1> QED
  BY <1>3, <1>4 DEF Around

-------------------------------------------------------------------------------
(* The calls of a run *)

Pcs == {"begin", "serial", "count", "create_left", "create_right", "join_left", "join_right",
        "fork", "sort", "read", "wait", "returned", "exited"}
States == [pc : Pcs, p : Nat]

CallOK(s, v) ==
  /\ s[1] - 1 <= s[2]
  /\ v.pc \notin {"begin", "returned"} => s[1] < s[2]
  /\ s[1] < s[2] /\ v.pc # "begin" => v.p \in s[1] .. s[2]

CallsOK(n, c) ==
  /\ IsFiniteSet(DOMAIN c)
  /\ <<0, n - 1>> \in DOMAIN c
  /\ DOMAIN c \subseteq Spans(n)
  /\ c \in [DOMAIN c -> States]
  /\ \A s \in DOMAIN c : CallOK(s, c[s])

LeftOf(c, s) == <<s[1], c[s].p - 1>>
RightOf(c, s) == <<c[s].p + 1, s[2]>>
Split(c, s) == s[1] < s[2] /\ c[s].pc # "begin"

\* t has given a part that s lies in to a thread, and has not returned before s.
Below(c, s, t) ==
  /\ Split(c, t)
  /\ \/ /\ c[t].pc \in {"create_right", "join_left", "join_right", "returned"}
        /\ t[1] <= s[1] /\ s[2] < c[t].p
     \/ /\ c[t].pc \in {"join_left", "join_right", "returned"}
        /\ c[t].p < s[1] /\ s[2] <= t[2]
  /\ c[t].pc = "returned" => c[s].pc = "returned"

\* There is a pivot between s and t.
Apart(s, t) == s[2] + 1 < t[1]

Relate(c, s, t) ==
  s = t \/ Apart(s, t) \/ Apart(t, s) \/ Below(c, s, t) \/ Below(c, t, s)

\* s is a half of t and as far as t needs it.
HalfOf(c, s, t) ==
  /\ Split(c, t)
  /\ \/ s = LeftOf(c, t) /\ c[t].pc \in {"create_right", "join_left"}
     \/ s = LeftOf(c, t) /\ c[t].pc \in {"join_right", "returned"} /\ c[s].pc = "returned"
     \/ s = RightOf(c, t) /\ c[t].pc \in {"join_left", "join_right"}
     \/ s = RightOf(c, t) /\ c[t].pc = "returned" /\ c[s].pc = "returned"

HasHalves(c, t) ==
  /\ c[t].pc \in {"create_right", "join_left", "join_right"} => LeftOf(c, t) \in DOMAIN c
  /\ c[t].pc \in {"join_left", "join_right"} => RightOf(c, t) \in DOMAIN c
  /\ c[t].pc = "join_right" => c[LeftOf(c, t)].pc = "returned"

TreeOK(n, c) ==
  /\ \A s, t \in DOMAIN c : Relate(c, s, t)
  /\ \A s \in DOMAIN c : s = <<0, n - 1>> \/ \E t \in DOMAIN c : HalfOf(c, s, t)
  /\ \A t \in DOMAIN c : HasHalves(c, t)

LEMMA SpanPair ==
  ASSUME NEW n \in Nat, NEW s \in Spans(n)
  PROVE  s = <<s[1], s[2]>> /\ s[1] \in 0 .. n /\ s[2] \in -1 .. n - 1 /\ s[1] \in Int /\ s[2] \in Int
BY DEF Spans

LEMMA CallBounds ==
  ASSUME NEW n \in Nat, NEW c, CallsOK(n, c), NEW s \in DOMAIN c
  PROVE  /\ s = <<s[1], s[2]>> /\ s[1] \in 0 .. n /\ s[2] \in -1 .. n - 1 /\ s[1] - 1 <= s[2]
         /\ s[1] \in Int /\ s[2] \in Int
         /\ c[s] \in States /\ c[s].p \in Nat
         /\ Split(c, s) => s[1] <= c[s].p /\ c[s].p <= s[2]
<1>1. s \in Spans(n)
  BY DEF CallsOK
<1>2. s = <<s[1], s[2]>> /\ s[1] \in 0 .. n /\ s[2] \in -1 .. n - 1 /\ s[1] \in Int /\ s[2] \in Int
  BY <1>1, SpanPair
<1>3. CallOK(s, c[s]) /\ c[s] \in States
  BY DEF CallsOK
<1>4. c[s].p \in Nat
  BY <1>3 DEF States
<1>5. Split(c, s) => c[s].p \in s[1] .. s[2]
  BY <1>3 DEF Split, CallOK
<1>6. Split(c, s) => s[1] <= c[s].p /\ c[s].p <= s[2]
  BY <1>2, <1>4, <1>5
<1> QED
  BY <1>2, <1>3, <1>4, <1>6 DEF CallOK

\* A call goes on.
LEMMA CallMoves ==
  ASSUME NEW n \in Nat, NEW c, CallsOK(n, c), NEW s \in DOMAIN c,
         NEW v \in States, CallOK(s, v), NEW d, d = [c EXCEPT ![s] = v]
  PROVE  /\ CallsOK(n, d) /\ DOMAIN d = DOMAIN c /\ d[s] = v
         /\ \A t \in DOMAIN c : t # s => d[t] = c[t]
<1>1. DOMAIN d = DOMAIN c /\ d[s] = v /\ \A t \in DOMAIN c : t # s => d[t] = c[t]
  OBVIOUS
<1>2. d \in [DOMAIN d -> States]
  BY DEF CallsOK
<1>3. \A t \in DOMAIN d : CallOK(t, d[t])
  BY <1>1 DEF CallsOK
<1> QED
  BY <1>1, <1>2, <1>3 DEF CallsOK

\* What a call does before it creates a thread, and what it does without
\* creating any.
LEMMA EarlyMoves ==
  ASSUME NEW n \in Nat, NEW c, NEW d, TreeOK(n, c), NEW s \in DOMAIN c, DOMAIN d = DOMAIN c,
         \A t \in DOMAIN c : t # s => d[t] = c[t],
         c[s].pc \in {"begin", "serial", "count"},
         d[s].pc \in {"serial", "count", "create_left", "returned", "fork"}
  PROVE  TreeOK(n, d)
<1>1. ASSUME NEW t \in DOMAIN c, NEW u \in DOMAIN c, Below(c, t, u)
      PROVE  Below(d, t, u)
  <2>1. u # s
    BY <1>1 DEF Below
  <2>2. t = s => c[u].pc # "returned"
    BY <1>1 DEF Below
  <2>3. d[u] = c[u] /\ (t # s => d[t] = c[t])
    BY <2>1
  <2>4. Split(d, u)
    BY <1>1, <2>3 DEF Below, Split
  <2>5. d[u].pc = "returned" => d[t].pc = "returned"
    BY <1>1, <2>2, <2>3 DEF Below
  <2> QED
    BY <1>1, <2>3, <2>4, <2>5 DEF Below
<1>2. \A t, u \in DOMAIN d : Relate(d, t, u)
  BY <1>1 DEF TreeOK, Relate
<1>3. ASSUME NEW u \in DOMAIN c, NEW t \in DOMAIN c, HalfOf(c, u, t)
      PROVE  HalfOf(d, u, t)
  <2>1. t # s
    BY <1>3 DEF HalfOf
  <2>2. d[t] = c[t] /\ Split(d, t) /\ LeftOf(d, t) = LeftOf(c, t) /\ RightOf(d, t) = RightOf(c, t)
    BY <1>3, <2>1 DEF HalfOf, Split, LeftOf, RightOf
  <2>3. c[u].pc = "returned" => d[u].pc = "returned"
    <3>1. CASE u = s
      BY <3>1
    <3>2. CASE u # s
      BY <3>2
    <3> QED
      BY <3>1, <3>2
  <2> QED
    BY <1>3, <2>2, <2>3 DEF HalfOf
<1>4. \A u \in DOMAIN d : u = <<0, n - 1>> \/ \E t \in DOMAIN d : HalfOf(d, u, t)
  BY <1>3 DEF TreeOK
<1>5. ASSUME NEW t \in DOMAIN c
      PROVE  HasHalves(d, t)
  <2>1. CASE t = s
    BY <2>1 DEF HasHalves
  <2>2. CASE t # s
    <3>1. d[t] = c[t] /\ LeftOf(d, t) = LeftOf(c, t) /\ RightOf(d, t) = RightOf(c, t)
      BY <2>2 DEF LeftOf, RightOf
    <3>2. HasHalves(c, t)
      BY DEF TreeOK
    <3>3. ASSUME d[t].pc = "join_right"
          PROVE  d[LeftOf(c, t)].pc = "returned"
      <4>1. LeftOf(c, t) \in DOMAIN c /\ c[LeftOf(c, t)].pc = "returned"
        BY <3>1, <3>2, <3>3 DEF HasHalves
      <4>2. LeftOf(c, t) # s
        BY <4>1
      <4> QED
        BY <4>1, <4>2
    <3> QED
      BY <3>1, <3>2, <3>3 DEF HasHalves
  <2> QED
    BY <2>1, <2>2
<1> QED
  BY <1>2, <1>4, <1>5 DEF TreeOK

\* When the halves of a call have returned, so has everything below it.
LEMMA BelowReturned ==
  ASSUME NEW n \in Nat, NEW c, CallsOK(n, c), TreeOK(n, c),
         NEW s \in DOMAIN c, NEW t \in DOMAIN c, Below(c, t, s),
         LeftOf(c, s) \in DOMAIN c, c[LeftOf(c, s)].pc = "returned",
         RightOf(c, s) \in DOMAIN c, c[RightOf(c, s)].pc = "returned"
  PROVE  c[t].pc = "returned"
<1>1. PICK p : p = c[s].p
  OBVIOUS
<1>2. p \in Int /\ s[1] <= p /\ p <= s[2] /\ s[1] \in Int /\ s[2] \in Int
  <2>1. Split(c, s)
    BY DEF Below
  <2>2. s[1] \in Int /\ s[2] \in Int /\ p \in Nat /\ (Split(c, s) => s[1] <= p /\ p <= s[2])
    BY <1>1, CallBounds
  <2> QED
    BY <2>1, <2>2
<1>3. PICK q : q = c[t].p
  OBVIOUS
<1>4. /\ t[1] \in Int /\ t[2] \in Int /\ t[1] - 1 <= t[2]
      /\ q \in Int /\ (Split(c, t) => t[1] <= q /\ q <= t[2])
  BY <1>3, CallBounds
<1>5. CASE s[1] <= t[1] /\ t[2] < p
  <2>1. PICK l \in DOMAIN c : l = LeftOf(c, s)
    OBVIOUS
  <2>2. l[1] = s[1] /\ l[2] = p - 1 /\ c[l].pc = "returned"
    BY <1>1, <2>1 DEF LeftOf
  <2>3. Relate(c, t, l)
    BY DEF TreeOK
  <2>4. ~ Apart(t, l)
    BY <1>2, <1>4, <1>5, <2>2 DEF Apart
  <2>5. ~ Apart(l, t)
    BY <1>2, <1>4, <1>5, <2>2 DEF Apart
  <2>6. ~ Below(c, l, t)
    <3> SUFFICES ASSUME Below(c, l, t) PROVE FALSE
      OBVIOUS
    <3>1. Split(c, t) /\ ((t[1] <= l[1] /\ l[2] < q) \/ (q < l[1] /\ l[2] <= t[2]))
      BY <1>3 DEF Below
    <3> QED
      BY <1>2, <1>4, <1>5, <2>2, <3>1
  <2>7. t = l \/ Below(c, t, l)
    BY <2>3, <2>4, <2>5, <2>6 DEF Relate
  <2> QED
    BY <2>2, <2>7 DEF Below
<1>6. CASE p < t[1] /\ t[2] <= s[2]
  <2>1. PICK r \in DOMAIN c : r = RightOf(c, s)
    OBVIOUS
  <2>2. r[1] = p + 1 /\ r[2] = s[2] /\ c[r].pc = "returned"
    BY <1>1, <2>1 DEF RightOf
  <2>3. Relate(c, t, r)
    BY DEF TreeOK
  <2>4. ~ Apart(t, r)
    BY <1>2, <1>4, <1>6, <2>2 DEF Apart
  <2>5. ~ Apart(r, t)
    BY <1>2, <1>4, <1>6, <2>2 DEF Apart
  <2>6. ~ Below(c, r, t)
    <3> SUFFICES ASSUME Below(c, r, t) PROVE FALSE
      OBVIOUS
    <3>1. Split(c, t) /\ ((t[1] <= r[1] /\ r[2] < q) \/ (q < r[1] /\ r[2] <= t[2]))
      BY <1>3 DEF Below
    <3> QED
      BY <1>2, <1>4, <1>6, <2>2, <3>1
  <2>7. t = r \/ Below(c, t, r)
    BY <2>3, <2>4, <2>5, <2>6 DEF Relate
  <2> QED
    BY <2>2, <2>7 DEF Below
<1> QED
  BY <1>1, <1>5, <1>6 DEF Below

\* The two joins.
LEMMA JoinMoves ==
  ASSUME NEW n \in Nat, NEW c, NEW d, CallsOK(n, c), TreeOK(n, c), NEW s \in DOMAIN c,
         DOMAIN d = DOMAIN c, \A t \in DOMAIN c : t # s => d[t] = c[t], d[s].p = c[s].p,
         \/ c[s].pc = "join_left" /\ d[s].pc = "join_right" /\ c[LeftOf(c, s)].pc = "returned"
         \/ c[s].pc = "join_right" /\ d[s].pc = "returned" /\ c[RightOf(c, s)].pc = "returned"
  PROVE  TreeOK(n, d)
<1>1. \A t \in DOMAIN c : LeftOf(d, t) = LeftOf(c, t) /\ RightOf(d, t) = RightOf(c, t)
  BY DEF LeftOf, RightOf
<1>2. \A t \in DOMAIN c : Split(c, t) => Split(d, t)
  BY DEF Split
<1>3. \A t \in DOMAIN c : c[t].pc = "returned" => d[t].pc = "returned"
  BY Zenon
<1>4. HasHalves(c, s) /\ CallOK(s, c[s])
  BY DEF TreeOK, CallsOK
<1>5. ASSUME NEW t \in DOMAIN c, NEW u \in DOMAIN c, Below(c, t, u)
      PROVE  Below(d, t, u)
  <2>1. Split(d, u)
    BY <1>2, <1>5 DEF Below
  <2>2. CASE u # s
    <3>1. d[u] = c[u]
      BY <2>2
    <3> QED
      BY <1>3, <1>5, <2>1, <3>1 DEF Below
  <2>3. CASE u = s
    <3>1. d[s].pc = "returned" => c[t].pc = "returned"
      <4> HAVE d[s].pc = "returned"
      <4> QED
        BY <1>4, <1>5, <2>3, BelowReturned DEF HasHalves
    <3> QED
      BY <1>3, <1>5, <2>1, <2>3, <3>1 DEF Below
  <2> QED
    BY <2>2, <2>3
<1>6. \A t, u \in DOMAIN d : Relate(d, t, u)
  BY <1>5 DEF TreeOK, Relate
<1>7. ASSUME NEW u \in DOMAIN c, NEW t \in DOMAIN c, HalfOf(c, u, t)
      PROVE  HalfOf(d, u, t)
  <2>1. Split(d, t) /\ LeftOf(d, t) = LeftOf(c, t) /\ RightOf(d, t) = RightOf(c, t)
    BY <1>1, <1>2, <1>7 DEF HalfOf
  <2>2. CASE t # s
    <3>1. d[t] = c[t]
      BY <2>2
    <3> QED
      BY <1>3, <1>7, <2>1, <3>1 DEF HalfOf
  <2>3. CASE t = s
    BY <1>3, <1>7, <2>1, <2>3 DEF HalfOf
  <2> QED
    BY <2>2, <2>3
<1>8. \A u \in DOMAIN d : u = <<0, n - 1>> \/ \E t \in DOMAIN d : HalfOf(d, u, t)
  BY <1>7 DEF TreeOK
<1>9. ASSUME NEW t \in DOMAIN c
      PROVE  HasHalves(d, t)
  <2>1. HasHalves(c, t)
    BY DEF TreeOK
  <2>2. CASE t # s
    <3>1. d[t] = c[t]
      BY <2>2
    <3> QED
      BY <1>1, <1>3, <2>1, <3>1 DEF HasHalves
  <2>3. CASE t = s
    BY <1>1, <1>3, <2>1, <2>3 DEF HasHalves
  <2> QED
    BY <2>2, <2>3
<1> QED
  BY <1>6, <1>8, <1>9 DEF TreeOK

\* A call creates a thread for the half h.
Creating(c, s, h, q) ==
  \/ c[s].pc = "create_left" /\ h = LeftOf(c, s) /\ q = "create_right"
  \/ c[s].pc = "create_right" /\ h = RightOf(c, s) /\ q = "join_left"
FirstHalf(c, s, h, p) == h[1] = s[1] /\ h[2] = p - 1 /\ c[s].pc = "create_left"
SecondHalf(c, s, h, p) == h[1] = p + 1 /\ h[2] = s[2] /\ c[s].pc = "create_right"
Created(c, s, h, q, d) ==
  /\ DOMAIN d = DOMAIN c \cup {h}
  /\ d[h] = [pc |-> "begin", p |-> 0]
  /\ d[s] = [pc |-> q, p |-> c[s].p]
  /\ \A t \in DOMAIN c : t # s /\ t # h => d[t] = c[t]

\* Its indices.
LEMMA HalfBounds ==
  ASSUME NEW n \in Nat, NEW c, CallsOK(n, c), NEW s \in DOMAIN c,
         NEW h, NEW q, Creating(c, s, h, q), NEW p, p = c[s].p
  PROVE  /\ s[1] \in Int /\ s[2] \in Int /\ p \in Int /\ s[1] <= p /\ p <= s[2]
         /\ h \in Spans(n) /\ h[1] \in Int /\ h[2] \in Int /\ h[1] - 1 <= h[2]
         /\ FirstHalf(c, s, h, p) \/ SecondHalf(c, s, h, p)
         /\ Split(c, s)
<1>1. c[s].pc \in {"create_left", "create_right"}
  BY DEF Creating
<1>2. s[1] < s[2]
  BY <1>1 DEF CallsOK, CallOK
<1>3. Split(c, s)
  BY <1>1, <1>2 DEF Split
<1>4. /\ s[1] \in 0 .. n /\ s[2] \in -1 .. n - 1 /\ s[1] \in Int /\ s[2] \in Int
      /\ p \in Nat /\ s[1] <= p /\ p <= s[2]
  BY <1>3, CallBounds
<1>5. c[s].pc = "create_left" => h = <<s[1], p - 1>>
  BY DEF Creating, LeftOf
<1>6. c[s].pc = "create_right" => h = <<p + 1, s[2]>>
  BY DEF Creating, RightOf
<1>7. s[1] \in 0 .. n /\ p - 1 \in -1 .. n - 1 /\ p + 1 \in 0 .. n /\ s[2] \in -1 .. n - 1
  BY <1>4
<1>8. <<s[1], p - 1>> \in Spans(n) /\ <<p + 1, s[2]>> \in Spans(n)
  BY <1>7 DEF Spans
<1>9. CASE c[s].pc = "create_left"
  <2>4. h = <<s[1], p - 1>>
    BY <1>5, <1>9
  <2>2. h \in Spans(n) /\ h[1] = s[1] /\ h[2] = p - 1
    BY <1>8, <2>4
  <2>3. h[1] \in Int /\ h[2] \in Int /\ h[1] - 1 <= h[2]
    BY <1>4, <2>2
  <2> QED
    BY <1>3, <1>4, <1>9, <2>2, <2>3 DEF FirstHalf
<1>10. CASE c[s].pc = "create_right"
  <2>4. h = <<p + 1, s[2]>>
    BY <1>6, <1>10
  <2>2. h \in Spans(n) /\ h[1] = p + 1 /\ h[2] = s[2]
    BY <1>8, <2>4
  <2>3. h[1] \in Int /\ h[2] \in Int /\ h[1] - 1 <= h[2]
    BY <1>4, <2>2
  <2> QED
    BY <1>3, <1>4, <1>10, <2>2, <2>3 DEF SecondHalf
<1> QED
  BY <1>1, <1>9, <1>10

\* How it relates to the calls there are; so it is none of them.
LEMMA HalfRelates ==
  ASSUME NEW n \in Nat, NEW c, CallsOK(n, c), TreeOK(n, c), NEW s \in DOMAIN c,
         NEW h, NEW q, Creating(c, s, h, q), NEW t \in DOMAIN c, t # s
  PROVE  Apart(h, t) \/ Apart(t, h) \/ (Below(c, s, t) /\ t[1] <= s[1] /\ s[2] <= t[2] /\ c[t].pc # "returned")
<1>1. PICK p : p = c[s].p
  OBVIOUS
<1>2. /\ s[1] \in Int /\ s[2] \in Int /\ p \in Int /\ s[1] <= p /\ p <= s[2]
      /\ h[1] \in Int /\ h[2] \in Int /\ h[1] - 1 <= h[2]
      /\ FirstHalf(c, s, h, p) \/ SecondHalf(c, s, h, p)
  BY <1>1, HalfBounds
<1>3. t[1] \in Int /\ t[2] \in Int /\ t[1] - 1 <= t[2]
  BY CallBounds
<1>4. c[s].pc \in {"create_left", "create_right"}
  BY DEF Creating
<1>5. Relate(c, s, t)
  BY DEF TreeOK
<1>6. CASE Apart(s, t) \/ Apart(t, s)
  BY <1>2, <1>3, <1>6 DEF Apart, FirstHalf, SecondHalf
<1>7. CASE Below(c, t, s)
  <2>1. c[s].pc = "create_right" /\ t[2] < p
    BY <1>1, <1>4, <1>7 DEF Below
  <2> QED
    BY <1>2, <1>3, <2>1 DEF Apart, FirstHalf, SecondHalf
<1>8. CASE Below(c, s, t)
  <2>1. PICK r : r = c[t].p
    OBVIOUS
  <2>2. r \in Int /\ t[1] <= r /\ r <= t[2]
    <3>1. Split(c, t)
      BY <1>8 DEF Below
    <3>2. r \in Nat /\ (Split(c, t) => t[1] <= r /\ r <= t[2])
      BY <2>1, CallBounds
    <3> QED
      BY <3>1, <3>2
  <2>3. (t[1] <= s[1] /\ s[2] < r) \/ (r < s[1] /\ s[2] <= t[2])
    BY <1>8, <2>1 DEF Below
  <2>4. c[t].pc # "returned"
    BY <1>4, <1>8 DEF Below
  <2> QED
    BY <1>2, <1>3, <1>8, <2>2, <2>3, <2>4 DEF FirstHalf, SecondHalf
<1> QED
  BY <1>5, <1>6, <1>7, <1>8 DEF Relate

LEMMA HalfIsNew ==
  ASSUME NEW n \in Nat, NEW c, CallsOK(n, c), TreeOK(n, c), NEW s \in DOMAIN c,
         NEW h, NEW q, Creating(c, s, h, q)
  PROVE  h \notin DOMAIN c
<1>1. PICK p : p = c[s].p
  OBVIOUS
<1>2. /\ s[1] \in Int /\ s[2] \in Int /\ p \in Int /\ s[1] <= p /\ p <= s[2]
      /\ h[1] \in Int /\ h[2] \in Int /\ h[1] - 1 <= h[2]
      /\ FirstHalf(c, s, h, p) \/ SecondHalf(c, s, h, p)
  BY <1>1, HalfBounds
<1>4. SUFFICES ASSUME h \in DOMAIN c PROVE FALSE
  OBVIOUS
<1>5. h # s
  BY <1>2 DEF FirstHalf, SecondHalf
<1>6. Apart(h, h) \/ (h[1] <= s[1] /\ s[2] <= h[2])
  BY <1>4, <1>5, HalfRelates
<1> QED
  BY <1>2, <1>6 DEF Apart, FirstHalf, SecondHalf

LEMMA CreateMoves ==
  ASSUME NEW n \in Nat, NEW c, CallsOK(n, c), TreeOK(n, c), NEW s \in DOMAIN c,
         NEW h, NEW q, Creating(c, s, h, q), NEW d, Created(c, s, h, q, d), d \in [DOMAIN d -> States]
  PROVE  CallsOK(n, d) /\ TreeOK(n, d)
<1>1. PICK p : p = c[s].p
  OBVIOUS
<1>2. /\ s[1] \in Int /\ s[2] \in Int /\ p \in Int /\ s[1] <= p /\ p <= s[2]
      /\ h \in Spans(n) /\ h[1] \in Int /\ h[2] \in Int /\ h[1] - 1 <= h[2]
      /\ FirstHalf(c, s, h, p) \/ SecondHalf(c, s, h, p)
      /\ Split(c, s)
  BY <1>1, HalfBounds
<1>3. h \notin DOMAIN c /\ h # s
  BY HalfIsNew
<1>4. /\ DOMAIN d = DOMAIN c \cup {h}
      /\ d[h].pc = "begin"
      /\ d[s].pc = q /\ d[s].p = c[s].p
      /\ \A t \in DOMAIN c : t # s => d[t] = c[t]
  BY <1>3 DEF Created
<1>5. /\ c[s].pc \in {"create_left", "create_right"} /\ q \in {"create_right", "join_left"}
      /\ c[s].pc = "create_left" => q = "create_right" /\ h = LeftOf(c, s)
      /\ c[s].pc = "create_right" => q = "join_left" /\ h = RightOf(c, s)
  BY DEF Creating
<1>6. CallsOK(n, d)
  <2>1. IsFiniteSet(DOMAIN d)
    BY <1>4, FS_AddElement DEF CallsOK
  <2>2. DOMAIN d \subseteq Spans(n) /\ <<0, n - 1>> \in DOMAIN d
    BY <1>2, <1>4 DEF CallsOK
  <2>3. CallOK(h, d[h])
    BY <1>2, <1>4 DEF CallOK
  <2>4. CallOK(s, d[s])
    <3>1. CallOK(s, c[s])
      BY DEF CallsOK
    <3>2. c[s].pc \notin {"begin", "returned"}
      BY <1>5
    <3> QED
      BY <1>4, <3>1, <3>2 DEF CallOK
  <2>5. ASSUME NEW t \in DOMAIN d
        PROVE  CallOK(t, d[t])
    <3>1. CASE t = h \/ t = s
      BY <2>3, <2>4, <3>1
    <3>2. CASE t # h /\ t # s
      <4>1. t \in DOMAIN c /\ d[t] = c[t]
        BY <1>4, <3>2
      <4> QED
        BY <4>1 DEF CallsOK
    <3> QED
      BY <3>1, <3>2
  <2> QED
    BY <2>1, <2>2, <2>5 DEF CallsOK
<1>7. \A t \in DOMAIN c : LeftOf(d, t) = LeftOf(c, t) /\ RightOf(d, t) = RightOf(c, t)
  BY <1>4 DEF LeftOf, RightOf
<1>8. \A t \in DOMAIN c : Split(c, t) => Split(d, t)
  BY <1>4, <1>5 DEF Split
<1>9. \A t \in DOMAIN c : c[t].pc = "returned" <=> d[t].pc = "returned"
  <2> TAKE t \in DOMAIN c
  <2>1. CASE t = s
    BY <1>4, <1>5, <2>1
  <2>2. CASE t # s
    BY <1>4, <2>2
  <2> QED
    BY <2>1, <2>2
<1>10. ASSUME NEW t \in DOMAIN c, NEW u \in DOMAIN c, Below(c, t, u)
       PROVE  Below(d, t, u)
  <2>1. Split(d, u)
    BY <1>8, <1>10 DEF Below
  <2>2. CASE u # s
    <3>1. d[u] = c[u]
      BY <1>4, <2>2
    <3> QED
      BY <1>9, <1>10, <2>1, <3>1 DEF Below
  <2>3. CASE u = s
    <3>1. c[s].pc = "create_right" /\ d[s].pc = "join_left"
      BY <1>4, <1>5, <1>10, <2>3 DEF Below
    <3> QED
      BY <1>4, <1>10, <2>1, <2>3, <3>1 DEF Below
  <2> QED
    BY <2>2, <2>3
<1>11. Below(d, h, s)
  <2>1. Split(d, s) /\ d[s].pc # "returned"
    BY <1>2, <1>4, <1>5, <1>8
  <2>2. CASE FirstHalf(c, s, h, p)
    <3>1. d[s].pc = "create_right"
      BY <1>4, <1>5, <2>2 DEF FirstHalf
    <3>2. s[1] <= h[1] /\ h[2] < d[s].p
      BY <1>1, <1>2, <1>4, <2>2 DEF FirstHalf
    <3> QED
      BY <2>1, <3>1, <3>2 DEF Below
  <2>3. CASE SecondHalf(c, s, h, p)
    <3>1. d[s].pc = "join_left"
      BY <1>4, <1>5, <2>3 DEF SecondHalf
    <3>2. d[s].p < h[1] /\ h[2] <= s[2]
      BY <1>1, <1>2, <1>4, <2>3 DEF SecondHalf
    <3> QED
      BY <2>1, <3>1, <3>2 DEF Below
  <2> QED
    BY <1>2, <2>2, <2>3
<1>12. s[1] <= h[1] /\ h[2] <= s[2]
  BY <1>2 DEF FirstHalf, SecondHalf
<1>13. ASSUME NEW t \in DOMAIN c
       PROVE  Apart(h, t) \/ Apart(t, h) \/ Below(d, h, t)
  <2>1. CASE t = s
    BY <1>11, <2>1
  <2>2. CASE t # s
    <3> SUFFICES ASSUME Below(c, s, t), c[t].pc # "returned"
                 PROVE  Below(d, h, t)
      BY <2>2, HalfRelates
    <3>1. PICK r : r = c[t].p
      OBVIOUS
    <3>2. t[1] \in Int /\ t[2] \in Int /\ r \in Int
      BY <3>1, CallBounds
    <3>3. d[t] = c[t] /\ Split(d, t)
      BY <1>4, <1>8, <2>2 DEF Below
    <3>4. \/ c[t].pc \in {"create_right", "join_left", "join_right", "returned"} /\ t[1] <= s[1] /\ s[2] < r
          \/ c[t].pc \in {"join_left", "join_right", "returned"} /\ r < s[1] /\ s[2] <= t[2]
      BY <3>1 DEF Below
    <3>5. (t[1] <= s[1] => t[1] <= h[1]) /\ (s[2] < r => h[2] < r)
      BY <1>2, <1>12, <3>2
    <3>6. (r < s[1] => r < h[1]) /\ (s[2] <= t[2] => h[2] <= t[2])
      BY <1>2, <1>12, <3>2
    <3> QED
      BY <3>1, <3>3, <3>4, <3>5, <3>6 DEF Below
  <2> QED
    BY <2>1, <2>2
<1>14. \A t, u \in DOMAIN d : Relate(d, t, u)
  <2> TAKE t, u \in DOMAIN d
  <2>1. CASE t = h /\ u = h
    BY <2>1 DEF Relate
  <2>2. CASE t = h /\ u # h
    BY <1>4, <1>13, <2>2 DEF Relate
  <2>3. CASE t # h /\ u = h
    BY <1>4, <1>13, <2>3 DEF Relate
  <2>4. CASE t # h /\ u # h
    BY <1>4, <1>10, <2>4 DEF Relate, TreeOK
  <2> QED
    BY <2>1, <2>2, <2>3, <2>4
<1>15. ASSUME NEW u \in DOMAIN c, NEW t \in DOMAIN c, HalfOf(c, u, t)
       PROVE  HalfOf(d, u, t)
  <2>1. Split(d, t) /\ LeftOf(d, t) = LeftOf(c, t) /\ RightOf(d, t) = RightOf(c, t)
    BY <1>7, <1>8, <1>15 DEF HalfOf
  <2>2. CASE t # s
    <3>1. d[t] = c[t]
      BY <1>4, <2>2
    <3> QED
      BY <1>9, <1>15, <2>1, <3>1 DEF HalfOf
  <2>3. CASE t = s
    <3>1. c[s].pc = "create_right" /\ d[s].pc = "join_left" /\ u = LeftOf(c, s)
      BY <1>4, <1>5, <1>15, <2>3 DEF HalfOf
    <3> QED
      BY <2>1, <2>3, <3>1 DEF HalfOf
  <2> QED
    BY <2>2, <2>3
<1>16. HalfOf(d, h, s)
  <2>1. Split(d, s)
    BY <1>2, <1>8
  <2> QED
    BY <1>4, <1>5, <1>7, <2>1 DEF HalfOf
<1>17. ASSUME NEW u \in DOMAIN d
       PROVE  u = <<0, n - 1>> \/ \E t \in DOMAIN d : HalfOf(d, u, t)
  <2>1. CASE u = h
    BY <1>4, <1>16, <2>1
  <2>2. CASE u # h
    <3>1. u \in DOMAIN c
      BY <1>4, <2>2
    <3> QED
      BY <1>4, <1>15, <3>1 DEF TreeOK
  <2> QED
    BY <2>1, <2>2
<1>18. ASSUME NEW t \in DOMAIN d
       PROVE  HasHalves(d, t)
  <2>1. CASE t = h
    BY <1>4, <2>1 DEF HasHalves
  <2>2. CASE t = s
    <3>1. HasHalves(c, s)
      BY DEF TreeOK
    <3> QED
      BY <1>4, <1>5, <1>7, <2>2, <3>1 DEF HasHalves
  <2>3. CASE t # h /\ t # s
    <3>1. t \in DOMAIN c /\ d[t] = c[t]
      BY <1>4, <2>3
    <3>2. HasHalves(c, t)
      BY <3>1 DEF TreeOK
    <3> QED
      BY <1>4, <1>7, <1>9, <3>1, <3>2 DEF HasHalves
  <2> QED
    BY <2>1, <2>2, <2>3
<1> QED
  BY <1>6, <1>14, <1>17, <1>18 DEF TreeOK

\* The count of the threads that were or are about to be created.
At(c, q) == {s \in DOMAIN c : c[s].pc = q}
Counting(c, k) ==
  k + 1 = Cardinality(DOMAIN c) + 2 * Cardinality(At(c, "create_left")) + Cardinality(At(c, "create_right"))

LEMMA CountKept ==
  ASSUME NEW c, NEW d, NEW k, Counting(c, k), NEW s \in DOMAIN c,
         DOMAIN d = DOMAIN c, \A t \in DOMAIN c : t # s => d[t] = c[t],
         c[s].pc \notin {"create_left", "create_right"}, d[s].pc \notin {"create_left", "create_right"}
  PROVE  Counting(d, k)
<1>1. At(d, "create_left") = At(c, "create_left")
  BY DEF At
<1>2. At(d, "create_right") = At(c, "create_right")
  BY DEF At
<1> QED
  BY <1>1, <1>2 DEF Counting

LEMMA CountCounts ==
  ASSUME NEW c, NEW d, NEW k \in Nat, Counting(c, k), NEW s \in DOMAIN c, IsFiniteSet(DOMAIN c),
         DOMAIN d = DOMAIN c, \A t \in DOMAIN c : t # s => d[t] = c[t],
         c[s].pc = "count", d[s].pc = "create_left"
  PROVE  Counting(d, k + 2)
<1>1. IsFiniteSet(At(c, "create_left")) /\ IsFiniteSet(At(c, "create_right"))
  BY FS_Subset DEF At
<1>2. At(d, "create_left") = At(c, "create_left") \cup {s} /\ s \notin At(c, "create_left")
  BY DEF At
<1>3. At(d, "create_right") = At(c, "create_right")
  BY DEF At
<1>4. Cardinality(At(d, "create_left")) = Cardinality(At(c, "create_left")) + 1
  BY <1>1, <1>2, FS_AddElement
<1>5. Cardinality(At(c, "create_left")) \in Nat /\ Cardinality(At(c, "create_right")) \in Nat
  BY <1>1, FS_CardinalityType
<1>6. Cardinality(DOMAIN c) \in Nat
  BY FS_CardinalityType
<1> QED
  BY <1>3, <1>4, <1>5, <1>6 DEF Counting

LEMMA CountCreates ==
  ASSUME NEW n \in Nat, NEW c, CallsOK(n, c), TreeOK(n, c), NEW s \in DOMAIN c,
         NEW k \in Nat, Counting(c, k),
         NEW h, NEW q, Creating(c, s, h, q), NEW d, Created(c, s, h, q, d)
  PROVE  Counting(d, k)
<1>1. IsFiniteSet(DOMAIN c)
  BY DEF CallsOK
<1>2. h \notin DOMAIN c /\ h # s
  BY HalfIsNew
<1>3. /\ DOMAIN d = DOMAIN c \cup {h}
      /\ d[h].pc = "begin"
      /\ d[s].pc = q
      /\ \A t \in DOMAIN c : t # s => d[t] = c[t]
  BY <1>2 DEF Created
<1>4. IsFiniteSet(At(c, "create_left")) /\ IsFiniteSet(At(c, "create_right"))
  BY <1>1, FS_Subset DEF At
<1>5. /\ Cardinality(At(c, "create_left")) \in Nat /\ Cardinality(At(c, "create_right")) \in Nat
      /\ Cardinality(DOMAIN c) \in Nat
  BY <1>1, <1>4, FS_CardinalityType
<1>6. Cardinality(DOMAIN d) = Cardinality(DOMAIN c) + 1
  BY <1>1, <1>2, <1>3, FS_AddElement
<1>7. CASE c[s].pc = "create_left" /\ q = "create_right"
  <2>1. At(d, "create_left") = At(c, "create_left") \ {s} /\ s \in At(c, "create_left")
    BY <1>2, <1>3, <1>7 DEF At
  <2>2. At(d, "create_right") = At(c, "create_right") \cup {s} /\ s \notin At(c, "create_right")
    BY <1>2, <1>3, <1>7 DEF At
  <2>3. Cardinality(At(d, "create_left")) = Cardinality(At(c, "create_left")) - 1
    BY <1>4, <2>1, FS_RemoveElement
  <2>4. Cardinality(At(d, "create_right")) = Cardinality(At(c, "create_right")) + 1
    BY <1>4, <2>2, FS_AddElement
  <2> QED
    BY <1>5, <1>6, <2>3, <2>4 DEF Counting
<1>8. CASE c[s].pc = "create_right" /\ q = "join_left"
  <2>1. At(d, "create_left") = At(c, "create_left")
    BY <1>2, <1>3, <1>8 DEF At
  <2>2. At(d, "create_right") = At(c, "create_right") \ {s} /\ s \in At(c, "create_right")
    BY <1>2, <1>3, <1>8 DEF At
  <2>3. Cardinality(At(d, "create_right")) = Cardinality(At(c, "create_right")) - 1
    BY <1>4, <2>2, FS_RemoveElement
  <2> QED
    BY <1>5, <1>6, <2>1, <2>3 DEF Counting
<1> QED
  BY <1>7, <1>8 DEF Creating

-------------------------------------------------------------------------------
(* The calls and the array *)

\* The elements next to the part of a call are pivots of others.
Placed(n, a, s) ==
  /\ s[1] = 0 \/ Around(n, a, s[1] - 1)
  /\ s[2] = n - 1 \/ Around(n, a, s[2] + 1)

SplitAt(n, a, s, p) ==
  /\ Around(n, a, p)
  /\ \A i \in Indices(n) : p + 1 <= i /\ i <= s[2] => a[i] > a[p]

Splits(n, c, a) ==
  \A s \in DOMAIN c : Placed(n, a, s) /\ (Split(c, s) => SplitAt(n, a, s, c[s].p))

Finished(c, a) ==
  \A s \in DOMAIN c : c[s].pc = "returned" => Sorted(a, s[1], s[2])

\* What a call that is at work on the array leaves alone.
LEMMA Elsewhere ==
  ASSUME NEW n \in Nat, NEW c, CallsOK(n, c), TreeOK(n, c), NEW s \in DOMAIN c,
         c[s].pc \in {"begin", "serial"}, NEW t \in DOMAIN c, t # s, NEW r, r = c[t].p
  PROVE  /\ t[1] - 1 < s[1] \/ t[1] - 1 > s[2]
         /\ t[2] + 1 < s[1] \/ t[2] + 1 > s[2]
         /\ Split(c, t) => /\ r < s[1] \/ r > s[2]
                           /\ s[2] < r + 1 \/ s[1] > t[2] \/ (r + 1 <= s[1] /\ s[2] <= t[2])
         /\ c[t].pc = "returned" => t[2] < s[1] \/ t[1] > s[2]
<1>1. s[1] \in Int /\ s[2] \in Int /\ s[1] - 1 <= s[2]
  BY CallBounds
<1>2. /\ t[1] \in Int /\ t[2] \in Int /\ t[1] - 1 <= t[2]
      /\ r \in Nat /\ (Split(c, t) => t[1] <= r /\ r <= t[2])
  BY CallBounds
<1>3. Relate(c, s, t)
  BY DEF TreeOK
<1>4. ~ Below(c, t, s)
  BY DEF Below
<1>5. CASE Apart(s, t)
  BY <1>1, <1>2, <1>5 DEF Apart
<1>6. CASE Apart(t, s)
  BY <1>1, <1>2, <1>6 DEF Apart
<1>7. CASE Below(c, s, t)
  <2>1. Split(c, t)
    BY <1>7 DEF Below
  <2>2. (t[1] <= s[1] /\ s[2] < r) \/ (r < s[1] /\ s[2] <= t[2])
    BY <1>7 DEF Below
  <2>3. c[t].pc # "returned"
    BY <1>7 DEF Below
  <2> QED
    BY <1>1, <1>2, <2>1, <2>2, <2>3
<1> QED
  BY <1>3, <1>4, <1>5, <1>6, <1>7 DEF Relate

LEMMA OthersKept ==
  ASSUME NEW n \in Nat, NEW c, CallsOK(n, c), TreeOK(n, c), NEW s \in DOMAIN c,
         c[s].pc \in {"begin", "serial"}, NEW t \in DOMAIN c, t # s,
         NEW a \in IntArrays(n), NEW b \in IntArrays(n), Shuffled(n, a, b, s[1], s[2]),
         Splits(n, c, a)
  PROVE  /\ Placed(n, b, t)
         /\ Split(c, t) => SplitAt(n, b, t, c[t].p)
         /\ Finished(c, a) /\ c[t].pc = "returned" => Sorted(b, t[1], t[2])
<1>1. PICK r : r = c[t].p
  OBVIOUS
<1>2. /\ t[1] - 1 < s[1] \/ t[1] - 1 > s[2]
      /\ t[2] + 1 < s[1] \/ t[2] + 1 > s[2]
      /\ Split(c, t) => /\ r < s[1] \/ r > s[2]
                        /\ s[2] < r + 1 \/ s[1] > t[2] \/ (r + 1 <= s[1] /\ s[2] <= t[2])
      /\ c[t].pc = "returned" => t[2] < s[1] \/ t[1] > s[2]
  BY <1>1, Elsewhere
<1>3. s[1] \in Int /\ s[2] \in Int
  BY CallBounds
<1>4. /\ t[1] \in 0 .. n /\ t[2] \in -1 .. n - 1 /\ t[1] \in Int /\ t[2] \in Int
      /\ r \in Nat /\ (Split(c, t) => t[1] <= r /\ r <= t[2])
  BY <1>1, CallBounds
<1>5. Placed(n, a, t) /\ (Split(c, t) => SplitAt(n, a, t, r))
  BY <1>1 DEF Splits
<1>6. t[1] = 0 \/ Around(n, b, t[1] - 1)
  <2>1. CASE t[1] # 0
    <3>1. t[1] - 1 \in Indices(n)
      BY <1>4, <2>1 DEF Indices
    <3>2. Around(n, a, t[1] - 1)
      BY <1>5, <2>1 DEF Placed
    <3> QED
      BY <1>2, <1>3, <3>1, <3>2, AroundShuffled
  <2> QED
    BY <2>1
<1>7. t[2] = n - 1 \/ Around(n, b, t[2] + 1)
  <2>1. CASE t[2] # n - 1
    <3>1. t[2] + 1 \in Indices(n)
      BY <1>4, <2>1 DEF Indices
    <3>2. Around(n, a, t[2] + 1)
      BY <1>5, <2>1 DEF Placed
    <3> QED
      BY <1>2, <1>3, <3>1, <3>2, AroundShuffled
  <2> QED
    BY <2>1
<1>8. ASSUME Split(c, t)
      PROVE  SplitAt(n, b, t, r)
  <2>1. r \in Indices(n)
    BY <1>4, <1>8 DEF Indices
  <2>2. Around(n, a, r) /\ \A i \in Indices(n) : r + 1 <= i /\ i <= t[2] => a[i] > a[r]
    BY <1>5, <1>8 DEF SplitAt
  <2>3. b[r] = a[r] /\ Around(n, b, r)
    BY <1>2, <1>3, <1>8, <2>1, <2>2, AroundShuffled
  <2>4. PICK v \in Int : v = a[r]
    BY <2>1 DEF IntArrays
  <2>5. \A i \in Indices(n) : r + 1 <= i /\ i <= t[2] => b[i] > v
    <3>1. r + 1 \in Int /\ (s[2] < r + 1 \/ s[1] > t[2] \/ (r + 1 <= s[1] /\ s[2] <= t[2]))
      BY <1>2, <1>4, <1>8
    <3>2. \A i \in Indices(n) : r + 1 <= i /\ i <= t[2] => a[i] > v
      BY <2>2, <2>4
    <3> QED
      BY <1>3, <1>4, <3>1, <3>2, GreaterShuffled
  <2> QED
    BY <2>3, <2>4, <2>5 DEF SplitAt
<1>9. ASSUME Finished(c, a), c[t].pc = "returned"
      PROVE  Sorted(b, t[1], t[2])
  <2>1. Sorted(a, t[1], t[2])
    BY <1>9 DEF Finished
  <2>2. \A i \in Indices(n) : i < s[1] \/ i > s[2] => b[i] = a[i]
    BY <1>3, ShuffledPart
  <2>3. \A i \in t[1] .. t[2] : i \in Indices(n) /\ (i < s[1] \/ i > s[2])
    BY <1>2, <1>3, <1>4, <1>9 DEF Indices
  <2>4. \A i \in t[1] .. t[2] : b[i] = a[i]
    BY <2>2, <2>3
  <2> QED
    BY <2>1, <2>4 DEF Sorted
<1> QED
  BY <1>1, <1>6, <1>7, <1>8, <1>9 DEF Placed

-------------------------------------------------------------------------------
(* The steps of the threads *)

\* What holds of the calls c and the array a while threads work on them.
Running(n, g, c, a) ==
  /\ CallsOK(n, c)
  /\ TreeOK(n, c)
  /\ a \in IntArrays(n)
  /\ Shuffled(n, g, a, 0, n - 1)
  /\ Splits(n, c, a)
  /\ Finished(c, a)

\* s goes on to q.
Goes1(c, s, q, d) == d = [c EXCEPT ![s] = [pc |-> q, p |-> c[s].p]]

LEMMA RunsBegin ==
  ASSUME NEW n \in Nat, NEW g, NEW c, NEW a, Running(n, g, c, a),
         NEW s \in DOMAIN c, c[s].pc = "begin", s[1] >= s[2],
         NEW d, Goes1(c, s, "returned", d)
  PROVE  Running(n, g, d, a)
<1>1. s[1] \in Int /\ s[2] \in Int /\ s[1] - 1 <= s[2] /\ c[s].p \in Nat /\ s[1] \in 0 .. n /\ s[2] \in -1 .. n - 1
  BY CallBounds DEF Running
<1>2. PICK v : v = [pc |-> "returned", p |-> c[s].p]
  OBVIOUS
<1>3. v \in States /\ v.pc = "returned" /\ v.p = c[s].p
  BY <1>1, <1>2 DEF States, Pcs
<1>4. ~ (s[1] < s[2])
  BY <1>1
<1>5. CallOK(s, v)
  BY <1>1, <1>3, <1>4 DEF CallOK
<1>6. CallsOK(n, d) /\ DOMAIN d = DOMAIN c /\ d[s] = v /\ \A t \in DOMAIN c : t # s => d[t] = c[t]
  <2>1. d = [c EXCEPT ![s] = v] /\ CallsOK(n, c)
    BY <1>2 DEF Goes1, Running
  <2> QED
    BY <1>3, <1>5, <2>1, CallMoves
<1>7. TreeOK(n, d)
  BY <1>3, <1>6, EarlyMoves DEF Running
<1>8. Splits(n, d, a)
  <2>1. \A t \in DOMAIN d : Split(d, t) => t # s
    BY <1>4 DEF Split
  <2> QED
    BY <1>6, <2>1 DEF Splits, Split, Running
<1>9. Finished(d, a)
  <2>1. Sorted(a, s[1], s[2])
    <3>1. \A i, j \in s[1] .. s[2] : i = j
      BY <1>1
    <3>2. \A i \in s[1] .. s[2] : i \in Indices(n)
      BY <1>1 DEF Indices
    <3>3. \A i \in s[1] .. s[2] : a[i] \in Int
      BY <3>2 DEF Running, IntArrays
    <3>4. \A i \in s[1] .. s[2] : a[i] <= a[i]
      BY <3>3
    <3> QED
      BY <3>1, <3>4 DEF Sorted
  <2> QED
    BY <1>6, <2>1 DEF Finished, Running
<1> QED
  BY <1>6, <1>7, <1>8, <1>9 DEF Running

\* A call that has put its part of the array around a pivot, or sorted it.
LEMMA RunsOn ==
  ASSUME NEW n \in Nat, NEW g, NEW c, NEW a, Running(n, g, c, a),
         NEW s \in DOMAIN c, c[s].pc \in {"begin", "serial"}, s[1] < s[2],
         NEW b \in IntArrays(n), Shuffled(n, a, b, s[1], s[2]),
         NEW p \in s[1] .. s[2], Partitioned(n, b, s[1], p, s[2]),
         NEW q \in {"serial", "count", "fork", "returned"}, q = "returned" => Sorted(b, s[1], s[2]),
         NEW d, d = [c EXCEPT ![s] = [pc |-> q, p |-> p]]
  PROVE  Running(n, g, d, b)
<1>1. s[1] \in Int /\ s[2] \in Int /\ s[1] \in 0 .. n /\ s[2] \in -1 .. n - 1 /\ s[1] - 1 <= s[2]
  BY CallBounds DEF Running
<1>2. s[1] \in Indices(n) /\ s[2] \in Indices(n) /\ s[1] <= s[2]
  BY <1>1 DEF Indices
<1>3. PICK v : v = [pc |-> q, p |-> p]
  OBVIOUS
<1>4. p \in Nat
  BY <1>1
<1>5. v \in States /\ v.pc = q /\ v.p = p
  BY <1>3, <1>4 DEF States, Pcs
<1>6. CallOK(s, v)
  BY <1>1, <1>5 DEF CallOK
<1>7. CallsOK(n, d) /\ DOMAIN d = DOMAIN c /\ d[s] = v /\ \A t \in DOMAIN c : t # s => d[t] = c[t]
  BY <1>3, <1>5, <1>6, CallMoves DEF Running
<1>8. TreeOK(n, d)
  BY <1>5, <1>7, EarlyMoves, ZenonT(60) DEF Running
<1>9. \A t \in DOMAIN c : t # s =>
        /\ Placed(n, b, t)
        /\ Split(c, t) => SplitAt(n, b, t, c[t].p)
        /\ c[t].pc = "returned" => Sorted(b, t[1], t[2])
  BY OthersKept DEF Running
<1>10. Placed(n, b, s)
  <2>1. Placed(n, a, s)
    BY DEF Running, Splits
  <2>2. s[1] = 0 \/ Around(n, b, s[1] - 1)
    <3>1. CASE s[1] # 0
      <4>1. s[1] - 1 \in Indices(n) /\ s[1] - 1 < s[1]
        BY <1>1, <3>1 DEF Indices
      <4> QED
        BY <1>1, <2>1, <3>1, <4>1, AroundShuffled DEF Placed, Running
    <3> QED
      BY <3>1
  <2>3. s[2] = n - 1 \/ Around(n, b, s[2] + 1)
    <3>1. CASE s[2] # n - 1
      <4>1. s[2] + 1 \in Indices(n) /\ s[2] + 1 > s[2]
        BY <1>1, <3>1 DEF Indices
      <4> QED
        BY <1>1, <2>1, <3>1, <4>1, AroundShuffled DEF Placed, Running
    <3> QED
      BY <3>1
  <2> QED
    BY <2>2, <2>3 DEF Placed
<1>11. SplitAt(n, b, s, p)
  <2>1. Around(n, b, p)
    BY <1>2, <1>10, PartAround DEF Placed
  <2>2. \A i \in Indices(n) : p + 1 <= i /\ i <= s[2] => b[i] > b[p]
    <3>1. \A i \in Indices(n) : p + 1 <= i => p < i
      BY <1>4 DEF Indices
    <3> QED
      BY <3>1 DEF Partitioned
  <2> QED
    BY <2>1, <2>2 DEF SplitAt
<1>12. Splits(n, d, b)
  <2> SUFFICES ASSUME NEW t \in DOMAIN c
               PROVE  Placed(n, b, t) /\ (Split(d, t) => SplitAt(n, b, t, d[t].p))
    BY <1>7 DEF Splits
  <2>1. CASE t = s
    BY <1>5, <1>7, <1>10, <1>11, <2>1
  <2>2. CASE t # s
    BY <1>7, <1>9, <2>2 DEF Split
  <2> QED
    BY <2>1, <2>2
<1>13. Finished(d, b)
  <2> SUFFICES ASSUME NEW t \in DOMAIN c, d[t].pc = "returned"
               PROVE  Sorted(b, t[1], t[2])
    BY <1>7 DEF Finished
  <2>1. CASE t = s
    BY <1>5, <1>7, <2>1
  <2>2. CASE t # s
    BY <1>7, <1>9, <2>2
  <2> QED
    BY <2>1, <2>2
<1>14. Shuffled(n, g, b, 0, n - 1)
  <2>1. 0 <= s[1] /\ s[2] <= n - 1 /\ 0 \in Int /\ n - 1 \in Int
    BY <1>1
  <2>2. Shuffled(n, a, b, 0, n - 1)
    BY <1>1, <2>1, ShuffledWider
  <2> QED
    BY <2>1, <2>2, ShuffledTwice DEF Running
<1> QED
  BY <1>7, <1>8, <1>12, <1>13, <1>14 DEF Running

LEMMA RunsPivot ==
  ASSUME NEW n \in Nat, NEW g, NEW c, NEW a, Running(n, g, c, a),
         NEW s \in DOMAIN c, c[s].pc = "begin", s[1] < s[2],
         NEW r, r = pivot(a, s[1], s[2]), NEW q \in {"serial", "count", "fork"},
         NEW d, d = [c EXCEPT ![s] = [pc |-> q, p |-> r.p]]
  PROVE  Running(n, g, d, r.array)
<1>1. s[1] \in Int /\ s[2] \in Int /\ s[1] \in 0 .. n /\ s[2] \in -1 .. n - 1
  BY CallBounds DEF Running
<1>2. s[1] \in Indices(n) /\ s[2] \in Indices(n) /\ s[1] <= s[2]
  BY <1>1 DEF Indices
<1>3. /\ r.array \in IntArrays(n)
      /\ Shuffled(n, a, r.array, s[1], s[2])
      /\ Partitioned(n, r.array, s[1], r.p, s[2])
      /\ r.p \in s[1] .. s[2]
  BY <1>2, PivotPartitions DEF Running
<1> QED
  BY <1>3, RunsOn

LEMMA RunsSerial ==
  ASSUME NEW n \in Nat, NEW g, NEW c, NEW a, Running(n, g, c, a),
         NEW s \in DOMAIN c, c[s].pc = "serial",
         NEW e, e = serial_quicksort(serial_quicksort(a, LeftOf(c, s)), RightOf(c, s)),
         NEW d, Goes1(c, s, "returned", d)
  PROVE  Running(n, g, d, e)
<1>1. PICK p : p = c[s].p
  OBVIOUS
<1>2. s[1] < s[2] /\ Split(c, s)
  BY DEF Running, CallsOK, CallOK, Split
<1>3. /\ s[1] \in Int /\ s[2] \in Int /\ s[1] \in 0 .. n /\ s[2] \in -1 .. n - 1
      /\ p \in Nat /\ s[1] <= p /\ p <= s[2]
  BY <1>1, <1>2, CallBounds DEF Running
<1>4. /\ s[1] \in Indices(n) /\ s[2] \in Indices(n) /\ p \in s[1] .. s[2]
      /\ p - 1 \in -1 .. n - 1 /\ p + 1 \in 0 .. n
  BY <1>2, <1>3 DEF Indices
<1>5. Partitioned(n, a, s[1], p, s[2])
  <2>1. SplitAt(n, a, s, p)
    BY <1>1, <1>2 DEF Running, Splits
  <2>2. \A i \in Indices(n) : p < i => p + 1 <= i
    BY <1>3 DEF Indices
  <2> QED
    BY <1>4, <2>1, <2>2 DEF SplitAt, Around, Partitioned
<1>6. PICK b : b = serial_quicksort(a, <<s[1], p - 1>>)
  OBVIOUS
<1>7. e = serial_quicksort(b, <<p + 1, s[2]>>)
  BY <1>1, <1>6 DEF LeftOf, RightOf
<1>8. SortedPart(n, a, b, s[1], p - 1)
  BY <1>3, <1>4, <1>6, SerialSortsPart DEF Running
<1>9. SortedPart(n, b, e, p + 1, s[2])
  <2>1. b \in IntArrays(n)
    BY <1>8 DEF SortedPart
  <2> QED
    BY <1>3, <1>4, <1>7, <2>1, SerialSortsPart
<1>10. SortedPart(n, a, e, s[1], s[2]) /\ Partitioned(n, e, s[1], p, s[2])
  BY <1>4, <1>5, <1>8, <1>9, HalvesSort DEF Running
<1>11. d = [c EXCEPT ![s] = [pc |-> "returned", p |-> p]]
  BY <1>1 DEF Goes1
<1> QED
  BY <1>2, <1>4, <1>10, <1>11, RunsOn DEF SortedPart

LEMMA RunsCount ==
  ASSUME NEW n \in Nat, NEW g, NEW c, NEW a, Running(n, g, c, a),
         NEW s \in DOMAIN c, c[s].pc = "count",
         NEW d, Goes1(c, s, "create_left", d)
  PROVE  Running(n, g, d, a)
<1>1. c[s].p \in Nat /\ CallOK(s, c[s])
  BY CallBounds DEF Running, CallsOK
<1>2. PICK v : v = [pc |-> "create_left", p |-> c[s].p]
  OBVIOUS
<1>3. v \in States /\ v.pc = "create_left" /\ v.p = c[s].p
  BY <1>1, <1>2 DEF States, Pcs
<1>4. CallOK(s, v)
  BY <1>1, <1>3 DEF CallOK
<1>5. CallsOK(n, d) /\ DOMAIN d = DOMAIN c /\ d[s] = v /\ \A t \in DOMAIN c : t # s => d[t] = c[t]
  <2>1. d = [c EXCEPT ![s] = v] /\ CallsOK(n, c)
    BY <1>2 DEF Goes1, Running
  <2> QED
    BY <1>3, <1>4, <2>1, CallMoves
<1>6. TreeOK(n, d)
  BY <1>3, <1>5, EarlyMoves DEF Running
<1>7. Splits(n, d, a)
  <2>1. \A t \in DOMAIN c : d[t].p = c[t].p /\ (Split(d, t) => Split(c, t))
    BY <1>3, <1>5 DEF Split
  <2> QED
    BY <1>5, <2>1 DEF Splits, Running
<1>8. Finished(d, a)
  BY <1>3, <1>5 DEF Finished, Running
<1> QED
  BY <1>5, <1>6, <1>7, <1>8 DEF Running

LEMMA RunsCreate ==
  ASSUME NEW n \in Nat, NEW g, NEW c, NEW a, Running(n, g, c, a), NEW s \in DOMAIN c,
         NEW h, NEW q, Creating(c, s, h, q), NEW d, Created(c, s, h, q, d), d \in [DOMAIN d -> States]
  PROVE  Running(n, g, d, a)
<1>1. CallsOK(n, c) /\ TreeOK(n, c) /\ Splits(n, c, a) /\ Finished(c, a)
  BY DEF Running
<1>2. CallsOK(n, d) /\ TreeOK(n, d)
  BY <1>1, CreateMoves
<1>3. h \notin DOMAIN c
  BY <1>1, HalfIsNew
<1>4. PICK p : p = c[s].p
  OBVIOUS
<1>5. /\ s[1] \in Int /\ s[2] \in Int /\ p \in Int
      /\ FirstHalf(c, s, h, p) \/ SecondHalf(c, s, h, p)
      /\ Split(c, s)
  BY <1>1, <1>4, HalfBounds
<1>6. /\ DOMAIN d = DOMAIN c \cup {h} /\ d[h].pc = "begin"
      /\ d[s].pc = q /\ d[s].p = c[s].p /\ \A t \in DOMAIN c : t # s => d[t] = c[t]
  BY <1>3 DEF Created
<1>7. \A t \in DOMAIN c : d[t].p = c[t].p /\ (Split(d, t) => Split(c, t))
  <2> TAKE t \in DOMAIN c
  <2>1. CASE t = s
    BY <1>5, <1>6, <2>1
  <2>2. CASE t # s
    BY <1>6, <2>2 DEF Split
  <2> QED
    BY <2>1, <2>2
<1>8. Placed(n, a, h)
  <2>1. Placed(n, a, s) /\ Around(n, a, p)
    BY <1>1, <1>4, <1>5 DEF Splits, SplitAt
  <2>2. CASE FirstHalf(c, s, h, p)
    <3>1. h[1] = s[1] /\ h[2] + 1 = p
      BY <1>5, <2>2 DEF FirstHalf
    <3> QED
      BY <2>1, <3>1 DEF Placed
  <2>3. CASE SecondHalf(c, s, h, p)
    <3>1. h[1] - 1 = p /\ h[2] = s[2]
      BY <1>5, <2>3 DEF SecondHalf
    <3> QED
      BY <2>1, <3>1 DEF Placed
  <2> QED
    BY <1>5, <2>2, <2>3
<1>9. Splits(n, d, a)
  <2> SUFFICES ASSUME NEW t \in DOMAIN d
               PROVE  Placed(n, a, t) /\ (Split(d, t) => SplitAt(n, a, t, d[t].p))
    BY DEF Splits
  <2>1. CASE t = h
    BY <1>6, <1>8, <2>1 DEF Split
  <2>2. CASE t # h
    <3>1. t \in DOMAIN c
      BY <1>6, <2>2
    <3> QED
      BY <1>1, <1>7, <3>1 DEF Splits
  <2> QED
    BY <2>1, <2>2
<1>10. Finished(d, a)
  <2> SUFFICES ASSUME NEW t \in DOMAIN d, d[t].pc = "returned"
               PROVE  Sorted(a, t[1], t[2])
    BY DEF Finished
  <2>1. t # h /\ t # s
    BY <1>6 DEF Creating
  <2>2. t \in DOMAIN c /\ d[t] = c[t]
    BY <1>6, <2>1
  <2> QED
    BY <1>1, <2>2 DEF Finished
<1> QED
  BY <1>2, <1>9, <1>10 DEF Running

\* Two sorted halves around a pivot are a sorted whole.
LEMMA SortedHalves ==
  ASSUME NEW n \in Nat, NEW a \in IntArrays(n), NEW x \in Indices(n), NEW y \in Indices(n),
         NEW p \in x .. y, Around(n, a, p), Sorted(a, x, p - 1), Sorted(a, p + 1, y)
  PROVE  Sorted(a, x, y)
<1>1. x \in Int /\ y \in Int /\ p \in Int /\ x <= p /\ p <= y /\ p \in Indices(n)
  BY DEF Indices
<1>2. SUFFICES ASSUME NEW i \in x .. y, NEW j \in x .. y, i <= j
               PROVE  a[i] <= a[j]
  BY DEF Sorted
<1>3. i \in Indices(n) /\ j \in Indices(n) /\ i \in Int /\ j \in Int
  BY <1>1 DEF Indices
<1>4. a[i] \in Int /\ a[j] \in Int /\ a[p] \in Int
  BY <1>1, <1>3 DEF IntArrays
<1>5. /\ i < p => a[i] <= a[p]
      /\ j > p => a[p] <= a[j]
  <2>1. /\ i < p => a[i] <= a[p]
        /\ j > p => a[j] >= a[p]
    BY <1>3 DEF Around
  <2> QED
    BY <1>4, <2>1
<1>6. CASE j < p
  <2>1. i \in x .. p - 1 /\ j \in x .. p - 1
    BY <1>1, <1>2, <1>3, <1>6
  <2> QED
    BY <1>2, <2>1 DEF Sorted
<1>7. CASE i > p
  <2>1. i \in p + 1 .. y /\ j \in p + 1 .. y
    BY <1>1, <1>2, <1>3, <1>7
  <2> QED
    BY <1>2, <2>1 DEF Sorted
<1>8. CASE i <= p /\ p <= j
  <2>1. i < p \/ i = p
    BY <1>1, <1>3, <1>8
  <2>2. a[i] <= a[p]
    BY <1>4, <1>5, <2>1
  <2>3. j > p \/ j = p
    BY <1>1, <1>3, <1>8
  <2>4. a[p] <= a[j]
    BY <1>4, <1>5, <2>3
  <2> QED
    BY <1>4, <2>2, <2>4
<1> QED
  BY <1>1, <1>3, <1>6, <1>7, <1>8

LEMMA RunsJoin ==
  ASSUME NEW n \in Nat, NEW g, NEW c, NEW a, Running(n, g, c, a), NEW s \in DOMAIN c,
         NEW q, NEW d, Goes1(c, s, q, d),
         \/ c[s].pc = "join_left" /\ q = "join_right" /\ c[LeftOf(c, s)].pc = "returned"
         \/ c[s].pc = "join_right" /\ q = "returned" /\ c[RightOf(c, s)].pc = "returned"
  PROVE  Running(n, g, d, a)
<1>1. CallsOK(n, c) /\ TreeOK(n, c) /\ Splits(n, c, a) /\ Finished(c, a)
  BY DEF Running
<1>2. c[s].p \in Nat /\ CallOK(s, c[s]) /\ c[s].pc \in {"join_left", "join_right"}
  BY <1>1, CallBounds DEF CallsOK
<1>3. PICK v : v = [pc |-> q, p |-> c[s].p]
  OBVIOUS
<1>4. v \in States /\ v.pc = q /\ v.p = c[s].p
  BY <1>2, <1>3 DEF States, Pcs
<1>5. s[1] < s[2] /\ Split(c, s)
  BY <1>2 DEF CallOK, Split
<1>6. CallOK(s, v)
  BY <1>2, <1>4, <1>5 DEF CallOK
<1>7. CallsOK(n, d) /\ DOMAIN d = DOMAIN c /\ d[s] = v /\ \A t \in DOMAIN c : t # s => d[t] = c[t]
  <2>1. d = [c EXCEPT ![s] = v]
    BY <1>3 DEF Goes1
  <2> QED
    BY <1>1, <1>4, <1>6, <2>1, CallMoves
<1>8. TreeOK(n, d)
  BY <1>1, <1>4, <1>7, JoinMoves
<1>9. Splits(n, d, a)
  <2>1. \A t \in DOMAIN c : d[t].p = c[t].p /\ (Split(d, t) => Split(c, t))
    <3> TAKE t \in DOMAIN c
    <3>1. CASE t = s
      BY <1>4, <1>5, <1>7, <3>1
    <3>2. CASE t # s
      BY <1>7, <3>2 DEF Split
    <3> QED
      BY <3>1, <3>2
  <2> QED
    BY <1>1, <1>7, <2>1 DEF Splits
<1>10. ASSUME q = "returned"
       PROVE  Sorted(a, s[1], s[2])
  <2>1. c[s].pc = "join_right" /\ c[RightOf(c, s)].pc = "returned"
    BY <1>10
  <2>2. HasHalves(c, s)
    BY <1>1 DEF TreeOK
  <2>3. /\ LeftOf(c, s) \in DOMAIN c /\ c[LeftOf(c, s)].pc = "returned"
        /\ RightOf(c, s) \in DOMAIN c
    BY <2>1, <2>2 DEF HasHalves
  <2>4. PICK p : p = c[s].p
    OBVIOUS
  <2>5. Sorted(a, s[1], p - 1) /\ Sorted(a, p + 1, s[2])
    <3>1. PICK l \in DOMAIN c : l = <<s[1], p - 1>> /\ c[l].pc = "returned"
      BY <2>3, <2>4 DEF LeftOf
    <3>2. PICK r \in DOMAIN c : r = <<p + 1, s[2]>> /\ c[r].pc = "returned"
      BY <2>1, <2>3, <2>4 DEF RightOf
    <3>3. Sorted(a, l[1], l[2]) /\ Sorted(a, r[1], r[2])
      BY <1>1, <3>1, <3>2 DEF Finished
    <3>4. l[1] = s[1] /\ l[2] = p - 1 /\ r[1] = p + 1 /\ r[2] = s[2]
      BY <3>1, <3>2
    <3> QED
      BY <3>3, <3>4
  <2>6. /\ s[1] \in 0 .. n /\ s[2] \in -1 .. n - 1 /\ s[1] \in Int /\ s[2] \in Int
        /\ p \in Nat /\ s[1] <= p /\ p <= s[2]
    BY <1>1, <1>5, <2>4, CallBounds
  <2>7. s[1] \in Indices(n) /\ s[2] \in Indices(n) /\ p \in s[1] .. s[2]
    BY <1>5, <2>6 DEF Indices
  <2>8. Around(n, a, p)
    BY <1>1, <1>5, <2>4 DEF Splits, SplitAt
  <2> QED
    BY <2>5, <2>7, <2>8, SortedHalves DEF Running
<1>11. Finished(d, a)
  <2> SUFFICES ASSUME NEW t \in DOMAIN c, d[t].pc = "returned"
               PROVE  Sorted(a, t[1], t[2])
    BY <1>7 DEF Finished
  <2>1. CASE t = s
    BY <1>4, <1>7, <1>10, <2>1
  <2>2. CASE t # s
    BY <1>1, <1>7, <2>2 DEF Finished
  <2> QED
    BY <2>1, <2>2
<1> QED
  BY <1>7, <1>8, <1>9, <1>11 DEF Running

-------------------------------------------------------------------------------
(* The invariant *)

N == Cardinality(DOMAIN given)

\* The variables other than calls have their types.
Typed ==
  /\ given \in Arrays
  /\ array \in IntArrays(N)
  /\ function \in Functions
  /\ thread_count \in Nat
  /\ child \in [pc : {"none", "sort", "write", "ended"}, array : IntArrays(N), next : Nat]
  /\ point \in Nat
  /\ pipe \in Seq(Int) /\ Len(pipe) <= PipeCapacity
  /\ readers \subseteq Ends /\ writers \subseteq Ends
  /\ failed \subseteq Faults
  /\ verdict \in {"none", "successful", "failed"}

\* Threads, or one call without a child, work on the array.
Threads ==
  /\ child.pc = "none" /\ pipe = <<>> /\ point = 0
  /\ Running(N, given, calls, array)
  /\ \A s \in DOMAIN calls : calls[s].pc \notin {"sort", "read", "wait"}
  /\ \A s \in DOMAIN calls :
       IF function = "quicksort" THEN calls[s].pc \notin {"fork", "exited"}
       ELSE s = <<0, N - 1>> /\ calls[s].pc \in {"begin", "serial", "fork", "returned", "exited"}
  /\ verdict # "none" => verdict = "successful"

\* The elements on their way from the child to the parent.
Flowing(p) ==
  /\ \A i \in Indices(N) : i < point => array[i] = child.array[i]
  /\ point <= child.next /\ child.next <= p
  /\ child.pc = "sort" => child.next = 0
  /\ Len(pipe) = child.next - point
  /\ \A k \in 1 .. Len(pipe) : pipe[k] = child.array[point + k - 1]

\* Who holds which end of the pipe, and what that means in the end.
Holding(step, p) ==
  /\ step \in {"sort", "read"} => "parent" \in readers
  /\ child.pc \in {"sort", "write"} => "child" \in writers
  /\ step \in {"sort", "read"} /\ child.pc = "ended" /\ failed = {} => child.next = p
  /\ step \in {"wait", "returned"} /\ failed = {} => point = p
  /\ failed = {} /\ verdict # "none" => verdict = "successful"

\* The child sorts what is before the pivot at p, and the parent what is behind.
Sharing(step, p) ==
  /\ Shuffled(N, given, child.array, 0, N - 1)
  /\ Around(N, child.array, p) /\ child.array[p] = array[p]
  /\ child.pc # "sort" => Sorted(child.array, 0, p - 1)
  /\ step = "sort" => Shuffled(N, given, array, 0, N - 1) /\ point = 0
  /\ step # "sort" => /\ Sorted(array, p, N - 1)
                      /\ \A i \in Indices(N) : p <= i => Fits(N, given, array[i], i)

\* The only call of main.
Alone(n, c) == [s \in {<<0, n - 1>>} |-> c]

\* A parent and its child work on an array each.
Processes ==
  /\ function = "quicksort_with_pipes"
  /\ child.pc # "none"
  /\ thread_count = 0
  /\ \E c \in States :
       /\ calls = Alone(N, c)
       /\ c.pc \in {"sort", "read", "wait", "returned"}
       /\ 1 < N /\ c.p \in Indices(N)
       /\ Flowing(c.p) /\ Holding(c.pc, c.p) /\ Sharing(c.pc, c.p)

IInv ==
  /\ Typed
  /\ CallsOK(N, calls)
  /\ Counting(calls, thread_count)
  /\ Splits(N, calls, array)
  /\ verdict # "none" => calls[<<0, N - 1>>].pc = "returned"
  /\ Threads \/ Processes

\* The array has its indices from 0.
LEMMA GivenArray ==
  ASSUME given \in Arrays
  PROVE  N \in Nat /\ given \in IntArrays(N) /\ DOMAIN given = Indices(N) /\ Root = <<0, N - 1>>
<1>1. PICK n \in 0 .. MaxLength : given \in [0 .. n - 1 -> Int]
  BY QuicksortAssumption
<1>2. n \in Nat
  BY QuicksortAssumption
<1>3. DOMAIN given = Indices(n) /\ given \in IntArrays(n)
  BY <1>1 DEF Indices, IntArrays
<1>4. Cardinality(Indices(n)) = n
  BY <1>2, FS_Interval DEF Indices
<1> QED
  BY <1>2, <1>3, <1>4 DEF N, Root

-------------------------------------------------------------------------------
(* Steps of threads *)

MayGo(q) == IF function = "quicksort" THEN q \notin {"fork", "exited"}
            ELSE q \in {"begin", "serial", "fork", "returned", "exited"}

LEMMA ThreadsKept ==
  ASSUME IInv, Threads, NEW n \in Nat, n = N, NEW d, d = calls', NEW b, b = array',
         UNCHANGED <<given, function, child, point, pipe, readers, writers>>,
         failed' \subseteq Faults,
         Running(n, given, d, b),
         \A s \in DOMAIN d : d[s].pc \notin {"sort", "read", "wait"} /\ MayGo(d[s].pc),
         function # "quicksort" => \A s \in DOMAIN d : s = <<0, n - 1>>,
         NEW k \in Nat, k = thread_count', Counting(d, k),
         NEW v \in {"none", "successful"}, v = verdict',
         v # "none" => d[<<0, n - 1>>].pc = "returned"
  PROVE  IInv'
<1>1. n = N'
  BY DEF N
<1>2. Typed'
  <2>1. b \in IntArrays(n)
    BY DEF Running
  <2> QED
    BY <1>1, <2>1 DEF IInv, Typed
<1>3. CallsOK(n, d) /\ Splits(n, d, b)
  BY DEF Running
<1>4. PICK g : g = given
  OBVIOUS
<1>5. Running(n, g, d, b) /\ g = given'
  BY <1>4
<1>6. Threads'
  <2>1. (child.pc = "none" /\ pipe = <<>> /\ point = 0)'
    BY DEF Threads
  <2>2. Running(N, given, calls, array)'
    BY <1>1, <1>5
  <2>3. (\A s \in DOMAIN calls : calls[s].pc \notin {"sort", "read", "wait"})'
    OBVIOUS
  <2>4. (\A s \in DOMAIN calls :
           IF function = "quicksort" THEN calls[s].pc \notin {"fork", "exited"}
           ELSE s = <<0, N - 1>> /\ calls[s].pc \in {"begin", "serial", "fork", "returned", "exited"})'
    <3>1. \A s \in DOMAIN d :
            IF function = "quicksort" THEN d[s].pc \notin {"fork", "exited"}
            ELSE s = <<0, n - 1>> /\ d[s].pc \in {"begin", "serial", "fork", "returned", "exited"}
      BY DEF MayGo
    <3> QED
      BY <1>1, <3>1
  <2>5. (verdict # "none" => verdict = "successful")'
    OBVIOUS
  <2> QED
    BY <2>1, <2>2, <2>3, <2>4, <2>5 DEF Threads
<1>7. CallsOK(N, calls)'
  BY <1>1, <1>3
<1>8. Counting(calls, thread_count)'
  OBVIOUS
<1>9. Splits(N, calls, array)'
  BY <1>1, <1>3
<1>10. (verdict # "none" => calls[<<0, N - 1>>].pc = "returned")'
  BY <1>1
<1> QED
  BY <1>2, <1>6, <1>7, <1>8, <1>9, <1>10 DEF IInv

\* One call goes on.
LEMMA ThreadGoes ==
  ASSUME IInv, Threads, NEW n \in Nat, n = N, NEW s \in DOMAIN calls, calls[s].pc # "returned",
         UNCHANGED <<given, function, child, point, pipe, readers, writers, verdict>>,
         failed' \subseteq Faults,
         NEW q \in Pcs, q \notin {"sort", "read", "wait"}, MayGo(q),
         NEW r, NEW d, d = calls', d = [calls EXCEPT ![s] = [pc |-> q, p |-> r]],
         NEW b, b = array', Running(n, given, d, b),
         NEW k \in Nat, k = thread_count', Counting(d, k)
  PROVE  IInv'
<1>1. DOMAIN d = DOMAIN calls /\ d[s].pc = q /\ \A t \in DOMAIN calls : t # s => d[t] = calls[t]
  OBVIOUS
<1>2. \A t \in DOMAIN d : d[t].pc \notin {"sort", "read", "wait"} /\ MayGo(d[t].pc)
  BY <1>1 DEF Threads, MayGo
<1>3. function # "quicksort" => \A t \in DOMAIN d : t = <<0, n - 1>>
  BY <1>1 DEF Threads
<1>4. verdict' \in {"none", "successful"}
  BY DEF Threads
<1>5. verdict' # "none" => d[<<0, n - 1>>].pc = "returned"
  <2>1. <<0, n - 1>> \in DOMAIN calls
    BY DEF IInv, CallsOK
  <2>2. verdict # "none" => calls[<<0, n - 1>>].pc = "returned"
    BY DEF IInv
  <2> QED
    BY <1>1, <2>1, <2>2
<1> QED
  BY <1>2, <1>3, <1>4, <1>5, ThreadsKept

LEMMA GoesIs ==
  ASSUME NEW n \in Nat, CallsOK(n, calls), NEW s \in DOMAIN calls, NEW q, Goes(s, q)
  PROVE  Goes1(calls, s, q, calls') /\ calls' = [calls EXCEPT ![s] = [pc |-> q, p |-> calls[s].p]]
<1>1. calls[s] \in States
  BY CallBounds
<1>2. [calls[s] EXCEPT !.pc = q] = [pc |-> q, p |-> calls[s].p]
  BY <1>1 DEF States
<1>3. calls' = [calls EXCEPT ![s] = [calls[s] EXCEPT !.pc = q]]
  BY DEF Goes
<1> QED
  BY <1>2, <1>3 DEF Goes1

\* Steps that change the calls but not what the count is of.
LEMMA ThreadCounts ==
  ASSUME IInv, NEW s \in DOMAIN calls, NEW q, NEW r, NEW d, d = [calls EXCEPT ![s] = [pc |-> q, p |-> r]],
         calls[s].pc \notin {"create_left", "create_right"}, q \notin {"create_left", "create_right"},
         thread_count' = thread_count
  PROVE  thread_count' \in Nat /\ Counting(d, thread_count')
<1>1. DOMAIN d = DOMAIN calls /\ d[s].pc = q /\ \A t \in DOMAIN calls : t # s => d[t] = calls[t]
  OBVIOUS
<1>2. Counting(calls, thread_count) /\ thread_count \in Nat
  BY DEF IInv, Typed
<1>3. Counting(d, thread_count)
  BY <1>1, <1>2, CountKept
<1> QED
  BY <1>2, <1>3

LEMMA ThreadsBegin ==
  ASSUME IInv, Threads, NEW s \in DOMAIN calls, Begins(s)
  PROVE  IInv'
<1>1. PICK n \in Nat : n = N
  BY GivenArray DEF IInv, Typed
<1>2. Running(n, given, calls, array) /\ CallsOK(n, calls)
  BY <1>1 DEF Threads, IInv
<1>3. /\ UNCHANGED <<given, function, child, point, pipe, readers, writers, verdict>>
      /\ failed' \subseteq Faults /\ thread_count' = thread_count
      /\ calls[s].pc = "begin"
  BY DEF Begins, shared, transfer, IInv, Typed
<1>4. PICK d : d = calls'
  OBVIOUS
<1>5. PICK b : b = array'
  OBVIOUS
<1>6. CASE s[1] >= s[2] /\ Goes(s, "returned") /\ UNCHANGED array
  <2>6. PICK q \in Pcs : q = "returned" /\ MayGo(q)
    BY DEF Pcs, MayGo
  <2>7. PICK r : r = calls[s].p
    OBVIOUS
  <2>1. Goes1(calls, s, "returned", d) /\ d = [calls EXCEPT ![s] = [pc |-> q, p |-> r]]
    BY <1>2, <1>4, <1>6, <2>6, <2>7, GoesIs
  <2>2. Running(n, given, d, array)
    BY <1>2, <1>3, <1>6, <2>1, RunsBegin
  <2>3. thread_count' \in Nat /\ Counting(d, thread_count')
    BY <1>3, <2>1, <2>6, ThreadCounts
  <2>4. Running(n, given, d, b)
    BY <1>5, <1>6, <2>2
  <2>8. q \in Pcs /\ q \notin {"sort", "read", "wait"} /\ MayGo(q)
    BY <2>6
  <2> QED
    BY <1>1, <1>3, <1>4, <1>5, <2>1, <2>3, <2>4, <2>8, ThreadGoes, ZenonT(60)
<1>7. CASE s[1] < s[2] /\ ~ (s[1] >= s[2] /\ Goes(s, "returned") /\ UNCHANGED array)
  <2>1. PICK r : r = pivot(array, s[1], s[2])
    OBVIOUS
  <2>2. PICK q : q = IF s[2] - s[1] < SerialBelow[function] THEN "serial"
                     ELSE IF function = "quicksort" THEN "count" ELSE "fork"
    OBVIOUS
  <2>3. array' = r.array /\ calls' = [calls EXCEPT ![s] = [pc |-> q, p |-> r.p]]
    BY <1>7, <2>1, <2>2 DEF Begins
  <2>4. q \in {"serial", "count", "fork"} /\ q \in Pcs /\ MayGo(q)
    BY <2>2 DEF Pcs, MayGo
  <2>5. Running(n, given, d, b)
    BY <1>2, <1>3, <1>4, <1>5, <1>7, <2>1, <2>3, <2>4, RunsPivot
  <2>6. thread_count' \in Nat /\ Counting(d, thread_count')
    <3>1. d = [calls EXCEPT ![s] = [pc |-> q, p |-> r.p]]
      BY <1>4, <2>3
    <3> QED
      BY <1>3, <2>4, <3>1, ThreadCounts
  <2> QED
    BY <1>1, <1>3, <1>4, <1>5, <2>3, <2>4, <2>5, <2>6, ThreadGoes
<1> QED
  BY <1>6, <1>7 DEF Begins

LEMMA ThreadsSort ==
  ASSUME IInv, Threads, NEW s \in DOMAIN calls, SortsBoth(s)
  PROVE  IInv'
<1>1. PICK n \in Nat : n = N
  BY GivenArray DEF IInv, Typed
<1>2. Running(n, given, calls, array) /\ CallsOK(n, calls)
  BY <1>1 DEF Threads, IInv
<1>3. /\ UNCHANGED <<given, function, child, point, pipe, readers, writers, verdict>>
      /\ failed' \subseteq Faults /\ thread_count' = thread_count
      /\ calls[s].pc = "serial" /\ Goes(s, "returned")
  BY DEF SortsBoth, shared, transfer, IInv, Typed
<1>4. PICK d : d = calls'
  OBVIOUS
<1>5. PICK b : b = array'
  OBVIOUS
<1>10. PICK q \in Pcs : q = "returned" /\ MayGo(q)
  BY DEF Pcs, MayGo
<1>11. PICK r : r = calls[s].p
  OBVIOUS
<1>6. Goes1(calls, s, "returned", d) /\ d = [calls EXCEPT ![s] = [pc |-> q, p |-> r]]
  BY <1>2, <1>3, <1>4, <1>10, <1>11, GoesIs
<1>7. b = serial_quicksort(serial_quicksort(array, LeftOf(calls, s)), RightOf(calls, s))
  BY <1>5 DEF SortsBoth, Left, Right, LeftOf, RightOf
<1>8. Running(n, given, d, b)
  BY <1>2, <1>3, <1>6, <1>7, RunsSerial
<1>9. thread_count' \in Nat /\ Counting(d, thread_count')
  BY <1>3, <1>6, <1>10, ThreadCounts
<1>12. q \in Pcs /\ q \notin {"sort", "read", "wait"} /\ MayGo(q)
  BY <1>10
<1> QED
  BY <1>1, <1>3, <1>4, <1>5, <1>6, <1>8, <1>9, <1>12, ThreadGoes, ZenonT(60)

LEMMA ThreadsCount ==
  ASSUME IInv, Threads, NEW s \in DOMAIN calls, Counts(s)
  PROVE  IInv'
<1>1. PICK n \in Nat : n = N
  BY GivenArray DEF IInv, Typed
<1>2. Running(n, given, calls, array) /\ CallsOK(n, calls)
  BY <1>1 DEF Threads, IInv
<1>3. /\ UNCHANGED <<given, array, function, child, point, pipe, readers, writers, verdict>>
      /\ failed' \subseteq Faults /\ thread_count' = thread_count + 2
      /\ calls[s].pc = "count" /\ Goes(s, "create_left")
  BY DEF Counts, shared, transfer, IInv, Typed
<1>4. PICK d : d = calls'
  OBVIOUS
<1>5. PICK b : b = array'
  OBVIOUS
<1>9. PICK q \in Pcs : q = "create_left" /\ MayGo(q)
  BY <1>3 DEF Pcs, MayGo, Threads
<1>10. PICK r : r = calls[s].p
  OBVIOUS
<1>6. Goes1(calls, s, "create_left", d) /\ d = [calls EXCEPT ![s] = [pc |-> q, p |-> r]]
  BY <1>2, <1>3, <1>4, <1>9, <1>10, GoesIs
<1>7. Running(n, given, d, b)
  <2>1. b = array
    BY <1>3, <1>5
  <2> QED
    BY <1>2, <1>3, <1>6, <2>1, RunsCount
<1>8. thread_count' \in Nat /\ Counting(d, thread_count')
  <2>1. DOMAIN d = DOMAIN calls /\ d[s].pc = "create_left" /\ \A t \in DOMAIN calls : t # s => d[t] = calls[t]
    BY <1>6, <1>9
  <2>2. Counting(calls, thread_count) /\ thread_count \in Nat /\ IsFiniteSet(DOMAIN calls)
    BY DEF IInv, Typed, CallsOK
  <2>3. Counting(d, thread_count + 2)
    BY <1>3, <2>1, <2>2, CountCounts
  <2> QED
    BY <1>3, <2>2, <2>3
<1>11. q \in Pcs /\ q \notin {"sort", "read", "wait"} /\ MayGo(q)
  BY <1>9
<1>12. PICK k \in Nat : k = thread_count' /\ Counting(d, k)
  BY <1>8
<1>13. /\ UNCHANGED <<given, function, child, point, pipe, readers, writers, verdict>>
       /\ failed' \subseteq Faults /\ calls[s].pc # "returned"
  BY <1>3
<1>14. d = [calls EXCEPT ![s] = [pc |-> q, p |-> r]]
  BY <1>6
<1> QED
  BY <1>1, <1>4, <1>5, <1>7, <1>11, <1>12, <1>13, <1>14, ThreadGoes, ZenonT(90)

LEMMA ThreadsCreate ==
  ASSUME IInv, Threads, NEW s \in DOMAIN calls, Creates(s)
  PROVE  IInv'
<1>1. PICK n \in Nat : n = N
  BY GivenArray DEF IInv, Typed
<1>2. Running(n, given, calls, array) /\ CallsOK(n, calls) /\ TreeOK(n, calls)
  BY <1>1 DEF Threads, IInv, Running
<1>3. /\ UNCHANGED <<given, array, function, child, point, pipe, readers, writers, verdict>>
      /\ failed' \subseteq Faults /\ thread_count' = thread_count
      /\ calls[s].pc \in {"create_left", "create_right"}
  BY DEF Creates, shared, transfer, IInv, Typed
<1>4. PICK d : d = calls'
  OBVIOUS
<1>5. PICK b : b = array'
  OBVIOUS
<1>6. PICK h : h = IF calls[s].pc = "create_left" THEN LeftOf(calls, s) ELSE RightOf(calls, s)
  OBVIOUS
<1>7. PICK q : q = IF calls[s].pc = "create_left" THEN "create_right" ELSE "join_left"
  OBVIOUS
<1>8. Creating(calls, s, h, q)
  BY <1>3, <1>6, <1>7 DEF Creating
<1>9. d = [t \in DOMAIN calls \cup {h} |->
             IF t = h THEN [pc |-> "begin", p |-> 0]
             ELSE IF t = s THEN [calls[s] EXCEPT !.pc = q] ELSE calls[t]]
  BY <1>4, <1>6, <1>7 DEF Creates, Left, Right, LeftOf, RightOf
<1>10. h \notin DOMAIN calls
  BY <1>2, <1>8, HalfIsNew
<1>11. calls[s] \in States
  BY <1>2, CallBounds
<1>12. [calls[s] EXCEPT !.pc = q] = [pc |-> q, p |-> calls[s].p]
  BY <1>11 DEF States
<1>13. Created(calls, s, h, q, d)
  <2>1. DOMAIN d = DOMAIN calls \cup {h}
    BY <1>9
  <2>2. d[h] = [pc |-> "begin", p |-> 0]
    BY <1>9
  <2>3. d[s] = [pc |-> q, p |-> calls[s].p]
    BY <1>9, <1>10, <1>12
  <2>4. \A t \in DOMAIN calls : t # s /\ t # h => d[t] = calls[t]
    BY <1>9
  <2> QED
    BY <2>1, <2>2, <2>3, <2>4 DEF Created
<1>14. d \in [DOMAIN d -> States]
  <2>1. [pc |-> "begin", p |-> 0] \in States
    BY DEF States, Pcs
  <2>2. [pc |-> q, p |-> calls[s].p] \in States
    BY <1>7, <1>11 DEF States, Pcs
  <2>3. \A t \in DOMAIN calls : calls[t] \in States
    BY <1>2 DEF CallsOK
  <2> QED
    BY <1>9, <1>12, <2>1, <2>2, <2>3
<1>15. Running(n, given, d, b)
  <2>1. b = array
    BY <1>3, <1>5
  <2> QED
    BY <1>2, <1>8, <1>13, <1>14, <2>1, RunsCreate
<1>16. thread_count' \in Nat /\ Counting(d, thread_count')
  <2>1. Counting(calls, thread_count) /\ thread_count \in Nat
    BY DEF IInv, Typed
  <2>2. Counting(d, thread_count)
    BY <1>2, <1>8, <1>13, <2>1, CountCreates
  <2> QED
    BY <1>3, <2>1, <2>2
<1>17. function = "quicksort"
  BY <1>3 DEF Threads
<1>18. ASSUME NEW t \in DOMAIN d
       PROVE  d[t].pc \notin {"sort", "read", "wait"} /\ MayGo(d[t].pc)
  <2>1. CASE t = h
    BY <1>13, <1>17, <2>1 DEF Created, MayGo
  <2>2. CASE t = s
    BY <1>7, <1>13, <1>17, <2>2 DEF Created, MayGo
  <2>3. CASE t # s /\ t # h
    <3>1. t \in DOMAIN calls /\ d[t] = calls[t]
      BY <1>13, <2>3 DEF Created
    <3> QED
      BY <1>17, <3>1 DEF Threads, MayGo
  <2> QED
    BY <2>1, <2>2, <2>3
<1>19. verdict' \in {"none", "successful"} /\ (verdict' # "none" => d[<<0, n - 1>>].pc = "returned")
  <2>1. <<0, n - 1>> \in DOMAIN calls
    BY <1>2 DEF CallsOK
  <2>2. verdict # "none" => calls[<<0, n - 1>>].pc = "returned"
    BY <1>1 DEF IInv
  <2>3. verdict' \in {"none", "successful"}
    BY <1>3 DEF Threads
  <2>4. ASSUME verdict' # "none"
        PROVE  d[<<0, n - 1>>].pc = "returned"
    <3>1. calls[<<0, n - 1>>].pc = "returned"
      BY <1>3, <2>2, <2>4
    <3>2. <<0, n - 1>> # s /\ <<0, n - 1>> # h
      BY <1>3, <1>10, <2>1, <3>1
    <3> QED
      BY <1>13, <2>1, <3>1, <3>2 DEF Created
  <2> QED
    BY <2>3, <2>4
<1> QED
  BY <1>1, <1>3, <1>4, <1>5, <1>15, <1>16, <1>17, <1>18, <1>19, ThreadsKept

LEMMA ThreadsJoin ==
  ASSUME IInv, Threads, NEW s \in DOMAIN calls, Joins(s)
  PROVE  IInv'
<1>1. PICK n \in Nat : n = N
  BY GivenArray DEF IInv, Typed
<1>2. Running(n, given, calls, array) /\ CallsOK(n, calls)
  BY <1>1 DEF Threads, IInv
<1>3. /\ UNCHANGED <<given, array, function, child, point, pipe, readers, writers, verdict>>
      /\ failed' \subseteq Faults /\ thread_count' = thread_count
      /\ calls[s].pc \in {"join_left", "join_right"}
  BY DEF Joins, shared, transfer, IInv, Typed
<1>4. PICK d : d = calls'
  OBVIOUS
<1>5. PICK b : b = array'
  OBVIOUS
<1>6. PICK q : /\ Goes(s, q)
               /\ \/ calls[s].pc = "join_left" /\ q = "join_right" /\ calls[LeftOf(calls, s)].pc = "returned"
                  \/ calls[s].pc = "join_right" /\ q = "returned" /\ calls[RightOf(calls, s)].pc = "returned"
  BY DEF Joins, Left, Right, LeftOf, RightOf
<1>11. PICK r : r = calls[s].p
  OBVIOUS
<1>7. Goes1(calls, s, q, d) /\ d = [calls EXCEPT ![s] = [pc |-> q, p |-> r]]
  BY <1>2, <1>4, <1>6, <1>11, GoesIs
<1>8. Running(n, given, d, b)
  <2>1. b = array
    BY <1>3, <1>5
  <2> QED
    BY <1>2, <1>6, <1>7, <2>1, RunsJoin
<1>12. function = "quicksort"
  BY <1>3 DEF Threads
<1>13. q \in {"join_right", "returned"}
  BY <1>6
<1>9. q \in Pcs /\ q \notin {"sort", "read", "wait"} /\ MayGo(q)
  BY <1>12, <1>13 DEF Pcs, MayGo
<1>10. thread_count' \in Nat /\ Counting(d, thread_count')
  BY <1>3, <1>7, <1>13, ThreadCounts
<1> QED
  BY <1>1, <1>3, <1>4, <1>5, <1>7, <1>8, <1>9, <1>10, ThreadGoes

\* main validates what the threads have done.
LEMMA ThreadsValidate ==
  ASSUME IInv, Threads, Validates
  PROVE  IInv'
<1>1. PICK n \in Nat : n = N /\ Root = <<0, n - 1>>
  BY GivenArray DEF IInv, Typed
<1>2. Running(n, given, calls, array) /\ CallsOK(n, calls) /\ Finished(calls, array)
  BY <1>1 DEF Threads, IInv, Running
<1>3. /\ UNCHANGED <<given, array, calls, thread_count, function, child, point, pipe, readers, writers>>
      /\ failed' \subseteq Faults
      /\ calls[<<0, n - 1>>].pc = "returned"
      /\ verdict' = IF checkFn(array) THEN "successful" ELSE "failed"
  BY <1>1 DEF Validates, shared, transfer, IInv, Typed
<1>4. PICK d : d = calls'
  OBVIOUS
<1>5. PICK b : b = array'
  OBVIOUS
<1>6. d = calls /\ b = array
  BY <1>3, <1>4, <1>5
<1>7. Running(n, given, d, b)
  BY <1>2, <1>6
<1>8. checkFn(array)
  <2>1. PICK t \in DOMAIN calls : t = <<0, n - 1>>
    BY <1>2 DEF CallsOK
  <2>2. Sorted(array, t[1], t[2]) /\ t[1] = 0 /\ t[2] = n - 1
    BY <1>2, <1>3, <2>1 DEF Finished
  <2>3. Sorted(array, 0, n - 1)
    BY <2>2
  <2>4. DOMAIN array = 0 .. n - 1
    BY <1>2 DEF Running, IntArrays, Indices
  <2>5. \A i \in 0 .. n - 1 : i <= i + 1
    OBVIOUS
  <2> QED
    BY <2>3, <2>4, <2>5 DEF checkFn, Sorted
<1>9. PICK v \in {"none", "successful"} : v = verdict'
  BY <1>3, <1>8
<1>10. v # "none" => d[<<0, n - 1>>].pc = "returned"
  BY <1>3, <1>6
<1>11. PICK k \in Nat : k = thread_count' /\ Counting(d, k)
  BY <1>3, <1>6 DEF IInv, Typed
<1>12. \A s \in DOMAIN d : d[s].pc \notin {"sort", "read", "wait"} /\ MayGo(d[s].pc)
  BY <1>6 DEF Threads, MayGo
<1>13. function # "quicksort" => \A s \in DOMAIN d : s = <<0, n - 1>>
  BY <1>1, <1>6 DEF Threads
<1>14. UNCHANGED <<given, function, child, point, pipe, readers, writers>> /\ failed' \subseteq Faults
  BY <1>3
<1> QED
  BY <1>1, <1>4, <1>5, <1>7, <1>9, <1>10, <1>11, <1>12, <1>13, <1>14, ThreadsKept

LEMMA RunsExit ==
  ASSUME NEW n \in Nat, NEW g, NEW c, NEW a, Running(n, g, c, a),
         NEW s \in DOMAIN c, \A t \in DOMAIN c : t = s, c[s].pc = "fork",
         NEW d, Goes1(c, s, "exited", d)
  PROVE  Running(n, g, d, a)
<1>1. c[s].p \in Nat /\ CallOK(s, c[s])
  BY CallBounds DEF Running, CallsOK
<1>2. PICK v : v = [pc |-> "exited", p |-> c[s].p]
  OBVIOUS
<1>3. v \in States /\ v.pc = "exited" /\ v.p = c[s].p
  BY <1>1, <1>2 DEF States, Pcs
<1>4. CallOK(s, v)
  BY <1>1, <1>3 DEF CallOK
<1>5. CallsOK(n, d) /\ DOMAIN d = DOMAIN c /\ d[s] = v
  <2>1. d = [c EXCEPT ![s] = v] /\ CallsOK(n, c)
    BY <1>2 DEF Goes1, Running
  <2> QED
    BY <1>3, <1>4, <2>1, CallMoves
<1>6. TreeOK(n, d)
  <2>1. s = <<0, n - 1>>
    BY DEF Running, CallsOK
  <2>2. \A t, u \in DOMAIN d : Relate(d, t, u)
    BY <1>5 DEF Relate
  <2>3. HasHalves(d, s)
    BY <1>3, <1>5 DEF HasHalves
  <2> QED
    BY <1>5, <2>1, <2>2, <2>3 DEF TreeOK
<1>7. Splits(n, d, a)
  <2>1. d[s].p = c[s].p /\ (Split(d, s) => Split(c, s))
    BY <1>3, <1>5 DEF Split
  <2> QED
    BY <1>5, <2>1 DEF Splits, Running
<1>8. Finished(d, a)
  BY <1>3, <1>5 DEF Finished
<1> QED
  BY <1>5, <1>6, <1>7, <1>8 DEF Running

\* There is no pipe or no child to be had.
LEMMA ForkFails ==
  ASSUME IInv, Threads, Forks, Goes(Root, "exited"), failed' \subseteq Faults,
         UNCHANGED <<child, point, readers, writers>>
  PROVE  IInv'
<1>1. PICK n \in Nat : n = N /\ Root = <<0, n - 1>>
  BY GivenArray DEF IInv, Typed
<1>2. Running(n, given, calls, array) /\ CallsOK(n, calls)
  BY <1>1 DEF Threads, IInv
<1>3. PICK s \in DOMAIN calls : s = Root /\ s = <<0, n - 1>>
  BY <1>1, <1>2 DEF CallsOK
<1>4. calls[s].pc = "fork" /\ Goes(s, "exited")
  BY <1>3 DEF Forks
<1>5. UNCHANGED <<given, array, function, child, point, pipe, readers, writers, verdict, thread_count>>
  BY DEF Forks, shared
<1>6. PICK d : d = calls'
  OBVIOUS
<1>7. PICK b : b = array'
  OBVIOUS
<1>8. function # "quicksort" /\ \A t \in DOMAIN calls : t = s
  <2>1. function # "quicksort"
    BY <1>4 DEF Threads
  <2> QED
    BY <1>1, <1>3, <2>1 DEF Threads
<1>9. PICK q \in Pcs : q = "exited" /\ MayGo(q)
  BY <1>8 DEF Pcs, MayGo
<1>10. PICK r : r = calls[s].p
  OBVIOUS
<1>11. Goes1(calls, s, "exited", d) /\ d = [calls EXCEPT ![s] = [pc |-> q, p |-> r]]
  BY <1>2, <1>4, <1>6, <1>9, <1>10, GoesIs
<1>12. Running(n, given, d, b)
  <2>1. b = array
    BY <1>5, <1>7
  <2> QED
    BY <1>2, <1>4, <1>8, <1>11, <2>1, RunsExit
<1>13. thread_count' \in Nat /\ Counting(d, thread_count')
  BY <1>4, <1>5, <1>9, <1>11, ThreadCounts
<1>14. PICK k \in Nat : k = thread_count' /\ Counting(d, k)
  BY <1>13
<1>15. q \in Pcs /\ q \notin {"sort", "read", "wait"} /\ MayGo(q)
  BY <1>9
<1>16. d = [calls EXCEPT ![s] = [pc |-> q, p |-> r]]
  BY <1>11
<1>17. UNCHANGED <<given, function, child, point, pipe, readers, writers, verdict>> /\ calls[s].pc # "returned"
  BY <1>4, <1>5
<1> QED
  BY <1>1, <1>6, <1>7, <1>12, <1>14, <1>15, <1>16, <1>17, ThreadGoes, ZenonT(90)

-------------------------------------------------------------------------------
(* Steps of the parent and the child *)

LEMMA AloneCall ==
  ASSUME NEW n \in Nat, 1 < n, NEW c \in States, c.p \in Indices(n),
         c.pc \in {"sort", "read", "wait", "returned"}, NEW d, d = Alone(n, c)
  PROVE  /\ DOMAIN d = {<<0, n - 1>>} /\ d[<<0, n - 1>>] = c
         /\ CallsOK(n, d) /\ Counting(d, 0)
         /\ Split(d, <<0, n - 1>>)
<1>1. DOMAIN d = {<<0, n - 1>>} /\ d[<<0, n - 1>>] = c
  BY DEF Alone
<1>2. PICK s : s = <<0, n - 1>>
  OBVIOUS
<1>3. s[1] = 0 /\ s[2] = n - 1
  BY <1>2
<1>4. s \in Spans(n)
  BY <1>2 DEF Spans
<1>5. CallOK(s, c)
  BY <1>3 DEF CallOK, Indices
<1>6. CallsOK(n, d)
  <2>1. IsFiniteSet(DOMAIN d)
    BY <1>1, FS_Singleton
  <2>2. d \in [DOMAIN d -> States]
    BY DEF Alone
  <2> QED
    BY <1>1, <1>2, <1>4, <1>5, <2>1, <2>2 DEF CallsOK
<1>7. Counting(d, 0)
  <2>1. Cardinality(DOMAIN d) = 1
    BY <1>1, FS_Singleton
  <2>2. At(d, "create_left") = {} /\ At(d, "create_right") = {}
    BY <1>1 DEF At
  <2>3. Cardinality({}) = 0
    BY FS_EmptySet
  <2> QED
    BY <2>1, <2>2, <2>3 DEF Counting
<1>8. Split(d, s)
  BY <1>1, <1>2, <1>3 DEF Split
<1> QED
  BY <1>1, <1>2, <1>6, <1>7, <1>8

\* What there is to show of a step of theirs.
LEMMA ProcessesKept ==
  ASSUME NEW n \in Nat, n = N', Typed', function' = "quicksort_with_pipes", child'.pc # "none",
         thread_count' = 0, NEW c \in States, calls' = Alone(n, c),
         c.pc \in {"sort", "read", "wait", "returned"}, 1 < n, c.p \in Indices(n),
         NEW b, b = array', SplitAt(n, b, <<0, n - 1>>, c.p),
         verdict' # "none" => c.pc = "returned",
         Flowing(c.p)', Holding(c.pc, c.p)', Sharing(c.pc, c.p)'
  PROVE  IInv'
<1>1. PICK d : d = calls'
  OBVIOUS
<1>2. /\ DOMAIN d = {<<0, n - 1>>} /\ d[<<0, n - 1>>] = c
      /\ CallsOK(n, d) /\ Counting(d, 0)
  BY <1>1, AloneCall
<1>3. Splits(n, d, b)
  <2>1. PICK s : s = <<0, n - 1>>
    OBVIOUS
  <2>2. s[1] = 0 /\ s[2] = n - 1
    BY <2>1
  <2>3. Placed(n, b, s)
    BY <2>2 DEF Placed
  <2> QED
    BY <1>2, <2>1, <2>3 DEF Splits
<1>4. Processes'
  <2>1. (calls = Alone(N, c))'
    OBVIOUS
  <2>2. (1 < N /\ c.p \in Indices(N))'
    OBVIOUS
  <2> QED
    BY <2>1, <2>2 DEF Processes
<1>5. CallsOK(N, calls)' /\ Splits(N, calls, array)'
  BY <1>1, <1>2, <1>3
<1>6. Counting(calls, thread_count)'
  BY <1>1, <1>2
<1>7. (verdict # "none" => calls[<<0, N - 1>>].pc = "returned")'
  BY <1>1, <1>2
<1> QED
  BY <1>4, <1>5, <1>6, <1>7 DEF IInv

\* What there is to start from.
LEMMA ProcessFacts ==
  ASSUME IInv, Processes
  PROVE  \E n \in Nat, c \in States :
           /\ n = N /\ given \in IntArrays(n) /\ DOMAIN given = Indices(n)
           /\ calls = Alone(n, c) /\ c.pc \in {"sort", "read", "wait", "returned"}
           /\ 1 < n /\ c.p \in Indices(n)
           /\ Root = <<0, n - 1>> /\ DOMAIN calls = {Root} /\ calls[Root] = c
           /\ Left(Root) = <<0, c.p - 1>> /\ Right(Root) = <<c.p + 1, n - 1>>
           /\ SplitAt(n, array, <<0, n - 1>>, c.p)
           /\ verdict # "none" => c.pc = "returned"
           /\ Flowing(c.p) /\ Holding(c.pc, c.p) /\ Sharing(c.pc, c.p)
<1>1. PICK n \in Nat : n = N /\ given \in IntArrays(n) /\ DOMAIN given = Indices(n) /\ Root = <<0, n - 1>>
  BY GivenArray DEF IInv, Typed
<1>2. PICK c \in States :
        /\ calls = Alone(n, c) /\ c.pc \in {"sort", "read", "wait", "returned"}
        /\ 1 < n /\ c.p \in Indices(n)
        /\ Flowing(c.p) /\ Holding(c.pc, c.p) /\ Sharing(c.pc, c.p)
  BY <1>1 DEF Processes
<1>3. PICK d : d = calls
  OBVIOUS
<1>4. DOMAIN d = {<<0, n - 1>>} /\ d[<<0, n - 1>>] = c /\ Split(d, <<0, n - 1>>)
  BY <1>2, <1>3, AloneCall
<1>5. DOMAIN calls = {Root} /\ calls[Root] = c
  BY <1>1, <1>3, <1>4
<1>6. Left(Root) = <<0, c.p - 1>> /\ Right(Root) = <<c.p + 1, n - 1>>
  <2>1. Root[1] = 0 /\ Root[2] = n - 1
    BY <1>1
  <2> QED
    BY <1>5, <2>1 DEF Left, Right
<1>7. Splits(n, d, array)
  BY <1>1, <1>3 DEF IInv
<1>8. SplitAt(n, array, <<0, n - 1>>, c.p)
  BY <1>4, <1>7 DEF Splits
<1>9. verdict # "none" => c.pc = "returned"
  BY <1>1, <1>3, <1>4 DEF IInv
<1> QED
  BY <1>1, <1>2, <1>5, <1>6, <1>8, <1>9

\* The call of main goes on.
LEMMA AloneGoes ==
  ASSUME NEW n, NEW c \in States, calls = Alone(n, c), Root = <<0, n - 1>>, NEW q \in Pcs, Goes(Root, q),
         NEW v, v = [pc |-> q, p |-> c.p]
  PROVE  calls' = Alone(n, v) /\ v \in States /\ v.pc = q /\ v.p = c.p
<1>1. v \in States /\ v.pc = q /\ v.p = c.p
  BY DEF States
<1>2. [c EXCEPT !.pc = q] = v
  BY DEF States
<1>3. calls' = [calls EXCEPT ![Root] = [calls[Root] EXCEPT !.pc = q]]
  BY DEF Goes
<1>4. calls[Root] = c /\ DOMAIN calls = {Root}
  BY DEF Alone
<1>5. calls' = [s \in {Root} |-> v]
  BY <1>2, <1>3, <1>4 DEF Alone
<1> QED
  BY <1>1, <1>5 DEF Alone

\* The child starts with a copy of the array.
LEMMA ForkWorks ==
  ASSUME IInv, Threads, Forks, Goes(Root, "sort"),
         child' = [pc |-> "sort", array |-> array, next |-> Left(Root)[1]],
         point' = Left(Root)[1], readers' = Ends, writers' = Ends, UNCHANGED failed
  PROVE  IInv'
<1>1. PICK n \in Nat : n = N /\ Root = <<0, n - 1>>
  BY GivenArray DEF IInv, Typed
<1>2. Running(n, given, calls, array) /\ CallsOK(n, calls)
  BY <1>1 DEF Threads, IInv
<1>3. PICK s \in DOMAIN calls : s = Root /\ s = <<0, n - 1>> /\ s[1] = 0 /\ s[2] = n - 1
  BY <1>1, <1>2 DEF CallsOK
<1>4. calls[s].pc = "fork"
  BY <1>3 DEF Forks
<1>5. UNCHANGED <<given, array, function, pipe, thread_count, verdict>>
  BY DEF Forks, shared
<1>6. n = N'
  BY <1>1, <1>5 DEF N
<1>7. function = "quicksort_with_pipes" /\ DOMAIN calls = {s}
  <2>1. function # "quicksort"
    BY <1>4 DEF Threads
  <2>2. \A t \in DOMAIN calls : t = s
    BY <1>1, <1>3, <2>1 DEF Threads
  <2> QED
    BY <2>1, <2>2 DEF IInv, Typed, Functions
<1>8. PICK c : c = calls[s]
  OBVIOUS
<1>9. c \in States /\ CallOK(s, c)
  BY <1>2, <1>8 DEF CallsOK
<1>10. calls = Alone(n, c)
  <2>1. calls = [t \in DOMAIN calls |-> calls[t]]
    BY <1>2 DEF CallsOK
  <2> QED
    BY <1>3, <1>7, <1>8, <2>1 DEF Alone
<1>11. PICK v : v = [pc |-> "sort", p |-> c.p]
  OBVIOUS
<1>12. calls' = Alone(n, v) /\ v \in States /\ v.pc = "sort" /\ v.p = c.p
  <2>1. "sort" \in Pcs
    BY DEF Pcs
  <2> QED
    BY <1>1, <1>9, <1>10, <1>11, <2>1, AloneGoes
<1>13. 1 < n /\ c.p \in Indices(n)
  <2>1. s[1] < s[2] /\ c.p \in s[1] .. s[2]
    BY <1>4, <1>8, <1>9 DEF CallOK
  <2> QED
    BY <1>3, <2>1 DEF Indices
<1>14. thread_count = 0
  <2>1. PICK d : d = calls'
    OBVIOUS
  <2>2. DOMAIN d = {s} /\ d[s] = v /\ Counting(d, 0)
    <3>1. v.p \in Indices(n) /\ v.pc \in {"sort", "read", "wait", "returned"} /\ v \in States /\ d = Alone(n, v)
      BY <1>12, <1>13, <2>1
    <3>2. DOMAIN d = {<<0, n - 1>>} /\ d[<<0, n - 1>>] = v /\ Counting(d, 0)
      BY <1>13, <3>1, AloneCall
    <3> QED
      BY <1>3, <3>2
  <2>3. Counting(calls, thread_count) /\ thread_count \in Nat
    BY DEF IInv, Typed
  <2>4. Counting(d, thread_count)
    <3>1. calls[s].pc \notin {"create_left", "create_right"} /\ d[s].pc \notin {"create_left", "create_right"}
      BY <1>4, <1>12, <2>2
    <3> QED
      BY <1>7, <2>2, <2>3, <3>1, CountKept
  <2>5. thread_count + 1 = 0 + 1
    BY <2>2, <2>4 DEF Counting
  <2> QED
    BY <2>3, <2>5
<1>15. SplitAt(n, array, <<0, n - 1>>, c.p)
  <2>1. Split(calls, s)
    BY <1>3, <1>4, <1>13 DEF Split
  <2>2. Splits(n, calls, array)
    BY <1>2 DEF Running
  <2> QED
    BY <1>3, <1>8, <2>1, <2>2 DEF Splits
<1>16. verdict' = "none"
  BY <1>1, <1>3, <1>4, <1>5 DEF IInv
<1>17. Left(Root)[1] = 0
  BY <1>3 DEF Left
<1>18. child'.pc = "sort" /\ child'.array = array /\ child'.next = 0 /\ point' = 0 /\ pipe' = <<>>
  BY <1>5, <1>17 DEF Threads
<1>19. Typed'
  <2>1. child' \in [pc : {"none", "sort", "write", "ended"}, array : IntArrays(n), next : Nat]
    BY <1>2, <1>17 DEF Running
  <2>2. point' \in Nat
    BY <1>18
  <2> QED
    BY <1>1, <1>5, <1>6, <2>1, <2>2 DEF IInv, Typed
<1>20. Flowing(v.p)'
  <2>1. \A i \in Indices(n) : ~ (i < 0)
    BY DEF Indices
  <2>2. v.p \in Nat
    BY <1>12, <1>13 DEF Indices
  <2> QED
    BY <1>6, <1>18, <2>1, <2>2 DEF Flowing
<1>21. Holding(v.pc, v.p)'
  BY <1>12, <1>16, <1>18 DEF Holding, Ends
<1>22. Sharing(v.pc, v.p)'
  <2>1. Shuffled(n, given, array, 0, n - 1)
    BY <1>2 DEF Running
  <2>2. Around(n, array, v.p)
    BY <1>12, <1>15 DEF SplitAt
  <2>3. PICK b : b = array
    OBVIOUS
  <2>4. PICK g : g = given
    OBVIOUS
  <2>5. g = given' /\ b = array' /\ b = child'.array /\ Shuffled(n, g, b, 0, n - 1) /\ Around(n, b, v.p)
    BY <1>5, <1>18, <2>1, <2>2, <2>3, <2>4
  <2>6. v.pc = "sort" /\ child'.pc = "sort" /\ point' = 0
    BY <1>12, <1>18
  <2> QED
    BY <1>6, <2>5, <2>6 DEF Sharing
<1>23. PICK b : b = array'
  OBVIOUS
<1>24. SplitAt(n, b, <<0, n - 1>>, v.p)
  BY <1>5, <1>12, <1>15, <1>23
<1> QED
  BY <1>5, <1>6, <1>7, <1>12, <1>13, <1>14, <1>16, <1>18, <1>19, <1>20, <1>21, <1>22, <1>23, <1>24, ProcessesKept

\* ParentSorts: what is behind the pivot.
LEMMA ParentPart ==
  ASSUME NEW n \in Nat, 1 < n, NEW g \in IntArrays(n), NEW a \in IntArrays(n), NEW p \in Indices(n),
         Shuffled(n, g, a, 0, n - 1), SplitAt(n, a, <<0, n - 1>>, p),
         NEW b, b = serial_quicksort(a, <<p + 1, n - 1>>)
  PROVE  /\ b \in IntArrays(n)
         /\ SplitAt(n, b, <<0, n - 1>>, p) /\ Around(n, b, p) /\ b[p] = a[p]
         /\ Sorted(b, p, n - 1)
         /\ \A i \in Indices(n) : p <= i => Fits(n, g, b[i], i)
<1>1. p \in Int /\ 0 <= p /\ p <= n - 1 /\ p + 1 \in 0 .. n /\ n - 1 \in -1 .. n - 1
  BY DEF Indices
<1>2. SortedPart(n, a, b, p + 1, n - 1)
  BY <1>1, SerialSortsPart
<1>3. b \in IntArrays(n) /\ Shuffled(n, a, b, p + 1, n - 1) /\ Sorted(b, p + 1, n - 1)
  BY <1>2 DEF SortedPart
<1>4. PICK s : s = <<0, n - 1>>
  OBVIOUS
<1>5. s[2] = n - 1 /\ Around(n, a, p) /\ \A i \in Indices(n) : p + 1 <= i /\ i <= n - 1 => a[i] > a[p]
  BY <1>4 DEF SplitAt
<1>6. p + 1 \in Int /\ n - 1 \in Int /\ p < p + 1
  BY <1>1
<1>7. b[p] = a[p] /\ Around(n, b, p)
  BY <1>3, <1>5, <1>6, AroundShuffled
<1>8. \A i \in Indices(n) : p + 1 <= i /\ i <= n - 1 => b[i] > b[p]
  <2>1. PICK v \in Int : v = a[p]
    BY DEF IntArrays
  <2>2. \A i \in Indices(n) : p + 1 <= i /\ i <= n - 1 => a[i] > v
    BY <1>5, <2>1
  <2>3. p + 1 <= p + 1 /\ n - 1 <= n - 1
    BY <1>6
  <2>4. \A i \in Indices(n) : p + 1 <= i /\ i <= n - 1 => b[i] > v
    BY <1>3, <1>6, <2>2, <2>3, GreaterShuffled
  <2> QED
    BY <1>7, <2>1, <2>4
<1>9. \A i \in Indices(n) : i \in Int /\ i <= n - 1 /\ b[i] \in Int
  <2>1. \A i \in Indices(n) : b[i] \in Int
    BY <1>3 DEF IntArrays
  <2> QED
    BY <2>1 DEF Indices
<1>10. Sorted(b, p, n - 1)
  <2> SUFFICES ASSUME NEW i \in p .. n - 1, NEW j \in p .. n - 1, i <= j
               PROVE  b[i] <= b[j]
    BY DEF Sorted
  <2>1. i \in Indices(n) /\ j \in Indices(n) /\ i \in Int /\ j \in Int
    BY <1>1 DEF Indices
  <2>2. CASE i = p
    <3>1. j = p \/ j > p
      BY <1>1, <2>1
    <3>2. j > p => b[j] >= b[p]
      BY <1>7, <2>1 DEF Around
    <3> QED
      BY <1>9, <2>1, <2>2, <3>1, <3>2
  <2>3. CASE i # p
    <3>1. i \in p + 1 .. n - 1 /\ j \in p + 1 .. n - 1
      BY <1>1, <2>1, <2>3
    <3> QED
      BY <1>3, <3>1 DEF Sorted
  <2> QED
    BY <2>2, <2>3
<1>11. Shuffled(n, g, b, 0, n - 1)
  <2>1. 0 \in Int /\ n - 1 \in Int /\ 0 <= p + 1 /\ n - 1 <= n - 1 /\ p + 1 \in Int
    BY <1>1
  <2>2. Shuffled(n, a, b, 0, n - 1)
    BY <1>3, <2>1, ShuffledWider
  <2> QED
    BY <2>1, <2>2, ShuffledTwice
<1>12. ASSUME NEW i \in Indices(n), p <= i
       PROVE  Fits(n, g, b[i], i)
  <2>1. ASSUME NEW j \in Indices(n), j < i
        PROVE  b[j] <= b[i]
    <3>1. CASE j < p
      <4>1. b[j] <= b[p]
        BY <1>7, <3>1 DEF Around
      <4>2. b[p] <= b[i]
        <5>1. p \in p .. n - 1 /\ i \in p .. n - 1
          BY <1>1, <1>9, <1>12
        <5> QED
          BY <1>10, <1>12, <5>1 DEF Sorted
      <4> QED
        BY <1>9, <4>1, <4>2
    <3>2. CASE p <= j
      <4>1. j \in p .. n - 1 /\ i \in p .. n - 1 /\ j <= i
        BY <1>1, <1>9, <1>12, <2>1, <3>2
      <4> QED
        BY <1>10, <4>1 DEF Sorted
    <3> QED
      BY <1>1, <1>9, <3>1, <3>2
  <2>2. ASSUME NEW j \in Indices(n), j > i
        PROVE  b[j] >= b[i]
    <3>1. j \in p .. n - 1 /\ i \in p .. n - 1 /\ i <= j
      BY <1>1, <1>9, <1>12, <2>2
    <3>2. b[i] <= b[j]
      BY <1>10, <3>1 DEF Sorted
    <3> QED
      BY <1>9, <3>2
  <2> QED
    BY <1>3, <1>11, <2>1, <2>2, ShuffledInPlace
<1>13. SplitAt(n, b, s, p)
  BY <1>5, <1>7, <1>8 DEF SplitAt
<1> QED
  BY <1>3, <1>4, <1>7, <1>10, <1>12, <1>13

LEMMA ParentSortsKeeps ==
  ASSUME IInv, Processes, ParentSorts
  PROVE  IInv'
<1>1. PICK n \in Nat, c \in States :
        /\ n = N /\ given \in IntArrays(n) /\ DOMAIN given = Indices(n)
        /\ calls = Alone(n, c) /\ c.pc \in {"sort", "read", "wait", "returned"}
        /\ 1 < n /\ c.p \in Indices(n)
        /\ Root = <<0, n - 1>> /\ DOMAIN calls = {Root} /\ calls[Root] = c
        /\ Left(Root) = <<0, c.p - 1>> /\ Right(Root) = <<c.p + 1, n - 1>>
        /\ SplitAt(n, array, <<0, n - 1>>, c.p)
        /\ verdict # "none" => c.pc = "returned"
        /\ Flowing(c.p) /\ Holding(c.pc, c.p) /\ Sharing(c.pc, c.p)
  BY ProcessFacts
<1>2. /\ UNCHANGED <<given, function, thread_count, child, point, pipe, readers, failed, verdict>>
      /\ writers' = writers \ {"parent"}
      /\ c.pc = "sort" /\ Goes(Root, "read")
  BY <1>1 DEF ParentSorts, shared
<1>3. n = N'
  BY <1>1, <1>2 DEF N
<1>4. PICK v : v = [pc |-> "read", p |-> c.p]
  OBVIOUS
<1>5. calls' = Alone(n, v) /\ v \in States /\ v.pc = "read" /\ v.p = c.p
  <2>1. "read" \in Pcs
    BY DEF Pcs
  <2> QED
    BY <1>1, <1>2, <1>4, <2>1, AloneGoes
<1>6. PICK b : b = array'
  OBVIOUS
<1>7. PICK g : g = given
  OBVIOUS
<1>8. PICK p : p = c.p
  OBVIOUS
<1>9. /\ b \in IntArrays(n)
      /\ SplitAt(n, b, <<0, n - 1>>, p) /\ Around(n, b, p) /\ b[p] = array[p]
      /\ Sorted(b, p, n - 1)
      /\ \A i \in Indices(n) : p <= i => Fits(n, g, b[i], i)
  <2>1. Shuffled(n, g, array, 0, n - 1) /\ SplitAt(n, array, <<0, n - 1>>, p)
    BY <1>1, <1>2, <1>7, <1>8 DEF Sharing
  <2>2. b = serial_quicksort(array, <<p + 1, n - 1>>)
    BY <1>1, <1>6, <1>8 DEF ParentSorts
  <2>3. array \in IntArrays(n) /\ p \in Indices(n) /\ g \in IntArrays(n) /\ 1 < n
    BY <1>1, <1>7, <1>8 DEF IInv, Typed
  <2> QED
    BY <2>1, <2>2, <2>3, ParentPart
<1>10. Typed'
  BY <1>1, <1>2, <1>3, <1>6, <1>9 DEF IInv, Typed
<1>11. function' = "quicksort_with_pipes" /\ child'.pc # "none" /\ thread_count' = 0
  BY <1>2 DEF Processes
<1>12. Flowing(v.p)'
  <2>1. point = 0
    BY <1>1, <1>2 DEF Sharing
  <2>2. \A i \in Indices(n) : ~ (i < 0)
    BY DEF Indices
  <2>3. \A i \in Indices(n) : i < point => b[i] = child.array[i]
    BY <2>1, <2>2
  <2>4. Flowing(p)
    BY <1>1, <1>8
  <2> QED
    BY <1>1, <1>2, <1>3, <1>5, <1>6, <1>8, <2>3, <2>4 DEF Flowing
<1>13. Holding(v.pc, v.p)'
  <2>1. Holding(c.pc, p)
    BY <1>1, <1>8
  <2>2. "child" \in writers => "child" \in writers'
    BY <1>2
  <2>3. verdict' = "none"
    BY <1>1, <1>2
  <2> QED
    BY <1>2, <1>5, <1>8, <2>1, <2>2, <2>3 DEF Holding
<1>14. Sharing(v.pc, v.p)'
  <2>1. PICK e : e = child.array
    OBVIOUS
  <2>2. /\ Shuffled(n, g, e, 0, n - 1) /\ Around(n, e, p) /\ e[p] = array[p]
        /\ child.pc # "sort" => Sorted(e, 0, p - 1)
    BY <1>1, <1>7, <1>8, <2>1 DEF Sharing
  <2>3. g = given' /\ e = child'.array /\ child'.pc = child.pc /\ v.p = p /\ v.pc = "read" /\ e[p] = b[p]
    BY <1>2, <1>5, <1>7, <1>8, <1>9, <2>1, <2>2
  <2> QED
    BY <1>3, <1>6, <1>9, <2>2, <2>3 DEF Sharing
<1>15. SplitAt(n, b, <<0, n - 1>>, v.p) /\ v.p \in Indices(n) /\ v.pc \in {"sort", "read", "wait", "returned"}
  BY <1>1, <1>5, <1>8, <1>9
<1>16. verdict' = "none"
  BY <1>1, <1>2
<1> QED
  BY <1>1, <1>3, <1>5, <1>6, <1>10, <1>11, <1>12, <1>13, <1>14, <1>15, <1>16, ProcessesKept

LEMMA ParentReadsKeeps ==
  ASSUME IInv, Processes, ParentReads
  PROVE  IInv'
<1>1. PICK n \in Nat, c \in States :
        /\ n = N /\ given \in IntArrays(n) /\ DOMAIN given = Indices(n)
        /\ calls = Alone(n, c) /\ c.pc \in {"sort", "read", "wait", "returned"}
        /\ 1 < n /\ c.p \in Indices(n)
        /\ Root = <<0, n - 1>> /\ DOMAIN calls = {Root} /\ calls[Root] = c
        /\ Left(Root) = <<0, c.p - 1>> /\ Right(Root) = <<c.p + 1, n - 1>>
        /\ SplitAt(n, array, <<0, n - 1>>, c.p)
        /\ verdict # "none" => c.pc = "returned"
        /\ Flowing(c.p) /\ Holding(c.pc, c.p) /\ Sharing(c.pc, c.p)
  BY ProcessFacts
<1>2. /\ UNCHANGED <<given, function, calls, thread_count, child, readers, writers, failed, verdict>>
      /\ c.pc = "read" /\ pipe # <<>>
      /\ array' = [array EXCEPT ![point] = Head(pipe)]
      /\ pipe' = Tail(pipe) /\ point' = point + 1
  BY <1>1 DEF ParentReads, shared
<1>3. n = N'
  BY <1>1, <1>2 DEF N
<1>4. PICK b : b = array'
  OBVIOUS
<1>5. PICK g : g = given
  OBVIOUS
<1>6. PICK p : p = c.p
  OBVIOUS
<1>7. PICK e : e = child.array
  OBVIOUS
<1>8. PICK i \in Nat : i = point
  BY DEF IInv, Typed
<1>9. p \in Nat /\ p <= n - 1 /\ p \in Indices(n)
  BY <1>1, <1>6 DEF Indices
<1>10. i <= p - 1
  <2>1. PICK l : l = Left(Root)
    OBVIOUS
  <2>2. l = <<0, p - 1>> /\ i <= l[2]
    BY <1>1, <1>6, <1>8, <2>1 DEF ParentReads
  <2> QED
    BY <2>2
<1>11. i \in Indices(n) /\ i < p
  BY <1>8, <1>9, <1>10 DEF Indices
<1>12. PICK q \in Seq(Int) : q = pipe /\ q # <<>> /\ Len(q) <= PipeCapacity
  BY <1>2 DEF IInv, Typed
<1>13. Len(q) \in Nat /\ Len(q) >= 1 /\ Head(q) = q[1] /\ 1 \in 1 .. Len(q)
  BY <1>12
<1>14. PICK k \in Nat : k = child.next
  BY DEF IInv, Typed
<1>15. /\ \A j \in Indices(n) : j < i => array[j] = e[j]
       /\ i <= k /\ k <= p /\ Len(q) = k - i
       /\ child.pc = "sort" => k = 0
       /\ \A j \in 1 .. Len(q) : q[j] = e[i + j - 1]
  BY <1>1, <1>6, <1>7, <1>8, <1>12, <1>14 DEF Flowing
<1>16. Head(q) = e[i]
  <2>1. q[1] = e[i + 1 - 1]
    BY <1>13, <1>15
  <2>2. i + 1 - 1 = i
    OBVIOUS
  <2> QED
    BY <1>13, <2>1, <2>2
<1>17. array \in IntArrays(n) /\ e \in IntArrays(n)
  BY <1>1, <1>7 DEF IInv, Typed
<1>18. /\ b \in IntArrays(n) /\ b[i] = e[i]
       /\ \A j \in Indices(n) : j # i => b[j] = array[j]
  <2>1. b = [array EXCEPT ![i] = e[i]]
    BY <1>2, <1>4, <1>8, <1>12, <1>16
  <2> QED
    BY <1>11, <1>17, <2>1 DEF IntArrays
<1>19. b[p] = array[p]
  BY <1>9, <1>11, <1>18
<1>20. /\ Shuffled(n, g, e, 0, n - 1) /\ Around(n, e, p) /\ e[p] = array[p]
       /\ child.pc # "sort" => Sorted(e, 0, p - 1)
       /\ Sorted(array, p, n - 1)
       /\ \A j \in Indices(n) : p <= j => Fits(n, g, array[j], j)
  BY <1>1, <1>2, <1>5, <1>6, <1>7 DEF Sharing
<1>21. \A j \in Indices(n) : p <= j => b[j] = array[j]
  BY <1>9, <1>11, <1>18 DEF Indices
<1>22. SplitAt(n, b, <<0, n - 1>>, p)
  <2>1. PICK s : s = <<0, n - 1>>
    OBVIOUS
  <2>2. SplitAt(n, array, s, p) /\ s[2] = n - 1
    BY <1>1, <1>6, <2>1
  <2>3. Around(n, b, p)
    <3>1. ASSUME NEW j \in Indices(n), j < p
          PROVE  b[j] <= b[p]
      <4>1. CASE j = i
        BY <1>18, <1>19, <1>20, <3>1, <4>1 DEF Around
      <4>2. CASE j # i
        BY <1>18, <1>19, <2>2, <3>1, <4>2 DEF SplitAt, Around
      <4> QED
        BY <4>1, <4>2
    <3>2. ASSUME NEW j \in Indices(n), j > p
          PROVE  b[j] >= b[p]
      <4>1. j # i
        BY <1>9, <1>11, <3>2
      <4> QED
        BY <1>18, <1>19, <2>2, <3>2, <4>1 DEF SplitAt, Around
    <3> QED
      BY <3>1, <3>2 DEF Around
  <2>4. \A j \in Indices(n) : p + 1 <= j /\ j <= s[2] => b[j] > b[p]
    <3>1. \A j \in Indices(n) : p + 1 <= j => j # i
      BY <1>9, <1>11
    <3> QED
      BY <1>18, <1>19, <2>2, <3>1 DEF SplitAt
  <2> QED
    BY <2>1, <2>3, <2>4 DEF SplitAt
<1>23. PICK r \in Seq(Int) : r = Tail(q) /\ Len(r) = Len(q) - 1 /\ \A j \in 1 .. Len(r) : r[j] = q[j + 1]
  <2>1. PICK r : r = Tail(q)
    OBVIOUS
  <2>2. r \in Seq(Int) /\ Len(r) = Len(q) - 1 /\ \A j \in 1 .. Len(r) : r[j] = q[j + 1]
    BY <1>12, <2>1, HeadTailProperties
  <2> QED
    BY <2>1, <2>2
<1>24. Typed'
  <2>1. Len(r) <= PipeCapacity
    BY <1>12, <1>13, <1>23, QuicksortAssumption
  <2>2. pipe' = r /\ point' \in Nat
    BY <1>2, <1>8, <1>12, <1>23
  <2> QED
    BY <1>1, <1>2, <1>3, <1>4, <1>18, <2>1, <2>2 DEF IInv, Typed
<1>25. Flowing(p)'
  <2>1. \A j \in Indices(n) : j < i + 1 => b[j] = e[j]
    <3> SUFFICES ASSUME NEW j \in Indices(n), j < i + 1
                 PROVE  b[j] = e[j]
      OBVIOUS
    <3>1. j = i \/ j < i
      BY DEF Indices
    <3>2. j < i => j # i
      BY DEF Indices
    <3> QED
      BY <1>15, <1>18, <3>1, <3>2
  <2>2. i + 1 <= k /\ k <= p /\ Len(r) = k - (i + 1)
    BY <1>13, <1>15, <1>23
  <2>3. \A j \in 1 .. Len(r) : r[j] = e[i + 1 + j - 1]
    <3> SUFFICES ASSUME NEW j \in 1 .. Len(r)
                 PROVE  r[j] = e[i + 1 + j - 1]
      OBVIOUS
    <3>1. j + 1 \in 1 .. Len(q) /\ i + (j + 1) - 1 = i + 1 + j - 1
      BY <1>13, <1>23
    <3>2. q[j + 1] = e[i + (j + 1) - 1]
      BY <1>15, <3>1
    <3> QED
      BY <1>23, <3>1, <3>2
  <2>4. /\ pipe' = r /\ point' = i + 1 /\ child'.next = k /\ child'.array = e /\ child'.pc = child.pc
        /\ array' = b /\ N' = n
    BY <1>2, <1>3, <1>4, <1>7, <1>8, <1>12, <1>14, <1>23
  <2> QED
    BY <1>15, <2>1, <2>2, <2>3, <2>4 DEF Flowing
<1>26. Holding(c.pc, p)'
  BY <1>1, <1>2, <1>6 DEF Holding
<1>27. Sharing(c.pc, p)'
  <2>1. g = given' /\ e = child'.array /\ child'.pc = child.pc /\ b = array' /\ n = N' /\ e[p] = b[p] /\ c.pc = "read"
    BY <1>2, <1>3, <1>4, <1>5, <1>7, <1>19, <1>20
  <2>2. Sorted(b, p, n - 1)
    <3>1. \A j \in p .. n - 1 : j \in Indices(n) /\ p <= j
      BY <1>9 DEF Indices
    <3>2. \A j \in p .. n - 1 : b[j] = array[j]
      BY <1>21, <3>1
    <3> QED
      BY <1>20, <3>2 DEF Sorted
  <2>3. \A j \in Indices(n) : p <= j => Fits(n, g, b[j], j)
    BY <1>20, <1>21
  <2> QED
    BY <1>20, <2>1, <2>2, <2>3 DEF Sharing
<1>28. function' = "quicksort_with_pipes" /\ child'.pc # "none" /\ thread_count' = 0 /\ calls' = Alone(n, c)
  BY <1>1, <1>2 DEF Processes
<1>29. verdict' # "none" => c.pc = "returned"
  BY <1>1, <1>2
<1> QED
  BY <1>1, <1>3, <1>4, <1>6, <1>22, <1>24, <1>25, <1>26, <1>27, <1>28, <1>29, ProcessesKept

\* The parent gives up or has read everything.
LEMMA ParentStopsKeeps ==
  ASSUME IInv, Processes, ParentStopsReading
  PROVE  IInv'
<1>1. PICK n \in Nat, c \in States :
        /\ n = N /\ given \in IntArrays(n) /\ DOMAIN given = Indices(n)
        /\ calls = Alone(n, c) /\ c.pc \in {"sort", "read", "wait", "returned"}
        /\ 1 < n /\ c.p \in Indices(n)
        /\ Root = <<0, n - 1>> /\ DOMAIN calls = {Root} /\ calls[Root] = c
        /\ Left(Root) = <<0, c.p - 1>> /\ Right(Root) = <<c.p + 1, n - 1>>
        /\ SplitAt(n, array, <<0, n - 1>>, c.p)
        /\ verdict # "none" => c.pc = "returned"
        /\ Flowing(c.p) /\ Holding(c.pc, c.p) /\ Sharing(c.pc, c.p)
  BY ProcessFacts
<1>2. /\ UNCHANGED <<given, function, array, thread_count, child, point, pipe, writers, verdict>>
      /\ readers' = readers \ {"parent"}
      /\ c.pc = "read" /\ Goes(Root, "wait")
      /\ failed' \subseteq Faults
  BY <1>1 DEF ParentStopsReading, shared, IInv, Typed
<1>3. n = N'
  BY <1>1, <1>2 DEF N
<1>4. PICK v : v = [pc |-> "wait", p |-> c.p]
  OBVIOUS
<1>5. calls' = Alone(n, v) /\ v \in States /\ v.pc = "wait" /\ v.p = c.p
  <2>1. "wait" \in Pcs
    BY DEF Pcs
  <2> QED
    BY <1>1, <1>2, <1>4, <2>1, AloneGoes
<1>6. PICK b : b = array'
  OBVIOUS
<1>7. PICK p \in Nat : p = c.p
  BY <1>1 DEF Indices
<1>8. verdict' = "none"
  BY <1>1, <1>2
<1>9. Typed'
  <2>1. Typed /\ N' = N
    BY <1>1, <1>3 DEF IInv
  <2> QED
    BY <1>2, <2>1 DEF Typed
<1>10. function' = "quicksort_with_pipes" /\ child'.pc # "none" /\ thread_count' = 0
  BY <1>2 DEF Processes
<1>11. Flowing(v.p)'
  <2>1. Flowing(p) /\ N' = N /\ v.p = p
    BY <1>1, <1>3, <1>5, <1>7
  <2> QED
    BY <1>2, <2>1 DEF Flowing
<1>12. ASSUME failed' = {}
       PROVE  point = p
  <2>1. /\ point > p - 1 \/ (pipe = <<>> /\ writers = {})
        /\ failed = {}
    <3>1. PICK l : l = Left(Root)
      OBVIOUS
    <3>2. l = <<0, p - 1>> /\ failed' # failed \cup {"read"}
      BY <1>1, <1>7, <1>12, <3>1
    <3>3. point > l[2] \/ (pipe = <<>> /\ writers = {})
      BY <3>1, <3>2 DEF ParentStopsReading
    <3>4. failed = {}
      BY <1>12 DEF ParentStopsReading
    <3>5. l[2] = p - 1
      BY <3>2
    <3> QED
      BY <3>3, <3>4, <3>5
  <2>2. PICK i \in Nat, k \in Nat : i = point /\ k = child.next
    BY DEF IInv, Typed
  <2>3. i <= k /\ k <= p /\ Len(pipe) = k - i
    BY <1>1, <1>7, <2>2 DEF Flowing
  <2>4. CASE point > p - 1
    BY <2>2, <2>3, <2>4
  <2>5. CASE pipe = <<>> /\ writers = {}
    <3>1. child.pc = "ended"
      <4>1. child.pc \notin {"sort", "write"}
        BY <1>1, <2>5 DEF Holding
      <4>2. child.pc \in {"none", "sort", "write", "ended"} /\ child.pc # "none"
        BY DEF IInv, Typed, Processes
      <4> QED
        BY <4>1, <4>2
    <3>2. k = p
      BY <1>1, <1>2, <1>7, <2>1, <2>2, <3>1 DEF Holding
    <3>3. Len(pipe) = 0
      BY <2>5
    <3> QED
      BY <2>2, <2>3, <3>2, <3>3
  <2> QED
    BY <2>1, <2>4, <2>5
<1>13. Holding(v.pc, v.p)'
  <2>1. child.pc \in {"sort", "write"} => "child" \in writers
    BY <1>1 DEF Holding
  <2> QED
    BY <1>2, <1>5, <1>7, <1>8, <1>12, <2>1 DEF Holding
<1>14. Sharing(v.pc, v.p)'
  <2>1. Sharing(c.pc, p) /\ v.p = p /\ v.pc # "sort" /\ c.pc # "sort" /\ N' = N
    BY <1>1, <1>2, <1>3, <1>5, <1>7
  <2> QED
    BY <1>2, <2>1 DEF Sharing
<1>15. SplitAt(n, b, <<0, n - 1>>, v.p) /\ v.p \in Indices(n) /\ v.pc \in {"sort", "read", "wait", "returned"}
  BY <1>1, <1>2, <1>5, <1>6
<1> QED
  BY <1>1, <1>3, <1>5, <1>6, <1>8, <1>9, <1>10, <1>11, <1>13, <1>14, <1>15, ProcessesKept

LEMMA ParentWaitsKeeps ==
  ASSUME IInv, Processes, ParentWaits
  PROVE  IInv'
<1>1. PICK n \in Nat, c \in States :
        /\ n = N /\ given \in IntArrays(n) /\ DOMAIN given = Indices(n)
        /\ calls = Alone(n, c) /\ c.pc \in {"sort", "read", "wait", "returned"}
        /\ 1 < n /\ c.p \in Indices(n)
        /\ Root = <<0, n - 1>> /\ DOMAIN calls = {Root} /\ calls[Root] = c
        /\ Left(Root) = <<0, c.p - 1>> /\ Right(Root) = <<c.p + 1, n - 1>>
        /\ SplitAt(n, array, <<0, n - 1>>, c.p)
        /\ verdict # "none" => c.pc = "returned"
        /\ Flowing(c.p) /\ Holding(c.pc, c.p) /\ Sharing(c.pc, c.p)
  BY ProcessFacts
<1>2. /\ UNCHANGED <<given, function, array, thread_count, child, point, pipe, readers, writers, failed, verdict>>
      /\ c.pc = "wait" /\ Goes(Root, "returned")
  BY <1>1 DEF ParentWaits, shared, transfer
<1>3. n = N'
  BY <1>1, <1>2 DEF N
<1>4. PICK v : v = [pc |-> "returned", p |-> c.p]
  OBVIOUS
<1>5. calls' = Alone(n, v) /\ v \in States /\ v.pc = "returned" /\ v.p = c.p
  <2>1. "returned" \in Pcs
    BY DEF Pcs
  <2> QED
    BY <1>1, <1>2, <1>4, <2>1, AloneGoes
<1>6. PICK b : b = array'
  OBVIOUS
<1>7. PICK p : p = c.p
  OBVIOUS
<1>8. verdict' = "none"
  BY <1>1, <1>2
<1>9. Typed'
  <2>1. Typed /\ N' = N
    BY <1>1, <1>3 DEF IInv
  <2> QED
    BY <1>2, <2>1 DEF Typed
<1>10. function' = "quicksort_with_pipes" /\ child'.pc # "none" /\ thread_count' = 0
  BY <1>2 DEF Processes
<1>11. Flowing(v.p)'
  <2>1. Flowing(p) /\ N' = N /\ v.p = p
    BY <1>1, <1>3, <1>5, <1>7
  <2> QED
    BY <1>2, <2>1 DEF Flowing
<1>12. Holding(v.pc, v.p)'
  <2>1. Holding(c.pc, p) /\ v.p = p
    BY <1>1, <1>5, <1>7
  <2> QED
    BY <1>2, <1>5, <1>8, <2>1 DEF Holding
<1>13. Sharing(v.pc, v.p)'
  <2>1. Sharing(c.pc, p) /\ v.p = p /\ v.pc # "sort" /\ c.pc # "sort" /\ N' = N
    BY <1>1, <1>2, <1>3, <1>5, <1>7
  <2> QED
    BY <1>2, <2>1 DEF Sharing
<1>14. SplitAt(n, b, <<0, n - 1>>, v.p) /\ v.p \in Indices(n) /\ v.pc \in {"sort", "read", "wait", "returned"}
  BY <1>1, <1>2, <1>5, <1>6
<1> QED
  BY <1>1, <1>3, <1>5, <1>6, <1>8, <1>9, <1>10, <1>11, <1>12, <1>13, <1>14, ProcessesKept

LEMMA ChildSortsKeeps ==
  ASSUME IInv, Processes, ChildSorts
  PROVE  IInv'
<1>1. PICK n \in Nat, c \in States :
        /\ n = N /\ given \in IntArrays(n) /\ DOMAIN given = Indices(n)
        /\ calls = Alone(n, c) /\ c.pc \in {"sort", "read", "wait", "returned"}
        /\ 1 < n /\ c.p \in Indices(n)
        /\ Root = <<0, n - 1>> /\ DOMAIN calls = {Root} /\ calls[Root] = c
        /\ Left(Root) = <<0, c.p - 1>> /\ Right(Root) = <<c.p + 1, n - 1>>
        /\ SplitAt(n, array, <<0, n - 1>>, c.p)
        /\ verdict # "none" => c.pc = "returned"
        /\ Flowing(c.p) /\ Holding(c.pc, c.p) /\ Sharing(c.pc, c.p)
  BY ProcessFacts
<1>2. /\ UNCHANGED <<given, function, array, calls, thread_count, point, pipe, writers, failed, verdict>>
      /\ readers' = readers \ {"child"}
      /\ child.pc = "sort"
      /\ child' = [child EXCEPT !.pc = "write", !.array = serial_quicksort(@, Left(Root))]
  BY DEF ChildSorts, shared
<1>3. n = N'
  BY <1>1, <1>2 DEF N
<1>4. PICK e : e = child.array
  OBVIOUS
<1>5. PICK g : g = given
  OBVIOUS
<1>6. PICK p : p = c.p
  OBVIOUS
<1>7. PICK b : b = array
  OBVIOUS
<1>8. p \in Int /\ 0 <= p /\ p <= n - 1 /\ p - 1 \in -1 .. n - 1 /\ 0 \in 0 .. n /\ p \in Indices(n)
  BY <1>1, <1>6 DEF Indices
<1>9. child \in [pc : {"none", "sort", "write", "ended"}, array : IntArrays(n), next : Nat]
  BY <1>1 DEF IInv, Typed
<1>10. PICK f : f = serial_quicksort(e, <<0, p - 1>>)
  OBVIOUS
<1>11. child'.pc = "write" /\ child'.array = f /\ child'.next = child.next
  BY <1>1, <1>2, <1>4, <1>6, <1>9, <1>10
<1>12. Shuffled(n, g, e, 0, n - 1) /\ Around(n, e, p) /\ e[p] = b[p]
  BY <1>1, <1>4, <1>5, <1>6, <1>7 DEF Sharing
<1>13. SortedPart(n, e, f, 0, p - 1)
  BY <1>4, <1>8, <1>9, <1>10, SerialSortsPart
<1>14. f \in IntArrays(n) /\ Shuffled(n, e, f, 0, p - 1) /\ Sorted(f, 0, p - 1)
  BY <1>13 DEF SortedPart
<1>15. f[p] = b[p] /\ Around(n, f, p)
  <2>1. e \in IntArrays(n) /\ p - 1 \in Int /\ 0 \in Int /\ p > p - 1
    BY <1>4, <1>8, <1>9
  <2> QED
    BY <1>8, <1>12, <1>14, <2>1, AroundShuffled
<1>16. Shuffled(n, g, f, 0, n - 1)
  <2>1. 0 \in Int /\ p - 1 \in Int /\ n - 1 \in Int /\ 0 <= 0 /\ p - 1 <= n - 1
    BY <1>8
  <2>2. Shuffled(n, e, f, 0, n - 1)
    BY <1>14, <2>1, ShuffledWider
  <2> QED
    BY <1>12, <2>1, <2>2, ShuffledTwice
<1>17. Typed'
  <2>1. Typed /\ N' = N
    BY <1>1, <1>3 DEF IInv
  <2>2. child' \in [pc : {"none", "sort", "write", "ended"}, array : IntArrays(n), next : Nat]
    BY <1>1, <1>2, <1>4, <1>6, <1>9, <1>10, <1>14
  <2>3. readers' \subseteq Ends
    BY <1>2, <2>1 DEF Typed
  <2> QED
    BY <1>2, <1>3, <2>1, <2>2, <2>3 DEF Typed
<1>18. Flowing(p)'
  <2>1. Flowing(p)
    BY <1>1, <1>6
  <2>2. child.next = 0 /\ point \in Nat /\ point <= child.next /\ Len(pipe) = child.next - point
    BY <1>2, <2>1 DEF Flowing, IInv, Typed
  <2>3. point = 0 /\ Len(pipe) = 0
    BY <2>2
  <2>4. /\ \A i \in Indices(n) : ~ (i < 0)
        /\ 1 .. 0 = {}
    BY DEF Indices
  <2>5. 0 <= p
    BY <1>8
  <2> QED
    BY <1>2, <1>3, <1>11, <2>2, <2>3, <2>4, <2>5 DEF Flowing
<1>19. Holding(c.pc, p)'
  <2>1. Holding(c.pc, p)
    BY <1>1, <1>6
  <2>2. "parent" \in readers => "parent" \in readers'
    BY <1>2
  <2> QED
    BY <1>2, <1>11, <2>1, <2>2 DEF Holding
<1>20. Sharing(c.pc, p)'
  <2>1. g = given' /\ f = child'.array /\ child'.pc = "write" /\ b = array' /\ n = N'
    BY <1>2, <1>3, <1>5, <1>7, <1>11
  <2>2. /\ c.pc = "sort" => Shuffled(n, g, b, 0, n - 1) /\ point' = 0
        /\ c.pc # "sort" => /\ Sorted(b, p, n - 1)
                            /\ \A i \in Indices(n) : p <= i => Fits(n, g, b[i], i)
    BY <1>1, <1>2, <1>5, <1>6, <1>7 DEF Sharing
  <2> QED
    BY <1>14, <1>15, <1>16, <2>1, <2>2 DEF Sharing
<1>21. function' = "quicksort_with_pipes" /\ child'.pc # "none" /\ thread_count' = 0 /\ calls' = Alone(n, c)
  BY <1>1, <1>2, <1>11 DEF Processes
<1>22. verdict' # "none" => c.pc = "returned"
  BY <1>1, <1>2
<1>23. b = array' /\ SplitAt(n, b, <<0, n - 1>>, p)
  BY <1>1, <1>2, <1>6, <1>7
<1> QED
  BY <1>1, <1>3, <1>6, <1>17, <1>18, <1>19, <1>20, <1>21, <1>22, <1>23, ProcessesKept

\* Steps that change no array.
LEMMA SharingKept ==
  ASSUME NEW q, NEW p, Sharing(q, p), N' = N, UNCHANGED <<given, array, point>>,
         child'.array = child.array, child.pc # "sort"
  PROVE  Sharing(q, p)'
BY DEF Sharing

LEMMA ChildWritesKeeps ==
  ASSUME IInv, Processes, ChildWrites
  PROVE  IInv'
<1>1. PICK n \in Nat, c \in States :
        /\ n = N /\ given \in IntArrays(n) /\ DOMAIN given = Indices(n)
        /\ calls = Alone(n, c) /\ c.pc \in {"sort", "read", "wait", "returned"}
        /\ 1 < n /\ c.p \in Indices(n)
        /\ Root = <<0, n - 1>> /\ DOMAIN calls = {Root} /\ calls[Root] = c
        /\ Left(Root) = <<0, c.p - 1>> /\ Right(Root) = <<c.p + 1, n - 1>>
        /\ SplitAt(n, array, <<0, n - 1>>, c.p)
        /\ verdict # "none" => c.pc = "returned"
        /\ Flowing(c.p) /\ Holding(c.pc, c.p) /\ Sharing(c.pc, c.p)
  BY ProcessFacts
<1>2. /\ UNCHANGED <<given, function, array, calls, thread_count, point, readers, writers, failed, verdict>>
      /\ child.pc = "write"
      /\ Len(pipe) < PipeCapacity
      /\ pipe' = Append(pipe, child.array[child.next])
      /\ child' = [child EXCEPT !.next = @ + 1]
  BY DEF ChildWrites, shared
<1>3. n = N' /\ N' = N
  BY <1>1, <1>2 DEF N
<1>4. PICK e : e = child.array
  OBVIOUS
<1>5. PICK p \in Nat : p = c.p /\ p <= n - 1
  BY <1>1 DEF Indices
<1>6. PICK i \in Nat, k \in Nat : i = point /\ k = child.next
  BY DEF IInv, Typed
<1>7. child \in [pc : {"none", "sort", "write", "ended"}, array : IntArrays(n), next : Nat]
  BY <1>1 DEF IInv, Typed
<1>8. child'.pc = "write" /\ child'.array = e /\ child'.next = k + 1
  BY <1>2, <1>4, <1>6, <1>7
<1>9. k <= p - 1
  <2>1. PICK l : l = Left(Root)
    OBVIOUS
  <2>2. l = <<0, p - 1>> /\ k <= l[2]
    BY <1>1, <1>5, <1>6, <2>1 DEF ChildWrites
  <2> QED
    BY <2>2
<1>10. k \in Indices(n) /\ e[k] \in Int
  <2>1. k \in Indices(n)
    BY <1>5, <1>9 DEF Indices
  <2> QED
    BY <1>4, <1>7, <2>1 DEF IntArrays
<1>11. PICK q \in Seq(Int) : q = pipe
  BY DEF IInv, Typed
<1>12. PICK r \in Seq(Int) : /\ r = Append(q, e[k]) /\ Len(r) = Len(q) + 1 /\ r[Len(q) + 1] = e[k]
                             /\ \A j \in 1 .. Len(q) : r[j] = q[j]
  <2>1. PICK r : r = Append(q, e[k])
    OBVIOUS
  <2>2. /\ r \in Seq(Int) /\ Len(r) = Len(q) + 1 /\ r[Len(q) + 1] = e[k]
        /\ \A j \in 1 .. Len(q) : r[j] = q[j]
    BY <1>10, <2>1, AppendProperties
  <2> QED
    BY <2>1, <2>2
<1>13. pipe' = r /\ Len(q) \in Nat
  BY <1>2, <1>4, <1>6, <1>11, <1>12
<1>14. /\ \A j \in Indices(n) : j < i => array[j] = e[j]
       /\ i <= k /\ k <= p /\ Len(q) = k - i
       /\ \A j \in 1 .. Len(q) : q[j] = e[i + j - 1]
  BY <1>1, <1>4, <1>5, <1>6, <1>11 DEF Flowing
<1>15. Typed'
  <2>1. Typed
    BY DEF IInv
  <2>2. child' \in [pc : {"none", "sort", "write", "ended"}, array : IntArrays(n), next : Nat]
    <3>1. child' = [child EXCEPT !.next = k + 1] /\ k + 1 \in Nat
      BY <1>2, <1>6
    <3> QED
      BY <1>7, <3>1
  <2>3. Len(r) <= PipeCapacity
    BY <1>2, <1>11, <1>12, <1>13, QuicksortAssumption
  <2> QED
    BY <1>2, <1>3, <1>12, <1>13, <2>1, <2>2, <2>3 DEF Typed
<1>16. Flowing(p)'
  <2>1. i <= k + 1 /\ k + 1 <= p /\ Len(r) = k + 1 - i
    BY <1>9, <1>12, <1>13, <1>14
  <2>2. \A j \in 1 .. Len(r) : r[j] = e[i + j - 1]
    <3> SUFFICES ASSUME NEW j \in 1 .. Len(r)
                 PROVE  r[j] = e[i + j - 1]
      OBVIOUS
    <3>1. j \in 1 .. Len(q) \/ j = Len(q) + 1
      BY <1>12, <1>13
    <3>2. j = Len(q) + 1 => i + j - 1 = k
      BY <1>13, <1>14
    <3> QED
      BY <1>12, <1>14, <3>1, <3>2
  <2>3. point' = i /\ UNCHANGED array
    BY <1>2, <1>6
  <2> QED
    BY <1>3, <1>8, <1>13, <1>14, <2>1, <2>2, <2>3 DEF Flowing
<1>17. Holding(c.pc, p)'
  <2>1. Holding(c.pc, p)
    BY <1>1, <1>5
  <2> QED
    BY <1>2, <1>8, <2>1 DEF Holding
<1>18. Sharing(c.pc, p)'
  <2>1. Sharing(c.pc, p) /\ child'.array = child.array /\ child.pc # "sort"
    BY <1>1, <1>2, <1>4, <1>5, <1>8
  <2> QED
    BY <1>2, <1>3, <2>1, SharingKept
<1>19. function' = "quicksort_with_pipes" /\ child'.pc # "none" /\ thread_count' = 0 /\ calls' = Alone(n, c)
  BY <1>1, <1>2, <1>8 DEF Processes
<1>20. verdict' # "none" => c.pc = "returned"
  BY <1>1, <1>2
<1>21. PICK b : b = array'
  OBVIOUS
<1>22. SplitAt(n, b, <<0, n - 1>>, p)
  BY <1>1, <1>2, <1>5, <1>21
<1> QED
  BY <1>1, <1>3, <1>5, <1>15, <1>16, <1>17, <1>18, <1>19, <1>20, <1>21, <1>22, ProcessesKept

LEMMA ChildEndsKeeps ==
  ASSUME IInv, Processes, ChildEnds
  PROVE  IInv'
<1>1. PICK n \in Nat, c \in States :
        /\ n = N /\ given \in IntArrays(n) /\ DOMAIN given = Indices(n)
        /\ calls = Alone(n, c) /\ c.pc \in {"sort", "read", "wait", "returned"}
        /\ 1 < n /\ c.p \in Indices(n)
        /\ Root = <<0, n - 1>> /\ DOMAIN calls = {Root} /\ calls[Root] = c
        /\ Left(Root) = <<0, c.p - 1>> /\ Right(Root) = <<c.p + 1, n - 1>>
        /\ SplitAt(n, array, <<0, n - 1>>, c.p)
        /\ verdict # "none" => c.pc = "returned"
        /\ Flowing(c.p) /\ Holding(c.pc, c.p) /\ Sharing(c.pc, c.p)
  BY ProcessFacts
<1>2. /\ UNCHANGED <<given, function, array, calls, thread_count, point, pipe, verdict>>
      /\ child.pc = "write"
      /\ child' = [child EXCEPT !.pc = "ended"]
      /\ writers' = writers \ {"child"} /\ readers' = readers \ {"child"}
  BY DEF ChildEnds, shared
<1>3. n = N' /\ N' = N
  BY <1>1, <1>2 DEF N
<1>4. PICK p \in Nat : p = c.p
  BY <1>1 DEF Indices
<1>5. child \in [pc : {"none", "sort", "write", "ended"}, array : IntArrays(n), next : Nat]
  BY <1>1 DEF IInv, Typed
<1>6. child'.pc = "ended" /\ child'.array = child.array /\ child'.next = child.next
  BY <1>2, <1>5
<1>7. Typed'
  <2>1. Typed
    BY DEF IInv
  <2>2. child' \in [pc : {"none", "sort", "write", "ended"}, array : IntArrays(n), next : Nat]
    BY <1>2, <1>5
  <2>3. failed' \subseteq Faults
    BY <2>1 DEF ChildEnds, Typed
  <2>4. writers' \subseteq Ends /\ readers' \subseteq Ends
    BY <1>2, <2>1 DEF Typed
  <2> QED
    BY <1>2, <1>3, <2>1, <2>2, <2>3, <2>4 DEF Typed
<1>8. Flowing(p)'
  <2>1. Flowing(p)
    BY <1>1, <1>4
  <2> QED
    BY <1>2, <1>3, <1>6, <2>1 DEF Flowing
<1>9. ASSUME failed' = {}
      PROVE  /\ failed = {}
             /\ c.pc \in {"sort", "read"} => child.next = p
  <2>1. failed = {}
    BY <1>9 DEF ChildEnds
  <2>2. child.next > Left(Root)[2] \/ readers = {}
    <3>1. failed' # failed \cup {"write"}
      BY <1>9
    <3> QED
      BY <3>1 DEF ChildEnds
  <2>3. PICK k \in Nat : k = child.next
    BY <1>5
  <2>4. k <= p
    BY <1>1, <1>4, <2>3 DEF Flowing
  <2>5. CASE child.next > Left(Root)[2]
    <3>1. PICK l : l = Left(Root)
      OBVIOUS
    <3>2. l = <<0, p - 1>> /\ k > l[2]
      BY <1>1, <1>4, <2>3, <2>5, <3>1
    <3>3. k > p - 1
      BY <3>2
    <3> QED
      BY <2>1, <2>3, <2>4, <3>3
  <2>6. CASE readers = {}
    BY <1>1, <2>1, <2>6 DEF Holding
  <2> QED
    BY <2>2, <2>5, <2>6
<1>10. Holding(c.pc, p)'
  <2>1. Holding(c.pc, p)
    BY <1>1, <1>4
  <2>2. "parent" \in readers => "parent" \in readers'
    BY <1>2
  <2> QED
    BY <1>2, <1>6, <1>9, <2>1, <2>2 DEF Holding
<1>11. Sharing(c.pc, p)'
  <2>1. Sharing(c.pc, p) /\ child'.array = child.array /\ child.pc # "sort"
    BY <1>1, <1>2, <1>4, <1>6
  <2> QED
    BY <1>2, <1>3, <2>1, SharingKept
<1>12. function' = "quicksort_with_pipes" /\ child'.pc # "none" /\ thread_count' = 0 /\ calls' = Alone(n, c)
  BY <1>1, <1>2, <1>6 DEF Processes
<1>13. verdict' # "none" => c.pc = "returned"
  BY <1>1, <1>2
<1>14. PICK b : b = array'
  OBVIOUS
<1>15. SplitAt(n, b, <<0, n - 1>>, p)
  BY <1>1, <1>2, <1>4, <1>14
<1> QED
  BY <1>1, <1>3, <1>4, <1>7, <1>8, <1>10, <1>11, <1>12, <1>13, <1>14, <1>15, ProcessesKept

\* When everything came through the pipe, all of the array is sorted.
LEMMA WholeSorted ==
  ASSUME NEW n \in Nat, 1 < n, NEW a \in IntArrays(n), NEW e \in IntArrays(n), NEW p \in Indices(n),
         Around(n, a, p), Sorted(a, p, n - 1), Sorted(e, 0, p - 1),
         \A i \in Indices(n) : i < p => a[i] = e[i]
  PROVE  Sorted(a, 0, n - 1)
<1>1. p \in Int /\ 0 <= p /\ p <= n - 1 /\ 0 \in Indices(n) /\ n - 1 \in Indices(n) /\ p \in 0 .. n - 1
  BY DEF Indices
<1>2. Sorted(a, 0, p - 1)
  <2>1. \A i \in 0 .. p - 1 : i \in Indices(n) /\ i < p
    BY <1>1 DEF Indices
  <2>2. \A i \in 0 .. p - 1 : a[i] = e[i]
    BY <2>1
  <2> QED
    BY <2>2 DEF Sorted
<1>3. Sorted(a, p + 1, n - 1)
  <2>1. \A i \in p + 1 .. n - 1 : i \in p .. n - 1
    BY <1>1
  <2> QED
    BY <2>1 DEF Sorted
<1>4. PICK x \in Indices(n) : x = 0
  BY <1>1
<1>5. PICK y \in Indices(n) : y = n - 1
  BY <1>1
<1>6. Sorted(a, x, p - 1) /\ Sorted(a, p + 1, y) /\ p \in x .. y
  BY <1>1, <1>2, <1>3, <1>4, <1>5
<1>7. Sorted(a, x, y)
  BY <1>6, SortedHalves
<1> QED
  BY <1>4, <1>5, <1>7

LEMMA SortedIsValid ==
  ASSUME NEW n \in Nat, NEW a \in IntArrays(n), Sorted(a, 0, n - 1)
  PROVE  checkFn(a)
<1>1. DOMAIN a = 0 .. n - 1
  BY DEF IntArrays, Indices
<1>2. \A i \in 0 .. n - 1 : i <= i + 1
  OBVIOUS
<1> QED
  BY <1>1, <1>2 DEF checkFn, Sorted

\* What main finds when a child was forked.
LEMMA ReturnedSorted ==
  ASSUME IInv, Processes, calls[Root].pc = "returned", failed = {}
  PROVE  point = calls[Root].p /\ Sorted(array, 0, N - 1)
<1>1. PICK n \in Nat, c \in States :
        /\ n = N /\ given \in IntArrays(n) /\ DOMAIN given = Indices(n)
        /\ calls = Alone(n, c) /\ c.pc \in {"sort", "read", "wait", "returned"}
        /\ 1 < n /\ c.p \in Indices(n)
        /\ Root = <<0, n - 1>> /\ DOMAIN calls = {Root} /\ calls[Root] = c
        /\ Left(Root) = <<0, c.p - 1>> /\ Right(Root) = <<c.p + 1, n - 1>>
        /\ SplitAt(n, array, <<0, n - 1>>, c.p)
        /\ verdict # "none" => c.pc = "returned"
        /\ Flowing(c.p) /\ Holding(c.pc, c.p) /\ Sharing(c.pc, c.p)
  BY ProcessFacts
<1>2. PICK p \in Indices(n) : p = c.p
  BY <1>1
<1>3. PICK e : e = child.array
  OBVIOUS
<1>4. array \in IntArrays(n) /\ e \in IntArrays(n) /\ point \in Nat /\ child.next \in Nat
  BY <1>1, <1>3 DEF IInv, Typed
<1>5. point = p /\ c.pc = "returned"
  BY <1>1, <1>2 DEF Holding
<1>6. child.pc # "sort" \/ p = 0
  <2>1. p \in Nat
    BY DEF Indices
  <2>2. point <= child.next /\ (child.pc = "sort" => child.next = 0)
    BY <1>1 DEF Flowing
  <2> QED
    BY <1>4, <1>5, <2>1, <2>2
<1>7. Sorted(e, 0, p - 1)
  <2>1. CASE child.pc # "sort"
    BY <1>1, <1>2, <1>3, <2>1 DEF Sharing
  <2>2. CASE p = 0
    <3>1. 0 .. p - 1 = {}
      BY <2>2
    <3> QED
      BY <3>1 DEF Sorted
  <2> QED
    BY <1>6, <2>1, <2>2
<1>8. Sorted(array, p, n - 1)
  BY <1>1, <1>2, <1>5 DEF Sharing
<1>9. Around(n, array, p)
  BY <1>1, <1>2 DEF SplitAt
<1>10. \A i \in Indices(n) : i < p => array[i] = e[i]
  BY <1>1, <1>3, <1>5 DEF Flowing
<1>11. Sorted(array, 0, n - 1)
  BY <1>1, <1>4, <1>7, <1>8, <1>9, <1>10, WholeSorted
<1> QED
  BY <1>1, <1>2, <1>5, <1>11

LEMMA ProcessesValidate ==
  ASSUME IInv, Processes, Validates
  PROVE  IInv'
<1>1. PICK n \in Nat, c \in States :
        /\ n = N /\ given \in IntArrays(n) /\ DOMAIN given = Indices(n)
        /\ calls = Alone(n, c) /\ c.pc \in {"sort", "read", "wait", "returned"}
        /\ 1 < n /\ c.p \in Indices(n)
        /\ Root = <<0, n - 1>> /\ DOMAIN calls = {Root} /\ calls[Root] = c
        /\ Left(Root) = <<0, c.p - 1>> /\ Right(Root) = <<c.p + 1, n - 1>>
        /\ SplitAt(n, array, <<0, n - 1>>, c.p)
        /\ verdict # "none" => c.pc = "returned"
        /\ Flowing(c.p) /\ Holding(c.pc, c.p) /\ Sharing(c.pc, c.p)
  BY ProcessFacts
<1>2. /\ UNCHANGED <<given, function, array, calls, thread_count, child, point, pipe, readers, writers, failed>>
      /\ c.pc = "returned"
      /\ verdict' = IF checkFn(array) THEN "successful" ELSE "failed"
  BY <1>1 DEF Validates, shared, transfer
<1>3. n = N' /\ N' = N
  BY <1>1, <1>2 DEF N
<1>4. PICK p : p = c.p
  OBVIOUS
<1>5. Typed'
  <2>1. Typed
    BY DEF IInv
  <2> QED
    BY <1>2, <1>3, <2>1 DEF Typed
<1>6. Flowing(p)'
  <2>1. Flowing(p)
    BY <1>1, <1>4
  <2> QED
    BY <1>2, <1>3, <2>1 DEF Flowing
<1>7. failed = {} => verdict' = "successful"
  <2>1. SUFFICES ASSUME failed = {}
                 PROVE  checkFn(array)
    BY <1>2
  <2>2. array \in IntArrays(n)
    BY <1>1 DEF IInv, Typed
  <2>3. Sorted(array, 0, n - 1)
    BY <1>1, <1>2, <2>1, ReturnedSorted
  <2> QED
    BY <2>2, <2>3, SortedIsValid
<1>8. Holding(c.pc, p)'
  <2>1. Holding(c.pc, p)
    BY <1>1, <1>4
  <2> QED
    BY <1>2, <1>7, <2>1 DEF Holding
<1>9. Sharing(c.pc, p)'
  <2>1. Sharing(c.pc, p)
    BY <1>1, <1>4
  <2> QED
    BY <1>2, <1>3, <2>1 DEF Sharing
<1>10. function' = "quicksort_with_pipes" /\ child'.pc # "none" /\ thread_count' = 0 /\ calls' = Alone(n, c)
  BY <1>1, <1>2 DEF Processes
<1>11. PICK b : b = array'
  OBVIOUS
<1>12. SplitAt(n, b, <<0, n - 1>>, p)
  BY <1>1, <1>2, <1>4, <1>11
<1> QED
  BY <1>1, <1>2, <1>3, <1>4, <1>5, <1>6, <1>8, <1>9, <1>10, <1>11, <1>12, ProcessesKept

-------------------------------------------------------------------------------
(* The invariant holds *)

LEMMA InitInv ==
  ASSUME Init
  PROVE  IInv
<1>1. PICK n \in Nat : n = N /\ given \in IntArrays(n) /\ DOMAIN given = Indices(n) /\ Root = <<0, n - 1>>
  BY GivenArray DEF Init
<1>2. /\ array = given /\ function \in Functions /\ thread_count = 0
      /\ child = [pc |-> "none", array |-> given, next |-> 0]
      /\ point = 0 /\ pipe = <<>> /\ readers = {} /\ writers = {} /\ failed = {}
      /\ verdict = "none" /\ given \in Arrays
  BY DEF Init
<1>3. PICK s : s = <<0, n - 1>>
  OBVIOUS
<1>4. s[1] = 0 /\ s[2] = n - 1
  BY <1>3
<1>5. PICK c : c = calls
  OBVIOUS
<1>6. PICK v : v = [pc |-> "begin", p |-> 0]
  OBVIOUS
<1>7. v \in States /\ v.pc = "begin"
  BY <1>6 DEF States, Pcs
<1>8. DOMAIN c = {s} /\ c[s] = v /\ c = [t \in {s} |-> v]
  BY <1>1, <1>3, <1>5, <1>6 DEF Init
<1>9. Typed
  <2>1. pipe \in Seq(Int) /\ Len(pipe) <= PipeCapacity
    BY <1>2, QuicksortAssumption
  <2>2. child \in [pc : {"none", "sort", "write", "ended"}, array : IntArrays(n), next : Nat]
    BY <1>1, <1>2
  <2> QED
    BY <1>1, <1>2, <2>1, <2>2 DEF Typed
<1>10. CallsOK(n, c)
  <2>1. IsFiniteSet(DOMAIN c)
    BY <1>8, FS_Singleton
  <2>2. s \in Spans(n)
    BY <1>3 DEF Spans
  <2>3. CallOK(s, v)
    BY <1>4, <1>7 DEF CallOK
  <2>4. c \in [DOMAIN c -> States]
    BY <1>7, <1>8
  <2> QED
    BY <1>3, <1>8, <2>1, <2>2, <2>3, <2>4 DEF CallsOK
<1>11. Counting(c, 0)
  <2>1. Cardinality(DOMAIN c) = 1
    BY <1>8, FS_Singleton
  <2>2. At(c, "create_left") = {} /\ At(c, "create_right") = {}
    BY <1>7, <1>8 DEF At
  <2>3. Cardinality({}) = 0
    BY FS_EmptySet
  <2> QED
    BY <2>1, <2>2, <2>3 DEF Counting
<1>12. ~ Split(c, s)
  BY <1>7, <1>8 DEF Split
<1>13. Splits(n, c, array)
  <2>1. Placed(n, array, s)
    BY <1>4 DEF Placed
  <2> QED
    BY <1>8, <1>12, <2>1 DEF Splits
<1>14. TreeOK(n, c)
  <2>1. HasHalves(c, s)
    BY <1>7, <1>8 DEF HasHalves
  <2>2. \A t, u \in DOMAIN c : Relate(c, t, u)
    BY <1>8 DEF Relate
  <2> QED
    BY <1>3, <1>8, <2>1, <2>2 DEF TreeOK
<1>15. Running(n, given, c, array)
  <2>1. Finished(c, array)
    BY <1>7, <1>8 DEF Finished
  <2>2. Shuffled(n, given, array, 0, n - 1)
    BY <1>1, <1>2, ShuffledSame
  <2>3. array \in IntArrays(n)
    BY <1>1, <1>2
  <2> QED
    BY <1>10, <1>13, <1>14, <2>1, <2>2, <2>3 DEF Running
<1>16. Threads
  <2>1. \A t \in DOMAIN c : t = s /\ c[t].pc = "begin"
    BY <1>7, <1>8
  <2>2. \A t \in DOMAIN calls : t = <<0, n - 1>> /\ calls[t].pc = "begin"
    BY <1>3, <1>5, <2>1
  <2>3. Running(N, given, calls, array)
    BY <1>1, <1>5, <1>15
  <2>4. child.pc = "none" /\ pipe = <<>> /\ point = 0 /\ verdict = "none"
    BY <1>2
  <2> QED
    BY <1>1, <2>2, <2>3, <2>4 DEF Threads
<1>17. CallsOK(N, calls) /\ Counting(calls, thread_count) /\ Splits(N, calls, array)
  BY <1>1, <1>2, <1>5, <1>10, <1>11, <1>13
<1> QED
  BY <1>2, <1>9, <1>16, <1>17 DEF IInv

\* A step while threads, or one call without a child, are at work.
LEMMA ThreadsStep ==
  ASSUME IInv, Threads, Step
  PROVE  IInv'
<1>1. calls[Root].pc \notin {"sort", "read", "wait"} /\ child.pc = "none"
  <2>1. PICK n \in Nat : n = N /\ Root = <<0, n - 1>>
    BY GivenArray DEF IInv, Typed
  <2>2. Root \in DOMAIN calls
    BY <2>1 DEF IInv, CallsOK
  <2> QED
    BY <2>2 DEF Threads
<1>2. ASSUME NEW s \in DOMAIN calls, Thread(s)
      PROVE  IInv'
  BY <1>2, ThreadsBegin, ThreadsSort, ThreadsCount, ThreadsCreate, ThreadsJoin DEF Thread
<1>3. CASE Forks
  <2>1. CASE /\ Goes(Root, "sort")
             /\ child' = [pc |-> "sort", array |-> array, next |-> Left(Root)[1]]
             /\ point' = Left(Root)[1]
             /\ readers' = Ends
             /\ writers' = Ends
             /\ UNCHANGED failed
    BY <1>3, <2>1, ForkWorks
  <2>2. CASE \E f \in Faults \cap {"pipe", "fork"} :
               /\ Goes(Root, "exited")
               /\ failed' = failed \cup {f}
               /\ UNCHANGED <<child, point, readers, writers>>
    <3>1. failed' \subseteq Faults
      BY <2>2 DEF IInv, Typed
    <3> QED
      BY <1>3, <2>2, <3>1, ForkFails
  <2> QED
    BY <1>3, <2>1, <2>2 DEF Forks
<1>4. ~ ParentSorts /\ ~ ParentReads /\ ~ ParentStopsReading /\ ~ ParentWaits
  BY <1>1 DEF ParentSorts, ParentReads, ParentStopsReading, ParentWaits
<1>5. ~ Child
  BY <1>1 DEF Child, ChildSorts, ChildWrites, ChildEnds
<1>6. CASE Validates
  BY <1>6, ThreadsValidate
<1> QED
  BY <1>2, <1>3, <1>4, <1>5, <1>6 DEF Step, Parent

\* A step after the child was forked.
LEMMA ProcessesStep ==
  ASSUME IInv, Processes, Step
  PROVE  IInv'
<1>1. \A s \in DOMAIN calls : calls[s].pc \in {"sort", "read", "wait", "returned"}
  BY ProcessFacts
<1>2. calls[Root].pc # "fork"
  BY ProcessFacts
<1>3. ~ Forks
  BY <1>2 DEF Forks
<1>4. ASSUME NEW s \in DOMAIN calls
      PROVE  ~ Thread(s)
  BY <1>1, <1>4 DEF Thread, Begins, SortsBoth, Counts, Creates, Joins
<1>5. CASE ParentSorts
  BY <1>5, ParentSortsKeeps
<1>6. CASE ParentReads
  BY <1>6, ParentReadsKeeps
<1>7. CASE ParentStopsReading
  BY <1>7, ParentStopsKeeps
<1>8. CASE ParentWaits
  BY <1>8, ParentWaitsKeeps
<1>9. CASE ChildSorts
  BY <1>9, ChildSortsKeeps
<1>10. CASE ChildWrites
  BY <1>10, ChildWritesKeeps
<1>11. CASE ChildEnds
  BY <1>11, ChildEndsKeeps
<1>12. CASE Validates
  BY <1>12, ProcessesValidate
<1> QED
  BY <1>3, <1>4, <1>5, <1>6, <1>7, <1>8, <1>9, <1>10, <1>11, <1>12 DEF Step, Parent, Child

LEMMA StutterKeeps ==
  ASSUME IInv, UNCHANGED vars
  PROVE  IInv'
<1>1. UNCHANGED <<given, array, function, calls, thread_count, child, point, pipe, readers, writers, failed, verdict>>
  BY DEF vars, shared, transfer
<1>2. N' = N
  BY <1>1 DEF N
<1>3. Typed'
  BY <1>1, <1>2 DEF IInv, Typed
<1>4. Threads => Threads'
  BY <1>1, <1>2 DEF Threads
<1>5. Processes => Processes'
  <2>1. \A q, p : /\ Flowing(p) => Flowing(p)'
                  /\ Holding(q, p) => Holding(q, p)'
                  /\ Sharing(q, p) => Sharing(q, p)'
    BY <1>1, <1>2 DEF Flowing, Holding, Sharing
  <2> QED
    BY <1>1, <1>2, <2>1 DEF Processes
<1> QED
  BY <1>1, <1>2, <1>3, <1>4, <1>5 DEF IInv

LEMMA NextInv ==
  ASSUME IInv, [Next]_vars
  PROVE  IInv'
<1>1. CASE Step
  <2>1. Threads \/ Processes
    BY DEF IInv
  <2> QED
    BY <1>1, <2>1, ThreadsStep, ProcessesStep
<1>2. CASE Terminated
  BY <1>2, StutterKeeps DEF Terminated
<1>3. CASE UNCHANGED vars
  BY <1>3, StutterKeeps
<1> QED
  BY <1>1, <1>2, <1>3 DEF Next

\* Whatever the array, the thresholds, the size of the pipe and the system calls
\* that fail: the calls of quicksort are a tree whose parts are disjoint or lie
\* in one another, what a call has put around its pivot stays so, what a call
\* that has returned was given is sorted, and every element that the parent has
\* read, or finds in the pipe, is the child's.
THEOREM AlwaysSound == Spec => []IInv
<1>1. Init => IInv
  BY InitInv
<1>2. IInv /\ [Next]_vars => IInv'
  BY NextInv
<1> QED
  BY <1>1, <1>2, PTL DEF Spec

-------------------------------------------------------------------------------
(* What follows from it *)

LEMMA InvTyped ==
  ASSUME IInv
  PROVE  TypeOK
<1>1. PICK n \in Nat : n = N /\ DOMAIN given = Indices(n) /\ Root = <<0, n - 1>>
  BY GivenArray DEF IInv, Typed
<1>2. Typed
  BY DEF IInv
<1>3. IntArrays(N) = [DOMAIN given -> Int]
  BY <1>1 DEF IntArrays
<1>4. ASSUME NEW s \in DOMAIN calls
      PROVE  /\ s[1] \in 0 .. Root[2] + 1
             /\ s[2] \in s[1] - 1 .. Root[2]
             /\ calls[s].pc \in {"begin", "serial", "count", "create_left", "create_right", "join_left",
                  "join_right", "fork", "sort", "read", "wait", "returned", "exited"}
             /\ calls[s].p \in Nat
  <2>1. CallsOK(n, calls)
    BY <1>1 DEF IInv
  <2>2. s[1] \in 0 .. n /\ s[2] \in -1 .. n - 1
    BY <2>1, SpanPair DEF CallsOK
  <2>3. calls[s] \in States /\ s[1] - 1 <= s[2]
    BY <2>1, CallBounds DEF CallsOK, CallOK
  <2>4. Root[2] = n - 1
    BY <1>1
  <2>5. s[1] \in 0 .. Root[2] + 1 /\ s[2] \in s[1] - 1 .. Root[2]
    BY <2>2, <2>3, <2>4
  <2> QED
    BY <2>3, <2>5 DEF States, Pcs
<1> QED
  BY <1>2, <1>3, <1>4 DEF TypeOK, Typed

\* A place in the sorted order is one with its indices.
LEMMA FitsInPlace ==
  ASSUME NEW n \in Nat, DOMAIN given = Indices(n), NEW a, NEW i, Fits(n, given, a[i], i)
  PROVE  InPlace(a, i)
BY DEF Fits, InPlace

\* In a shuffled array that is sorted up to p, all that is there is in place.
LEMMA SortedInPlace ==
  ASSUME NEW n \in Nat, NEW g \in IntArrays(n), NEW a \in IntArrays(n),
         Shuffled(n, g, a, 0, n - 1), NEW p \in Indices(n), Around(n, a, p), Sorted(a, 0, p - 1),
         NEW i \in Indices(n), i <= p
  PROVE  Fits(n, g, a[i], i)
<1>1. p \in Int /\ i \in Int /\ 0 <= i /\ p <= n - 1
  BY DEF Indices
<1>2. \A j \in Indices(n) : j \in Int /\ 0 <= j /\ j <= n - 1 /\ a[j] \in Int
  <2>1. \A j \in Indices(n) : a[j] \in Int
    BY DEF IntArrays
  <2> QED
    BY <2>1 DEF Indices
<1>3. CASE i = p
  BY <1>3, ShuffledInPlace DEF Around
<1>4. CASE i # p
  <2>1. i \in 0 .. p - 1
    BY <1>1, <1>4
  <2>2. ASSUME NEW j \in Indices(n), j < i
        PROVE  a[j] <= a[i]
    <3>1. j \in 0 .. p - 1
      BY <1>1, <1>2, <2>2
    <3>2. j <= i
      BY <1>1, <1>2, <2>2
    <3> QED
      BY <2>1, <3>1, <3>2 DEF Sorted
  <2>3. ASSUME NEW j \in Indices(n), j > i
        PROVE  a[j] >= a[i]
    <3>1. CASE j <= p - 1
      <4>1. j \in 0 .. p - 1 /\ i <= j
        BY <1>1, <1>2, <2>3, <3>1
      <4>2. a[i] <= a[j]
        BY <2>1, <4>1 DEF Sorted
      <4> QED
        BY <1>2, <4>2
    <3>2. CASE j >= p
      <4>1. a[i] <= a[p]
        BY <1>1, <1>4 DEF Around
      <4>2. j = p \/ j > p
        BY <1>1, <1>2, <3>2
      <4>3. j = p \/ a[j] >= a[p]
        BY <4>2 DEF Around
      <4> QED
        BY <1>2, <4>1, <4>3
    <3> QED
      BY <1>1, <1>2, <3>1, <3>2
  <2> QED
    BY <2>2, <2>3, ShuffledInPlace
<1> QED
  BY <1>3, <1>4

LEMMA InvSplit ==
  ASSUME IInv
  PROVE  SplitsHold
<1>1. PICK n \in Nat : n = N /\ given \in IntArrays(n) /\ DOMAIN given = Indices(n) /\ Root = <<0, n - 1>>
  BY GivenArray DEF IInv, Typed
<1>2. CallsOK(n, calls) /\ Splits(n, calls, array) /\ array \in IntArrays(n)
  BY <1>1 DEF IInv, Typed
<1>3. ASSUME NEW s \in DOMAIN calls, s[1] < s[2], calls[s].pc # "begin"
      PROVE  /\ calls[s].p \in s[1] .. s[2]
             /\ InPlace(array, calls[s].p)
             /\ \A i \in s[1] .. calls[s].p - 1 : array[i] <= array[calls[s].p]
             /\ \A i \in calls[s].p + 1 .. s[2] : array[i] > array[calls[s].p]
  <2>1. CallOK(s, calls[s]) /\ s[1] \in 0 .. n /\ s[2] \in -1 .. n - 1
    BY <1>2, SpanPair DEF CallsOK
  <2>2. PICK p \in s[1] .. s[2] : p = calls[s].p
    BY <1>3, <2>1 DEF CallOK
  <2>3. SplitAt(n, array, s, p)
    BY <1>2, <1>3, <2>2 DEF Splits, Split
  <2>4. Around(n, array, p) /\ \A i \in Indices(n) : p + 1 <= i /\ i <= s[2] => array[i] > array[p]
    BY <2>3 DEF SplitAt
  <2>5. p \in Indices(n) /\ p \in Int
    BY <2>1 DEF Indices
  <2>6. \A i \in s[1] .. p - 1 : array[i] <= array[p]
    <3>1. \A i \in s[1] .. p - 1 : i \in Indices(n) /\ i < p
      BY <2>1, <2>5 DEF Indices
    <3> QED
      BY <2>4, <3>1 DEF Around
  <2>7. \A i \in p + 1 .. s[2] : array[i] > array[p]
    <3>1. \A i \in p + 1 .. s[2] : i \in Indices(n) /\ p + 1 <= i /\ i <= s[2]
      BY <2>1, <2>5 DEF Indices
    <3> QED
      BY <2>4, <3>1
  <2>8. Fits(n, given, array[p], p)
    <3>1. CASE Shuffled(n, given, array, 0, n - 1)
      BY <1>1, <1>2, <2>4, <2>5, <3>1, ShuffledInPlace DEF Around
    <3>2. CASE ~ Shuffled(n, given, array, 0, n - 1)
      <4>1. Processes
        BY <1>1, <3>2 DEF IInv, Threads, Running
      <4>2. PICK c \in States :
              /\ DOMAIN calls = {Root} /\ calls[Root] = c
              /\ Sharing(c.pc, c.p)
        BY <4>1, ProcessFacts
      <4>3. c.p = p
        BY <2>2, <4>2
      <4>4. c.pc # "sort"
        BY <1>1, <3>2, <4>2 DEF Sharing
      <4>5. \A i \in Indices(n) : p <= i => Fits(n, given, array[i], i)
        BY <1>1, <4>2, <4>3, <4>4 DEF Sharing
      <4>6. p <= p
        BY <2>5
      <4> QED
        BY <2>5, <4>5, <4>6
    <3> QED
      BY <3>1, <3>2
  <2>9. InPlace(array, p)
    BY <1>1, <2>8, FitsInPlace
  <2> QED
    BY <2>2, <2>6, <2>7, <2>9
<1>4. ASSUME child.pc \in {"write", "ended"}, NEW i \in 0 .. calls[Root].p
      PROVE  InPlace(child.array, i)
  <2>1. Processes
    BY <1>4 DEF IInv, Threads
  <2>2. PICK c \in States :
          /\ calls[Root] = c /\ c.p \in Indices(n) /\ Sharing(c.pc, c.p)
    BY <1>1, <2>1, ProcessFacts
  <2>3. PICK p \in Indices(n) : p = c.p
    BY <2>2
  <2>4. PICK e \in IntArrays(n) : e = child.array
    BY <1>1 DEF IInv, Typed
  <2>5. Shuffled(n, given, e, 0, n - 1) /\ Around(n, e, p) /\ Sorted(e, 0, p - 1)
    BY <1>1, <1>4, <2>2, <2>3, <2>4 DEF Sharing
  <2>6. i \in Indices(n) /\ i <= p
    BY <2>2, <2>3 DEF Indices
  <2>7. Fits(n, given, e[i], i)
    BY <1>1, <2>5, <2>6, SortedInPlace
  <2> QED
    BY <1>1, <2>4, <2>7, FitsInPlace
<1> QED
  BY <1>3, <1>4 DEF SplitsHold, Divided

LEMMA InvApart ==
  ASSUME IInv
  PROVE  ThreadsApart
<1>1. PICK n \in Nat : n = N /\ Root = <<0, n - 1>>
  BY GivenArray DEF IInv, Typed
<1>2. CallsOK(n, calls)
  BY <1>1 DEF IInv
<1>3. TreeOK(n, calls) \/ DOMAIN calls = {Root}
  BY <1>1, ProcessFacts DEF IInv, Threads, Running
<1>4. ASSUME NEW s \in Working, NEW t \in Working, s # t,
             {calls[s].pc, calls[t].pc} \subseteq {"begin", "serial"}
      PROVE  (s[1] .. s[2]) \cap (t[1] .. t[2]) = {}
  <2>1. s \in DOMAIN calls /\ t \in DOMAIN calls
    BY DEF Working
  <2>2. Relate(calls, s, t)
    BY <1>3, <1>4, <2>1 DEF TreeOK
  <2>3. ~ Below(calls, s, t) /\ ~ Below(calls, t, s)
    BY <1>4 DEF Below
  <2>4. Apart(s, t) \/ Apart(t, s)
    BY <1>4, <2>2, <2>3 DEF Relate
  <2>5. s[1] \in Int /\ s[2] \in Int /\ t[1] \in Int /\ t[2] \in Int
    BY <1>2, <2>1, CallBounds
  <2> QED
    BY <2>4, <2>5 DEF Apart
<1>5. ASSUME NEW s \in Working \ {Root}
      PROVE  \E t \in Working :
               \/ calls[t].pc \in {"create_right", "join_left"} /\ s = Left(t)
               \/ calls[t].pc \in {"join_left", "join_right"} /\ s = Right(t)
  <2>1. s \in DOMAIN calls /\ s # Root /\ calls[s].pc # "returned"
    BY DEF Working
  <2>2. PICK t \in DOMAIN calls : HalfOf(calls, s, t)
    BY <1>1, <1>3, <2>1 DEF TreeOK
  <2>3. \/ calls[t].pc \in {"create_right", "join_left"} /\ s = Left(t)
        \/ calls[t].pc \in {"join_left", "join_right"} /\ s = Right(t)
    BY <2>1, <2>2 DEF HalfOf, LeftOf, RightOf, Left, Right
  <2>4. t \in Working
    BY <2>3 DEF Working
  <2> QED
    BY <2>3, <2>4
<1>6. thread_count + 1 =
        Cardinality(DOMAIN calls) + 2 * Cardinality({s \in DOMAIN calls : calls[s].pc = "create_left"})
          + Cardinality({s \in DOMAIN calls : calls[s].pc = "create_right"})
  BY DEF IInv, Counting, At
<1> QED
  BY <1>4, <1>5, <1>6 DEF ThreadsApart

LEMMA InvSorted ==
  ASSUME IInv
  PROVE  SortedAtEnd
<1> SUFFICES ASSUME verdict # "none"
             PROVE  /\ \A i \in DOMAIN given :
                         failed = {} \/ i < point \/ i >= calls[Root].p => InPlace(array, i)
                    /\ failed = {} => verdict = "successful"
  BY DEF SortedAtEnd
<1>1. PICK n \in Nat : n = N /\ given \in IntArrays(n) /\ DOMAIN given = Indices(n) /\ Root = <<0, n - 1>>
  BY GivenArray DEF IInv, Typed
<1>2. CallsOK(n, calls) /\ array \in IntArrays(n) /\ calls[Root].pc = "returned"
  BY <1>1 DEF IInv, Typed
<1>3. CASE Threads
  <2>1. PICK t \in DOMAIN calls : t = Root
    BY <1>1, <1>2 DEF CallsOK
  <2>2. Shuffled(n, given, array, 0, n - 1) /\ Finished(calls, array)
    BY <1>1, <1>3 DEF Threads, Running
  <2>3. Sorted(array, t[1], t[2]) /\ t[1] = 0 /\ t[2] = n - 1
    BY <1>1, <1>2, <2>1, <2>2 DEF Finished
  <2>4. Sorted(array, 0, n - 1)
    BY <2>3
  <2>5. ASSUME NEW i \in Indices(n)
        PROVE  InPlace(array, i)
    <3>1. \A j \in Indices(n) : j \in 0 .. n - 1 /\ j \in Int /\ array[j] \in Int
      <4>1. \A j \in Indices(n) : array[j] \in Int
        BY <1>2 DEF IntArrays
      <4> QED
        BY <4>1 DEF Indices
    <3>2. \A j \in Indices(n) : j < i => array[j] <= array[i]
      BY <2>4, <3>1 DEF Sorted
    <3>3. \A j \in Indices(n) : j > i => array[i] <= array[j]
      BY <2>4, <3>1 DEF Sorted
    <3>4. \A j \in Indices(n) : j > i => array[j] >= array[i]
      BY <3>1, <3>3
    <3>5. Fits(n, given, array[i], i)
      BY <1>1, <1>2, <2>2, <3>2, <3>4, ShuffledInPlace
    <3> QED
      BY <1>1, <3>5, FitsInPlace
  <2> QED
    BY <1>1, <1>3, <2>5 DEF Threads
<1>4. CASE Processes
  <2>1. PICK c \in States :
          /\ calls[Root] = c /\ c.p \in Indices(n)
          /\ Flowing(c.p) /\ Holding(c.pc, c.p) /\ Sharing(c.pc, c.p)
    BY <1>1, <1>4, ProcessFacts
  <2>2. PICK p \in Indices(n) : p = c.p
    BY <2>1
  <2>3. PICK e \in IntArrays(n) : e = child.array
    BY <1>1 DEF IInv, Typed
  <2>4. p \in Nat /\ point \in Nat /\ child.next \in Nat
    <3>1. child.next \in Nat /\ point \in Nat
      BY DEF IInv, Typed
    <3> QED
      BY <3>1 DEF Indices
  <2>5. /\ point <= child.next /\ child.next <= p
        /\ child.pc = "sort" => child.next = 0
        /\ \A i \in Indices(n) : i < point => array[i] = e[i]
    BY <1>1, <2>1, <2>2, <2>3 DEF Flowing
  <2>6. /\ Shuffled(n, given, e, 0, n - 1) /\ Around(n, e, p)
        /\ child.pc # "sort" => Sorted(e, 0, p - 1)
        /\ \A i \in Indices(n) : p <= i => Fits(n, given, array[i], i)
    BY <1>1, <1>2, <2>1, <2>2, <2>3 DEF Sharing
  <2>7. ASSUME NEW i \in Indices(n), failed = {} \/ i < point \/ i >= p
        PROVE  InPlace(array, i)
    <3>1. i \in Nat
      BY DEF Indices
    <3>2. i < point \/ i >= p
      <4>1. failed = {} => point = p
        BY <1>2, <2>1, <2>2 DEF Holding
      <4> QED
        BY <2>4, <2>7, <3>1, <4>1
    <3>3. CASE i >= p
      <4>1. p <= i
        BY <2>4, <3>1, <3>3
      <4> QED
        BY <1>1, <2>6, <4>1, FitsInPlace
    <3>4. CASE i < point
      <4>1. child.pc # "sort"
        BY <2>4, <2>5, <3>1, <3>4
      <4>2. i <= p
        BY <2>4, <2>5, <3>1, <3>4
      <4>3. Fits(n, given, e[i], i)
        BY <1>1, <2>6, <4>1, <4>2, SortedInPlace
      <4>4. Fits(n, given, array[i], i)
        BY <2>5, <3>4, <4>3
      <4> QED
        BY <1>1, <4>4, FitsInPlace
    <3> QED
      BY <3>2, <3>3, <3>4
  <2>8. failed = {} => verdict = "successful"
    BY <2>1 DEF Holding
  <2> QED
    BY <1>1, <2>1, <2>2, <2>7, <2>8
<1> QED
  BY <1>3, <1>4 DEF IInv

-------------------------------------------------------------------------------
(* The properties *)

\* Every variable keeps its type, and the pipe never holds more than it has room
\* for.
THEOREM AlwaysTyped == Spec => []TypeOK
<1>1. IInv => TypeOK
  BY InvTyped
<1> QED
  BY <1>1, AlwaysSound, PTL

\* What a call has put around its pivot stays so while other calls, the child
\* and what comes through the pipe go on changing the array.
THEOREM AlwaysSplit == Spec => []SplitsHold
<1>1. IInv => SplitsHold
  BY InvSplit
<1> QED
  BY <1>1, AlwaysSound, PTL

\* Threads at work have no index in common and lie in the frame of a call that
\* waits for them, and the count under the mutex is of all of them.
THEOREM AlwaysApart == Spec => []ThreadsApart
<1>1. IInv => ThreadsApart
  BY InvApart
<1> QED
  BY <1>1, AlwaysSound, PTL

\* When main validates, the array is sorted and holds what it was given, or, if
\* a system call has failed, what had come through and what is behind the pivot.
THEOREM AlwaysSorted == Spec => []SortedAtEnd
<1>1. IInv => SortedAtEnd
  BY InvSorted
<1> QED
  BY <1>1, AlwaysSound, PTL

================================================================================
