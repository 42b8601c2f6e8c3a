---------------------------- MODULE HashtableProofs ---------------------------
(***************************************************************************)
(* What holds of Hashtable for every set of keys, every hash function,     *)
(* every capacity and every choice of failing allocations.                 *)
(***************************************************************************)
EXTENDS Hashtable, FiniteSetTheorems, TLAPS

USE DEF Slots

-------------------------------------------------------------------------------
(* Arithmetic of the probe sequence *)

\* A hash taken modulo a positive capacity is a slot.
LEMMA HomeIsSlot ==
  ASSUME NEW c \in Nat, c > 0, NEW k \in Keys
  PROVE  Home(k, c) \in Slots(c)
BY HashAssumption DEF Home

\* Walking from h around the array, a slot is met after a number of steps that
\* no other slot shares.
LEMMA DistanceInjective ==
  ASSUME NEW c \in Nat, NEW h \in Slots(c), NEW s \in Slots(c), NEW t \in Slots(c)
  PROVE  /\ Distance(h, s, c) \in Nat
         /\ Distance(h, s, c) = Distance(h, t, c) => s = t
BY DEF Distance

-------------------------------------------------------------------------------
(* Counting live slots *)

LEMMA LiveFinite ==
  ASSUME NEW array, NEW c \in Nat
  PROVE  /\ IsFiniteSet(Live(array, c))
         /\ Cardinality(Live(array, c)) \in Nat
<1>1. IsFiniteSet(Slots(c))
  BY FS_Interval
<1>2. Live(array, c) \subseteq Slots(c)
  BY DEF Live
<1> QED
  BY <1>1, <1>2, FS_Subset, FS_CardinalityType

\* Storing an entry in a slot that holds none makes one more live slot.
LEMMA StoreAddsOne ==
  ASSUME NEW c \in Nat, NEW array \in [Slots(c) -> Slot], NEW s \in Slots(c),
         NEW e \in Slot, array[s].key \notin Keys, e.key \in Keys
  PROVE  /\ Live([array EXCEPT ![s] = e], c) = Live(array, c) \cup {s}
         /\ Cardinality(Live([array EXCEPT ![s] = e], c)) = Cardinality(Live(array, c)) + 1
<1>1. Live([array EXCEPT ![s] = e], c) = Live(array, c) \cup {s}
  BY DEF Live
<1>2. s \notin Live(array, c)
  BY DEF Live
<1> QED
  BY <1>1, <1>2, LiveFinite, FS_AddElement

\* Taking the entry out of a live slot makes one fewer.
LEMMA EraseRemovesOne ==
  ASSUME NEW c \in Nat, NEW array \in [Slots(c) -> Slot], NEW s \in Live(array, c),
         NEW e \in Slot, e.key \notin Keys
  PROVE  /\ Live([array EXCEPT ![s] = e], c) = Live(array, c) \ {s}
         /\ Cardinality(Live([array EXCEPT ![s] = e], c)) = Cardinality(Live(array, c)) - 1
         /\ Cardinality(Live(array, c)) > 0
<1>1. Live([array EXCEPT ![s] = e], c) = Live(array, c) \ {s}
  BY DEF Live
<1>2. Cardinality(Live(array, c)) # 0
  BY LiveFinite, FS_EmptySet
<1>3. Cardinality(Live(array, c)) \in Nat
  BY LiveFinite
<1>4. Cardinality(Live(array, c) \ {s}) = Cardinality(Live(array, c)) - 1
  BY LiveFinite, FS_RemoveElement
<1>5. Cardinality(Live(array, c)) > 0
  BY <1>2, <1>3
<1> QED
  BY <1>1, <1>4, <1>5

-------------------------------------------------------------------------------
(* Types and counts *)

\* The counting invariant.  num_entries is never below the number of entries,
\* which is what keeps its decrements above zero; a failed strdup is the only
\* way for it to be above.  While entries are copied, the new array has as many
\* as the slots scanned so far: that is why the counts agree again when it
\* replaces the old one.  A table not yet created counts nothing, and scan is
\* zero outside resize_table.
Counted ==
  /\ Cardinality(Live(entries, cap)) <= numEntries
  /\ "strdup" \notin Faults => Cardinality(Live(entries, cap)) = numEntries
  /\ pc = "rehash" => Cardinality(Live(newEntries, newCap)) = Cardinality(Scanned)
  /\ pc = "destroyed" => numEntries = 0
  /\ pc # "rehash" => scan = 0

TypedAndCounted == TypeOK /\ Counted

\* No slot of an array of null entries is live.
LEMMA EmptyIsEmpty ==
  ASSUME NEW c \in Nat
  PROVE  /\ EmptyArray(c) \in [Slots(c) -> Slot]
         /\ Live(EmptyArray(c), c) = {}
         /\ Cardinality(Live(EmptyArray(c), c)) = 0
<1>1. EmptyArray(c) \in [Slots(c) -> Slot]
  BY DEF EmptyArray, EmptySlot, Slot
<1>2. Live(EmptyArray(c), c) = {}
  BY KeysAssumption DEF Live, EmptyArray, EmptySlot
<1> QED
  BY <1>1, <1>2, FS_EmptySet

\* The capacity resize_table computes is a natural number, at least as large as
\* the old one when the table is crowded.
LEMMA NewCapacityNat ==
  ASSUME NEW n \in Nat, NEW m \in Nat, NEW c \in Nat
  PROVE  NewCapacity(n, m, c) \in Nat
<1>1. (c * GROWTH_FACTOR) \div Unit \in Nat
  BY SMT DEF Unit, GROWTH_FACTOR
<1>2. (c * Unit) \div GROWTH_FACTOR \in Nat
  BY SMT DEF Unit, GROWTH_FACTOR
<1> QED
  BY <1>1, <1>2 DEF NewCapacity

LEMMA InitTyped == Init => TypedAndCounted
<1> SUFFICES ASSUME Init PROVE TypedAndCounted
  OBVIOUS
<1>1. TypeOK
  BY EmptyIsEmpty DEF Init, TypeOK, Operations, Statuses
<1>2. Counted
  BY EmptyIsEmpty DEF Init, Counted
<1> QED
  BY <1>1, <1>2 DEF TypedAndCounted

\* Bury(op, s), at a live slot s.
LEMMA BuryTyped ==
  ASSUME TypedAndCounted, pc = "idle",
         NEW op \in Operations, NEW s \in Live(entries, cap), Bury(op, s)
  PROVE  TypedAndCounted'
<1> USE DEF TypedAndCounted
<1>1. s \in Slots(cap) /\ entries \in [Slots(cap) -> Slot] /\ cap \in Nat
  BY DEF Live, TypeOK
<1>a. Buried(s) \in Slot /\ Buried(s).key \notin Keys
  BY <1>1, KeysAssumption DEF Buried, Slot
<1>2. /\ Live(entries', cap) = Live(entries, cap) \ {s}
      /\ Cardinality(Live(entries', cap)) = Cardinality(Live(entries, cap)) - 1
      /\ Cardinality(Live(entries, cap)) > 0
  BY <1>1, <1>a, EraseRemovesOne DEF Bury
<1>3. Cardinality(Live(entries, cap)) \in Nat
  BY LiveFinite DEF TypeOK
<1>4. numEntries' \in Nat
  BY <1>2, <1>3 DEF Bury, Counted, TypeOK
<1>5. entries' \in [Slots(cap) -> Slot]
  BY <1>1, <1>a DEF Bury
<1>6. entries[s].data \in Data \cup {NoData} /\ entries[s].key \in Keys
  BY <1>1 DEF Slot, Live
<1>7. TypeOK'
  BY <1>4, <1>5, <1>6 DEF Bury, TypeOK, Returns, resizing, Statuses
<1>8. Counted'
  BY <1>2, <1>3 DEF Bury, Counted, TypeOK, resizing
<1> QED
  BY <1>7, <1>8

\* Calls and steps that change neither array nor capacity.
LEMMA QuietTyped ==
  ASSUME TypedAndCounted, UNCHANGED <<entries, cap, minCap, counters, newEntries, newCap, scan>>,
         pc' \in {"idle", "resize", "spinning", "overrun", "aborted"} \/ pc' = pc,
         pc # "rehash",
         result' \in [op : Operations, key : Keys \cup {NULL}, status : Statuses, data : Data \cup {NoData}]
  PROVE  TypedAndCounted'
<1>1. TypeOK'
  BY DEF TypedAndCounted, TypeOK, counters
<1>2. Counted'
  BY DEF TypedAndCounted, Counted, counters
<1> QED
  BY <1>1, <1>2 DEF TypedAndCounted

LEMMA NextTyped == TypedAndCounted /\ [Next]_vars => TypedAndCounted'
<1> SUFFICES ASSUME TypedAndCounted, [Next]_vars PROVE TypedAndCounted'
  OBVIOUS
<1> USE DEF TypedAndCounted
<1>result. result \in [op : Operations, key : Keys \cup {NULL}, status : Statuses, data : Data \cup {NoData}]
  BY DEF TypeOK
<1>1. CASE Create
  <2> DEFINE c == IF InitCapacity < MinCapacity THEN MinCapacity ELSE InitCapacity
  <2>1. c \in Nat /\ cap' = c /\ minCap' = c /\ entries' = EmptyArray(c)
    BY <1>1, SizeAssumption DEF Create
  <2> HIDE DEF c
  <2>2. numEntries = 0 /\ scan = 0 /\ pc' = "idle" /\ UNCHANGED <<counters, resizing>>
    BY <1>1 DEF Create, Counted
  <2>3. result' \in [op : Operations, key : Keys \cup {NULL}, status : Statuses, data : Data \cup {NoData}]
    BY <1>1 DEF Create, Returns, Operations, Statuses
  <2>4. TypeOK'
    BY <2>1, <2>2, <2>3, EmptyIsEmpty DEF TypeOK, counters, resizing
  <2>5. Counted'
    BY <2>1, <2>2, EmptyIsEmpty DEF Counted, counters, resizing
  <2> QED
    BY <2>4, <2>5
<1>2. CASE CreateFails
  <2>1. result' \in [op : Operations, key : Keys \cup {NULL}, status : Statuses, data : Data \cup {NoData}]
    BY <1>2 DEF CreateFails, Returns, Operations, Statuses
  <2> QED
    BY <1>2, <2>1, QuietTyped DEF CreateFails, resizing
<1>3. ASSUME NEW k \in Keys, AddDuplicate(k) PROVE TypedAndCounted'
  <2>1. result' \in [op : Operations, key : Keys \cup {NULL}, status : Statuses, data : Data \cup {NoData}]
    BY <1>3 DEF AddDuplicate, Returns, Operations, Statuses
  <2> QED
    BY <1>3, <2>1, QuietTyped DEF AddDuplicate, resizing
<1>4. ASSUME NEW k \in Keys, NEW d \in Data, AddNew(k, d) PROVE TypedAndCounted'
  <2>1. result' \in [op : Operations, key : Keys \cup {NULL}, status : Statuses, data : Data \cup {NoData}]
    BY <1>4 DEF AddNew, Returns, Operations, Statuses
  <2>2. PICK s \in Slots(cap) :
          /\ entries[s].key = NULL
          /\ \/ entries' = [entries EXCEPT ![s] = [key |-> k, data |-> d]]
             \/ /\ "strdup" \in Faults
                /\ entries' = [entries EXCEPT ![s] = [key |-> NULL, data |-> d]]
    BY <1>4 DEF AddNew
  <2>3. entries \in [Slots(cap) -> Slot] /\ cap \in Nat
    BY DEF TypeOK
  <2>4. \A key \in {k, NULL} : [key |-> key, data |-> d] \in Slot
    BY DEF Slot
  <2>5. entries' \in [Slots(cap) -> Slot]
    BY <2>2, <2>3, <2>4
  <2>6. TypeOK'
    BY <1>4, <2>1, <2>5 DEF AddNew, TypeOK, resizing
  <2>7. pc' = "resize" /\ numEntries' = numEntries + 1 /\ cap' = cap /\ scan' = 0
    BY <1>4 DEF AddNew, resizing, Counted
  <2>8. numEntries \in Nat /\ Cardinality(Live(entries, cap)) \in Nat
    BY <2>3, LiveFinite DEF TypeOK
  <2>9. CASE entries' = [entries EXCEPT ![s] = [key |-> k, data |-> d]]
    <3>1. Cardinality(Live(entries', cap)) = Cardinality(Live(entries, cap)) + 1
      BY <2>2, <2>3, <2>4, <2>9, StoreAddsOne, KeysAssumption
    <3> QED
      BY <2>6, <2>7, <2>8, <3>1 DEF Counted
  <2>10. CASE "strdup" \in Faults /\ entries' = [entries EXCEPT ![s] = [key |-> NULL, data |-> d]]
    <3>1. Live(entries', cap) = Live(entries, cap)
      BY <2>2, <2>3, <2>10, KeysAssumption DEF Live
    <3> QED
      BY <2>6, <2>7, <2>8, <2>10, <3>1 DEF Counted
  <2> QED
    BY <2>2, <2>6, <2>9, <2>10
<1>5. ASSUME NEW k \in Keys, Get(k) PROVE TypedAndCounted'
  <2>1. result' \in [op : Operations, key : Keys \cup {NULL}, status : Statuses, data : Data \cup {NoData}]
    <3>1. PICK s \in Slots(cap) :
            \/ Returns("ht_get", k, "HT_OK", entries[s].data)
            \/ Returns("ht_get", k, "HT_E_KEY_NOT_PRESENT", NoData)
      BY <1>5 DEF Get
    <3>2. entries[s].data \in Data \cup {NoData}
      BY DEF TypeOK, Slot
    <3> QED
      BY <3>1, <3>2 DEF Returns, Operations, Statuses
  <2> QED
    BY <1>5, <2>1, QuietTyped DEF Get, resizing
<1>6. ASSUME NEW k \in Keys, RemovePresent(k) PROVE TypedAndCounted'
  <2>1. PICK s \in Live(entries, cap) : Bury("ht_rem", s)
    BY <1>6 DEF RemovePresent, Live
  <2> QED
    BY <1>6, <2>1, BuryTyped DEF RemovePresent, Operations
<1>7. ASSUME NEW k \in Keys, RemoveAbsent(k) PROVE TypedAndCounted'
  <2>1. result' \in [op : Operations, key : Keys \cup {NULL}, status : Statuses, data : Data \cup {NoData}]
    BY <1>7 DEF RemoveAbsent, Returns, Operations, Statuses
  <2> QED
    BY <1>7, <2>1, QuietTyped DEF RemoveAbsent, resizing
<1>8. ASSUME NEW k \in Keys, Spin(k) PROVE TypedAndCounted'
  BY <1>8, <1>result, QuietTyped DEF Spin, resizing
<1>9. CASE RemoveNext
  <2>1. PICK s \in Live(entries, cap) : Bury("ht_rem_next", s)
    BY <1>9 DEF RemoveNext, Live
  <2> QED
    BY <1>9, <2>1, BuryTyped DEF RemoveNext, Operations
<1>10. CASE NoEntriesLeft
  <2>1. result' \in [op : Operations, key : Keys \cup {NULL}, status : Statuses, data : Data \cup {NoData}]
    BY <1>10 DEF NoEntriesLeft, Returns, Operations, Statuses
  <2> QED
    BY <1>10, <2>1, QuietTyped DEF NoEntriesLeft, resizing
<1>11. CASE RemoveNextOverruns
  BY <1>11, <1>result, QuietTyped DEF RemoveNextOverruns, resizing
<1>12. CASE Destroy
  <2>1. result' \in [op : Operations, key : Keys \cup {NULL}, status : Statuses, data : Data \cup {NoData}]
    BY <1>12 DEF Destroy, Returns, Operations, Statuses
  <2>2. scan = 0 /\ UNCHANGED resizing
    BY <1>12 DEF Destroy, Counted
  <2>3. TypeOK'
    BY <1>12, <2>1, <2>2, EmptyIsEmpty DEF Destroy, TypeOK, resizing
  <2>4. Counted'
    BY <1>12, <2>2, EmptyIsEmpty DEF Destroy, Counted, resizing
  <2> QED
    BY <2>3, <2>4
<1>13. CASE ResizeKeeps
  BY <1>13, <1>result, QuietTyped DEF ResizeKeeps, resizing
<1>14. CASE ResizeFails
  <2>1. result' \in [op : Operations, key : Keys \cup {NULL}, status : Statuses, data : Data \cup {NoData}]
    BY <1>14, <1>result DEF ResizeFails, Statuses
  <2> QED
    BY <1>14, <2>1, QuietTyped DEF ResizeFails, resizing
<1>15. CASE ResizeBegins
  <2>1. newCap' \in Nat
    BY <1>15, NewCapacityNat DEF ResizeBegins, TypeOK
  <2>2. TypeOK'
    BY <1>15, <2>1, EmptyIsEmpty DEF ResizeBegins, TypeOK, counters
  <2>3. Cardinality(Live(newEntries', newCap')) = 0
    BY <1>15, <2>1, EmptyIsEmpty DEF ResizeBegins
  <2>4. Cardinality(Scanned') = 0
    <3>1. Scanned' = {}
      BY <1>15 DEF ResizeBegins, Scanned, Live, TypeOK
    <3> QED
      BY <3>1, FS_EmptySet
  <2>5. Counted'
    BY <1>15, <2>3, <2>4 DEF ResizeBegins, Counted, counters
  <2> QED
    BY <2>2, <2>5
<1>16. CASE RehashSkips
  <2>1. TypeOK'
    BY <1>16 DEF RehashSkips, TypeOK, counters
  <2>2. Scanned' = Scanned
    BY <1>16 DEF RehashSkips, Scanned, Live, TypeOK
  <2>3. Counted'
    BY <1>16, <2>2 DEF RehashSkips, Counted, counters
  <2> QED
    BY <2>1, <2>3
<1>17. CASE RehashCopies
  <2>1. PICK s \in Slots(newCap) :
          /\ newEntries[s].key = NULL
          /\ newEntries' = [newEntries EXCEPT ![s] = entries[scan]]
    BY <1>17 DEF RehashCopies, StopsAt
  <2>2. /\ scan \in Slots(cap) /\ entries[scan] \in Slot /\ entries[scan].key \in Keys
        /\ newEntries \in [Slots(newCap) -> Slot] /\ newCap \in Nat /\ cap \in Nat
    BY <1>17 DEF RehashCopies, TypeOK
  <2>3. newEntries' \in [Slots(newCap) -> Slot]
    BY <2>1, <2>2
  <2>4. TypeOK'
    BY <1>17, <2>2, <2>3 DEF RehashCopies, TypeOK, counters
  <2>5. Cardinality(Live(newEntries', newCap)) = Cardinality(Live(newEntries, newCap)) + 1
    BY <2>1, <2>2, StoreAddsOne, KeysAssumption
  <2>6. Cardinality(Scanned') = Cardinality(Scanned) + 1
    <3>1. Scanned' = Scanned \cup {scan} /\ scan \notin Scanned
      BY <1>17, <2>2 DEF RehashCopies, Scanned, Live
    <3>2. IsFiniteSet(Scanned)
      BY <2>2, LiveFinite, FS_Subset DEF Scanned
    <3> QED
      BY <3>1, <3>2, FS_AddElement
  <2>7. Counted'
    BY <1>17, <2>5, <2>6 DEF RehashCopies, Counted, counters
  <2> QED
    BY <2>4, <2>7
<1>18. CASE RehashInstalls
  <2>1. Scanned = Live(entries, cap)
    BY <1>18 DEF RehashInstalls, Scanned, Live, TypeOK
  <2>2. entries' = newEntries /\ cap' = newCap /\ numEntries' = numEntries
    BY <1>18 DEF RehashInstalls, counters
  <2>3. Cardinality(Live(entries', cap')) = Cardinality(Live(entries, cap))
    BY <1>18, <2>1, <2>2 DEF RehashInstalls, Counted
  <2>4. TypeOK'
    BY <1>18, EmptyIsEmpty DEF RehashInstalls, TypeOK, counters
  <2>5. Counted'
    BY <1>18, <2>2, <2>3 DEF RehashInstalls, Counted
  <2> QED
    BY <2>4, <2>5
<1>19. CASE UNCHANGED vars
  BY <1>19 DEF vars, TypeOK, Counted, Scanned, counters, resizing
<1> QED
  BY <1>1, <1>2, <1>3, <1>4, <1>5, <1>6, <1>7, <1>8, <1>9, <1>10, <1>11, <1>12,
     <1>13, <1>14, <1>15, <1>16, <1>17, <1>18, <1>19 DEF Next, ResizeStep

\* Type correctness: in particular num_entries never wraps below zero, whatever
\* allocations fail (hashtable.c:181, 218).
THEOREM TypeCorrect == Spec => []TypeOK
<1>1. TypedAndCounted => TypeOK
  BY DEF TypedAndCounted
<1> QED
  BY InitTyped, NextTyped, <1>1, PTL DEF Spec

\* num_entries is exact unless a strdup failed: ht_rem_next may trust it.
THEOREM CountCorrect == ASSUME "strdup" \notin Faults PROVE Spec => []CountExact
<1>1. TypedAndCounted => CountExact
  BY DEF TypedAndCounted, Counted, CountExact
<1> QED
  BY InitTyped, NextTyped, <1>1, PTL DEF Spec

-------------------------------------------------------------------------------
(* Probing *)

\* A search that ends on a null slot proves the key absent: were it stored, the
\* slots before it would not be null, and the search would have met it first.
LEMMA AbsentWhereSearchEnds ==
  ASSUME NEW c \in Nat, NEW array \in [Slots(c) -> Slot], NEW k \in Keys, NEW s \in Slots(c),
         StopsAt(array, c, k, {NULL, k}, s), array[s].key = NULL, ChainsUnbroken(array, c)
  PROVE  \A t \in Live(array, c) : array[t].key # k
<1> SUFFICES ASSUME NEW t \in Live(array, c), array[t].key = k PROVE FALSE
  OBVIOUS
<1>1. t \in Slots(c) /\ t # s /\ c > 0
  BY KeysAssumption DEF Live
<1>2. Home(k, c) \in Slots(c)
  BY <1>1, HomeIsSlot
<1>3. ~ (Distance(Home(k, c), t, c) < Distance(Home(k, c), s, c))
  BY <1>1 DEF StopsAt
<1>4. ~ (Distance(Home(k, c), s, c) < Distance(Home(k, c), t, c))
  BY <1>1 DEF ChainsUnbroken
<1>5. /\ Distance(Home(k, c), s, c) \in Nat
      /\ Distance(Home(k, c), t, c) \in Nat
      /\ Distance(Home(k, c), s, c) # Distance(Home(k, c), t, c)
  BY <1>1, <1>2, DistanceInjective
<1> QED
  BY <1>3, <1>4, <1>5

\* Storing an absent key in the null slot where its search ends.
LEMMA StoreKeepsProbing ==
  ASSUME NEW c \in Nat, NEW array \in [Slots(c) -> Slot], NEW e \in Slot, e.key \in Keys,
         NEW s \in Slots(c), array[s].key = NULL,
         NEW stops, NULL \in stops, StopsAt(array, c, e.key, stops, s),
         \A t \in Live(array, c) : array[t].key # e.key,
         NoDuplicates(array, c), ChainsUnbroken(array, c)
  PROVE  /\ NoDuplicates([array EXCEPT ![s] = e], c)
         /\ ChainsUnbroken([array EXCEPT ![s] = e], c)
<1> DEFINE new == [array EXCEPT ![s] = e]
<1>1. new[s] = e /\ \A t \in Slots(c) : t # s => new[t] = array[t]
  OBVIOUS
<1>2. Live(new, c) = Live(array, c) \cup {s}
  BY StoreAddsOne, KeysAssumption
<1>3. s \notin Live(array, c) /\ Live(array, c) \subseteq Slots(c)
  BY KeysAssumption DEF Live
<1> HIDE DEF new
<1>4. NoDuplicates(new, c)
  BY <1>1, <1>2, <1>3 DEF NoDuplicates
<1>5. ASSUME NEW u \in Live(new, c), NEW t \in Slots(c),
             Distance(Home(new[u].key, c), t, c) < Distance(Home(new[u].key, c), u, c)
      PROVE  new[t].key # NULL
  <2>1. CASE t = s
    BY <2>1, <1>1, KeysAssumption
  <2>2. CASE t # s /\ u = s
    BY <2>2, <1>1, <1>5 DEF StopsAt
  <2>3. CASE t # s /\ u # s
    BY <2>3, <1>1, <1>2, <1>3, <1>5 DEF ChainsUnbroken
  <2> QED
    BY <2>1, <2>2, <2>3
<1>6. ChainsUnbroken(new, c)
  BY <1>5 DEF ChainsUnbroken
<1> QED
  BY <1>4, <1>6 DEF new

\* A tombstone keeps the chains of the other keys unbroken.
LEMMA BuryKeepsProbing ==
  ASSUME NEW c \in Nat, NEW array \in [Slots(c) -> Slot], NEW s \in Live(array, c),
         NEW e \in Slot, e.key = TOMBSTONE_KEY,
         NoDuplicates(array, c), ChainsUnbroken(array, c)
  PROVE  /\ NoDuplicates([array EXCEPT ![s] = e], c)
         /\ ChainsUnbroken([array EXCEPT ![s] = e], c)
<1> DEFINE new == [array EXCEPT ![s] = e]
<1>1. s \in Slots(c)
  BY DEF Live
<1>2. new[s] = e /\ \A t \in Slots(c) : t # s => new[t] = array[t]
  BY <1>1
<1>3. Live(new, c) = Live(array, c) \ {s} /\ Live(array, c) \subseteq Slots(c)
  BY EraseRemovesOne, KeysAssumption DEF Live
<1> HIDE DEF new
<1>4. NoDuplicates(new, c)
  BY <1>2, <1>3 DEF NoDuplicates
<1>5. ChainsUnbroken(new, c)
  BY <1>1, <1>2, <1>3, KeysAssumption DEF ChainsUnbroken
<1> QED
  BY <1>4, <1>5 DEF new

\* A failed strdup leaves the slot null and disturbs nothing.
LEMMA NullKeepsProbing ==
  ASSUME NEW c \in Nat, NEW array \in [Slots(c) -> Slot], NEW s \in Slots(c),
         array[s].key = NULL, NEW e \in Slot, e.key = NULL,
         NoDuplicates(array, c), ChainsUnbroken(array, c)
  PROVE  /\ NoDuplicates([array EXCEPT ![s] = e], c)
         /\ ChainsUnbroken([array EXCEPT ![s] = e], c)
<1> DEFINE new == [array EXCEPT ![s] = e]
<1>1. \A t \in Slots(c) : new[t].key = array[t].key
  OBVIOUS
<1> HIDE DEF new
<1>2. Live(new, c) = Live(array, c)
  BY <1>1 DEF Live
<1>3. Live(array, c) \subseteq Slots(c)
  BY DEF Live
<1>4. NoDuplicates(new, c)
  BY <1>1, <1>2, <1>3 DEF NoDuplicates
<1>5. ChainsUnbroken(new, c)
  BY <1>1, <1>2, <1>3 DEF ChainsUnbroken
<1> QED
  BY <1>4, <1>5 DEF new

LEMMA EmptyProbing ==
  ASSUME NEW c \in Nat
  PROVE  NoDuplicates(EmptyArray(c), c) /\ ChainsUnbroken(EmptyArray(c), c)
BY EmptyIsEmpty DEF NoDuplicates, ChainsUnbroken

-------------------------------------------------------------------------------
(* Reachability and uniqueness *)

ProbeInv == UniqueKeys /\ KeysReachable /\ CopiesFaithful

LEMMA BuryProbes ==
  ASSUME TypedAndCounted, ProbeInv, pc = "idle",
         NEW op \in Operations, NEW s \in Live(entries, cap), Bury(op, s)
  PROVE  ProbeInv'
<1>1. s \in Slots(cap) /\ entries \in [Slots(cap) -> Slot] /\ cap \in Nat
  BY DEF Live, TypedAndCounted, TypeOK
<1>2. Buried(s) \in Slot /\ Buried(s).key = TOMBSTONE_KEY
  BY <1>1 DEF Buried, Slot
<1>3. NoDuplicates(entries', cap) /\ ChainsUnbroken(entries', cap)
  BY <1>1, <1>2, BuryKeepsProbing DEF Bury, ProbeInv, UniqueKeys, KeysReachable
<1>4. pc' = "resize" /\ UNCHANGED <<cap, newEntries, newCap>>
  BY DEF Bury, resizing
<1> QED
  BY <1>3, <1>4 DEF ProbeInv, UniqueKeys, KeysReachable, CopiesFaithful

LEMMA QuietProbes ==
  ASSUME ProbeInv, UNCHANGED <<entries, cap, newEntries, newCap, scan>>, pc' # "rehash" \/ pc' = pc
  PROVE  ProbeInv'
BY DEF ProbeInv, UniqueKeys, KeysReachable, CopiesFaithful, Scanned

LEMMA InitProbes == Init => ProbeInv
BY EmptyProbing DEF Init, ProbeInv, UniqueKeys, KeysReachable, CopiesFaithful

LEMMA NextProbes == TypedAndCounted /\ TypedAndCounted' /\ ProbeInv /\ [Next]_vars => ProbeInv'
<1> SUFFICES ASSUME TypedAndCounted, TypedAndCounted', ProbeInv, [Next]_vars PROVE ProbeInv'
  OBVIOUS
<1>1. /\ cap \in Nat /\ entries \in [Slots(cap) -> Slot]
      /\ newCap \in Nat /\ newEntries \in [Slots(newCap) -> Slot]
  BY DEF TypedAndCounted, TypeOK
<1>2. /\ NoDuplicates(entries, cap) /\ ChainsUnbroken(entries, cap)
      /\ NoDuplicates(newEntries, newCap) /\ ChainsUnbroken(newEntries, newCap)
  BY DEF ProbeInv, UniqueKeys, KeysReachable
<1>3. CASE Create
  <2>1. entries' = EmptyArray(cap') /\ cap' \in Nat /\ pc' = "idle" /\ UNCHANGED resizing
    BY <1>3, SizeAssumption DEF Create
  <2> QED
    BY <1>2, <2>1, EmptyProbing DEF ProbeInv, UniqueKeys, KeysReachable, CopiesFaithful, resizing
<1>4. ASSUME NEW k \in Keys, NEW d \in Data, AddNew(k, d) PROVE ProbeInv'
  <2>1. PICK s \in Slots(cap) :
          /\ StopsAt(entries, cap, k, {NULL, k}, s)
          /\ entries[s].key = NULL
          /\ \/ entries' = [entries EXCEPT ![s] = [key |-> k, data |-> d]]
             \/ entries' = [entries EXCEPT ![s] = [key |-> NULL, data |-> d]]
    BY <1>4 DEF AddNew
  <2>2. \A key \in {k, NULL} : [key |-> key, data |-> d] \in Slot
    BY DEF Slot
  <2>3. NoDuplicates(entries', cap) /\ ChainsUnbroken(entries', cap)
    <3>1. CASE entries' = [entries EXCEPT ![s] = [key |-> k, data |-> d]]
      <4>1. \A t \in Live(entries, cap) : entries[t].key # k
        BY <1>1, <1>2, <2>1, AbsentWhereSearchEnds
      <4> DEFINE e == [key |-> k, data |-> d]
                 stops == {NULL, k}
      <4>2. e \in Slot /\ e.key \in Keys /\ NULL \in stops
        BY <2>2
      <4>3. StopsAt(entries, cap, e.key, stops, s) /\ \A t \in Live(entries, cap) : entries[t].key # e.key
        BY <2>1, <4>1
      <4> HIDE DEF e, stops
      <4>4. /\ NoDuplicates([entries EXCEPT ![s] = e], cap)
            /\ ChainsUnbroken([entries EXCEPT ![s] = e], cap)
        BY <1>1, <1>2, <2>1, <4>2, <4>3, StoreKeepsProbing
      <4> QED
        BY <3>1, <4>4 DEF e
    <3>2. CASE entries' = [entries EXCEPT ![s] = [key |-> NULL, data |-> d]]
      BY <1>1, <1>2, <2>1, <2>2, <3>2, NullKeepsProbing
    <3> QED
      BY <2>1, <3>1, <3>2
  <2>4. pc' = "resize" /\ UNCHANGED <<cap, newEntries, newCap>>
    BY <1>4 DEF AddNew, resizing
  <2> QED
    BY <1>2, <2>3, <2>4 DEF ProbeInv, UniqueKeys, KeysReachable, CopiesFaithful
<1>5. ASSUME NEW k \in Keys, RemovePresent(k) PROVE ProbeInv'
  <2>1. PICK s \in Live(entries, cap) : Bury("ht_rem", s)
    BY <1>5 DEF RemovePresent, Live
  <2> QED
    BY <1>5, <2>1, BuryProbes DEF RemovePresent, Operations
<1>6. CASE RemoveNext
  <2>1. PICK s \in Live(entries, cap) : Bury("ht_rem_next", s)
    BY <1>6 DEF RemoveNext, Live
  <2> QED
    BY <1>6, <2>1, BuryProbes DEF RemoveNext, Operations
<1>7. CASE Destroy
  <2>1. entries' = EmptyArray(0) /\ cap' = 0 /\ pc' = "destroyed" /\ UNCHANGED resizing
    BY <1>7 DEF Destroy
  <2> QED
    BY <1>2, <2>1, EmptyProbing DEF ProbeInv, UniqueKeys, KeysReachable, CopiesFaithful, resizing
<1>8. CASE ResizeBegins
  <2>1. /\ newEntries' = EmptyArray(newCap') /\ newCap' \in Nat /\ scan' = 0
        /\ UNCHANGED <<entries, cap>>
    BY <1>8 DEF ResizeBegins, TypedAndCounted, TypeOK
  <2>2. Scanned' = {} /\ Live(newEntries', newCap') = {}
    <3>1. Scanned' = {}
      BY <1>1, <2>1 DEF Scanned, Live
    <3>2. Live(newEntries', newCap') = {}
      BY <2>1, EmptyIsEmpty
    <3> QED
      BY <3>1, <3>2
  <2>3. CopiesFaithful'
    BY <2>2 DEF CopiesFaithful
  <2>4. NoDuplicates(newEntries', newCap') /\ ChainsUnbroken(newEntries', newCap')
    BY <2>1, EmptyProbing
  <2> QED
    BY <1>2, <2>1, <2>3, <2>4 DEF ProbeInv, UniqueKeys, KeysReachable
<1>9. CASE RehashSkips
  <2>1. Scanned' = Scanned /\ UNCHANGED <<entries, cap, pc, newEntries, newCap>>
    BY <1>9 DEF RehashSkips, Scanned, Live, TypedAndCounted, TypeOK
  <2> QED
    BY <2>1 DEF ProbeInv, UniqueKeys, KeysReachable, CopiesFaithful
<1>10. CASE RehashCopies
  <2> DEFINE e == entries[scan]
  <2>1. PICK s \in Slots(newCap) :
          /\ StopsAt(newEntries, newCap, e.key, {NULL}, s)
          /\ newEntries' = [newEntries EXCEPT ![s] = e]
    BY <1>10 DEF RehashCopies
  <2>2. /\ scan \in Live(entries, cap) /\ e \in Slot /\ e.key \in Keys
        /\ newEntries[s].key = NULL
        /\ UNCHANGED <<entries, cap, newCap, pc>> /\ pc = "rehash" /\ scan' = scan + 1
    BY <1>1, <1>10, <2>1 DEF RehashCopies, StopsAt, Live, TypedAndCounted, TypeOK
  <2>3. Scanned' = Scanned \cup {scan} /\ scan \notin Scanned
    BY <1>1, <2>2 DEF Scanned, Live
  <2>4. \A t \in Live(newEntries, newCap) : newEntries[t].key # e.key
    <3>1. \A t \in Live(newEntries, newCap) : \E u \in Scanned : newEntries[t] = entries[u]
      BY <2>2 DEF ProbeInv, CopiesFaithful
    <3>2. \A u \in Scanned : entries[u].key # e.key
      BY <1>2, <2>2, <2>3 DEF NoDuplicates, Scanned
    <3> QED
      BY <3>1, <3>2
  <2>5. Live(newEntries', newCap) = Live(newEntries, newCap) \cup {s}
    BY <1>1, <2>1, <2>2, StoreAddsOne, KeysAssumption, ZenonT(60)
  <2>6. /\ newEntries'[s] = e
        /\ \A t \in Live(newEntries, newCap) : newEntries'[t] = newEntries[t]
    BY <1>1, <2>1, <2>2, KeysAssumption DEF Live
  <2>7. NoDuplicates(newEntries', newCap) /\ ChainsUnbroken(newEntries', newCap)
    <3> HIDE DEF e
    <3> QED
      BY <1>1, <1>2, <2>1, <2>2, <2>4, StoreKeepsProbing
  <2>8. CopiesFaithful'
    <3>1. \A t \in Live(newEntries', newCap) : \E u \in Scanned' : newEntries'[t] = entries[u]
      BY <2>2, <2>3, <2>5, <2>6 DEF ProbeInv, CopiesFaithful
    <3>2. \A u \in Scanned' : \E t \in Live(newEntries', newCap) : newEntries'[t] = entries[u]
      BY <2>2, <2>3, <2>5, <2>6 DEF ProbeInv, CopiesFaithful
    <3> QED
      BY <2>2, <3>1, <3>2 DEF CopiesFaithful, TypedAndCounted, Counted
  <2> QED
    BY <1>2, <2>2, <2>7, <2>8 DEF ProbeInv, UniqueKeys, KeysReachable
<1>11. CASE RehashInstalls
  <2>1. /\ entries' = newEntries /\ cap' = newCap /\ newCap' = 0
        /\ newEntries' = EmptyArray(0) /\ pc' = "idle"
    BY <1>11 DEF RehashInstalls
  <2> QED
    BY <1>2, <2>1, EmptyProbing DEF ProbeInv, UniqueKeys, KeysReachable, CopiesFaithful
<1>12. CASE CreateFails \/ NoEntriesLeft \/ RemoveNextOverruns \/ ResizeKeeps \/ ResizeFails
  BY <1>12, QuietProbes
  DEF CreateFails, NoEntriesLeft, RemoveNextOverruns, ResizeKeeps, ResizeFails, resizing
<1>13. ASSUME NEW k \in Keys, AddDuplicate(k) \/ Get(k) \/ RemoveAbsent(k) \/ Spin(k)
       PROVE  ProbeInv'
  BY <1>13, QuietProbes DEF AddDuplicate, Get, RemoveAbsent, Spin, resizing
<1>14. CASE UNCHANGED vars
  BY <1>14, QuietProbes DEF vars, resizing
<1> QED
  BY <1>3, <1>4, <1>5, <1>6, <1>7, <1>8, <1>9, <1>10, <1>11, <1>12, <1>13, <1>14
  DEF Next, ResizeStep

\* In every reachable state, of every table, no key is stored twice and every
\* stored key is found by the probe that starts at its home, whatever
\* allocations fail: removal's tombstones and resize_table's copying see to it.
THEOREM ProbingCorrect == Spec => []ProbingSound
<1>1. TypedAndCounted /\ ProbeInv => ProbingSound
  BY DEF ProbeInv, ProbingSound
<1> QED
  BY InitTyped, NextTyped, InitProbes, NextProbes, <1>1, PTL DEF Spec

-------------------------------------------------------------------------------
(* Capacities and loads *)

\* Rounding down never takes the capacity below the floor or the old capacity
\* below what its entries need.
LEMMA NewCapacityFits ==
  ASSUME NEW n \in Nat, NEW m \in Nat, NEW c \in Nat, c >= m
  PROVE  /\ m >= 3 => NewCapacity(n, m, c) >= m /\ NewCapacity(n, m, c) >= 3
         /\ c >= 8 /\ (n - 1) * Unit <= c * EMBIGGEN_THRESHOLD
              => n * Unit <= NewCapacity(n, m, c) * EMBIGGEN_THRESHOLD
<1> DEFINE up == (c * GROWTH_FACTOR) \div Unit
           down == (c * Unit) \div GROWTH_FACTOR
<1>1. up \in Nat /\ up * Unit <= c * GROWTH_FACTOR /\ c * GROWTH_FACTOR < up * Unit + Unit
  BY SMT DEF Unit, GROWTH_FACTOR
<1>2. down \in Nat /\ down * GROWTH_FACTOR <= c * Unit /\ c * Unit < down * GROWTH_FACTOR + GROWTH_FACTOR
  BY SMT DEF Unit, GROWTH_FACTOR
<1>3. NewCapacity(n, m, c) = IF Embiggen(n, c) THEN up ELSE IF Ensmallen(n, m, c) THEN down ELSE c
  BY DEF NewCapacity
<1> HIDE DEF up, down
<1>4. CASE Embiggen(n, c)
  BY <1>1, <1>3, <1>4, SMT DEF Embiggen, Unit, GROWTH_FACTOR, EMBIGGEN_THRESHOLD
<1>5. CASE ~ Embiggen(n, c) /\ Ensmallen(n, m, c)
  BY <1>2, <1>3, <1>5, SMT DEF Embiggen, Ensmallen, Unit, GROWTH_FACTOR, EMBIGGEN_THRESHOLD, ENSMALLEN_THRESHOLD
<1>6. CASE ~ Embiggen(n, c) /\ ~ Ensmallen(n, m, c)
  BY <1>3, <1>6, SMT DEF Embiggen, Unit, EMBIGGEN_THRESHOLD
<1> QED
  BY <1>4, <1>5, <1>6

FloorInv ==
  /\ pc # "destroyed" => cap >= minCap /\ minCap >= MinCapacity
  /\ pc = "rehash" => newCap >= minCap

\* Everything but Create, ResizeBegins, RehashInstalls and Destroy.
LEMMA QuietFloor ==
  ASSUME FloorInv, UNCHANGED <<cap, minCap, newCap>>, pc # "destroyed" \/ pc' = "destroyed",
         pc' # "rehash" \/ pc = "rehash"
  PROVE  FloorInv'
BY DEF FloorInv

LEMMA NextFloor == TypedAndCounted /\ FloorInv /\ [Next]_vars => FloorInv'
<1> SUFFICES ASSUME TypedAndCounted, FloorInv, [Next]_vars PROVE FloorInv'
  OBVIOUS
<1>1. CASE Create
  BY <1>1, SizeAssumption DEF Create, FloorInv
<1>2. CASE ResizeBegins
  <2>1. /\ numEntries \in Nat /\ minCap \in Nat /\ cap \in Nat
        /\ cap >= minCap /\ minCap >= MinCapacity /\ minCap >= 3
    BY <1>2, SizeAssumption DEF ResizeBegins, TypedAndCounted, TypeOK, FloorInv
  <2>2. NewCapacity(numEntries, minCap, cap) >= minCap
    BY <2>1, NewCapacityFits
  <2> QED
    BY <1>2, <2>1, <2>2 DEF ResizeBegins, FloorInv
<1>3. CASE RehashInstalls
  BY <1>3 DEF RehashInstalls, FloorInv
<1>4. CASE Destroy
  BY <1>4 DEF Destroy, FloorInv
<1>5. ASSUME NEW k \in Keys,
             \/ AddDuplicate(k) \/ Get(k) \/ RemoveAbsent(k) \/ Spin(k)
             \/ RemovePresent(k) \/ \E d \in Data : AddNew(k, d)
      PROVE  FloorInv'
  BY <1>5, QuietFloor DEF AddDuplicate, Get, RemoveAbsent, Spin, RemovePresent, AddNew, Bury, resizing
<1>6. CASE \/ CreateFails \/ RemoveNext \/ NoEntriesLeft \/ RemoveNextOverruns
           \/ ResizeKeeps \/ ResizeFails \/ RehashSkips \/ RehashCopies
  BY <1>6, QuietFloor DEF CreateFails, RemoveNext, NoEntriesLeft, RemoveNextOverruns,
     ResizeKeeps, ResizeFails, RehashSkips, RehashCopies, Bury, resizing
<1>7. CASE UNCHANGED vars
  BY <1>7, QuietFloor DEF vars, resizing, FloorInv
<1> QED
  BY <1>1, <1>2, <1>3, <1>4, <1>5, <1>6, <1>7 DEF Next, ResizeStep

\* Growing and shrinking by 1.414214, rounded down, never takes the table below
\* the capacity it was created with (hashtable.h:40).
THEOREM FloorCorrect == Spec => []CapacityFloor
<1>1. Init => FloorInv
  BY DEF Init, FloorInv
<1>2. TypedAndCounted /\ FloorInv => CapacityFloor
  BY SizeAssumption DEF TypedAndCounted, TypeOK, FloorInv, CapacityFloor
<1> QED
  BY InitTyped, NextTyped, <1>1, NextFloor, <1>2, PTL DEF Spec

-------------------------------------------------------------------------------
(* Tombstones *)

TombInv ==
  /\ TombstonesCounted
  /\ pc = "rehash" => Tombstones(newEntries, newCap) = {}

LEMMA TombstonesFinite ==
  ASSUME NEW array, NEW c \in Nat
  PROVE  /\ IsFiniteSet(Tombstones(array, c))
         /\ Cardinality(Tombstones(array, c)) \in Nat
<1>1. IsFiniteSet(Slots(c))
  BY FS_Interval
<1>2. Tombstones(array, c) \subseteq Slots(c)
  BY DEF Tombstones
<1> QED
  BY <1>1, <1>2, FS_Subset, FS_CardinalityType

\* Storing something else in a slot that holds no tombstone.
LEMMA StoreKeepsTombstones ==
  ASSUME NEW c \in Nat, NEW array \in [Slots(c) -> Slot], NEW s \in Slots(c), NEW e \in Slot,
         array[s].key # TOMBSTONE_KEY, e.key # TOMBSTONE_KEY
  PROVE  Tombstones([array EXCEPT ![s] = e], c) = Tombstones(array, c)
BY DEF Tombstones

LEMMA BuryAddsTombstone ==
  ASSUME NEW c \in Nat, NEW array \in [Slots(c) -> Slot], NEW s \in Live(array, c),
         NEW e \in Slot, e.key = TOMBSTONE_KEY
  PROVE  Cardinality(Tombstones([array EXCEPT ![s] = e], c)) = Cardinality(Tombstones(array, c)) + 1
<1>1. Tombstones([array EXCEPT ![s] = e], c) = Tombstones(array, c) \cup {s}
  BY DEF Tombstones, Live
<1>2. s \notin Tombstones(array, c)
  BY KeysAssumption DEF Tombstones, Live
<1> QED
  BY <1>1, <1>2, TombstonesFinite, FS_AddElement

LEMMA EmptyTombstones ==
  ASSUME NEW c \in Nat
  PROVE  /\ Tombstones(EmptyArray(c), c) = {}
         /\ Cardinality(Tombstones(EmptyArray(c), c)) = 0
<1>1. Tombstones(EmptyArray(c), c) = {}
  BY KeysAssumption DEF Tombstones, EmptyArray, EmptySlot
<1> QED
  BY <1>1, FS_EmptySet

LEMMA BuryTombs ==
  ASSUME TypedAndCounted, TombInv, pc = "idle", NEW op, NEW s \in Live(entries, cap), Bury(op, s)
  PROVE  TombInv'
<1>1. s \in Slots(cap) /\ entries \in [Slots(cap) -> Slot] /\ cap \in Nat /\ numTombstones \in Nat
  BY DEF Live, TypedAndCounted, TypeOK
<1>2. Buried(s) \in Slot /\ Buried(s).key = TOMBSTONE_KEY
  BY <1>1 DEF Buried, Slot
<1>3. Cardinality(Tombstones(entries', cap)) = Cardinality(Tombstones(entries, cap)) + 1
  BY <1>1, <1>2, BuryAddsTombstone DEF Bury
<1>4. Cardinality(Tombstones(entries, cap)) \in Nat
  BY <1>1, TombstonesFinite
<1>5. numTombstones' = numTombstones + 1 /\ cap' = cap /\ pc' = "resize"
  BY DEF Bury
<1> QED
  BY <1>1, <1>3, <1>4, <1>5 DEF TombInv, TombstonesCounted

LEMMA QuietTombs ==
  ASSUME TombInv, UNCHANGED <<entries, cap, numTombstones, newEntries, newCap>>,
         pc' # "rehash" \/ pc = "rehash"
  PROVE  TombInv'
BY DEF TombInv, TombstonesCounted

LEMMA NextTombs == TypedAndCounted /\ TombInv /\ [Next]_vars => TombInv'
<1> SUFFICES ASSUME TypedAndCounted, TombInv, [Next]_vars PROVE TombInv'
  OBVIOUS
<1>1. /\ cap \in Nat /\ entries \in [Slots(cap) -> Slot] /\ numTombstones \in Nat
      /\ newCap \in Nat /\ newEntries \in [Slots(newCap) -> Slot]
  BY DEF TypedAndCounted, TypeOK
<1>2. CASE Create
  <2>1. entries' = EmptyArray(cap') /\ cap' \in Nat /\ pc' = "idle" /\ numTombstones' = numTombstones
    BY <1>2, SizeAssumption DEF Create, counters
  <2> QED
    BY <1>1, <2>1, EmptyTombstones DEF TombInv, TombstonesCounted
<1>3. ASSUME NEW k \in Keys, NEW d \in Data, AddNew(k, d) PROVE TombInv'
  <2>1. PICK s \in Slots(cap), key \in {k, NULL} :
          /\ entries[s].key = NULL
          /\ entries' = [entries EXCEPT ![s] = [key |-> key, data |-> d]]
    BY <1>3 DEF AddNew
  <2>2. [key |-> key, data |-> d] \in Slot
    BY DEF Slot
  <2>3. Tombstones(entries', cap) = Tombstones(entries, cap)
    BY <1>1, <2>1, <2>2, StoreKeepsTombstones, KeysAssumption
  <2>4. pc' = "resize" /\ UNCHANGED <<cap, numTombstones>>
    BY <1>3 DEF AddNew
  <2> QED
    BY <2>3, <2>4 DEF TombInv, TombstonesCounted
<1>4. ASSUME NEW k \in Keys, RemovePresent(k) PROVE TombInv'
  <2>1. PICK s \in Live(entries, cap) : Bury("ht_rem", s)
    BY <1>4 DEF RemovePresent, Live
  <2> QED
    BY <1>4, <2>1, BuryTombs DEF RemovePresent
<1>5. CASE RemoveNext
  <2>1. PICK s \in Live(entries, cap) : Bury("ht_rem_next", s)
    BY <1>5 DEF RemoveNext, Live
  <2> QED
    BY <1>5, <2>1, BuryTombs DEF RemoveNext
<1>6. CASE Destroy
  <2>1. entries' = EmptyArray(0) /\ cap' = 0 /\ pc' = "destroyed" /\ numTombstones' = 0
    BY <1>6 DEF Destroy
  <2> QED
    BY <2>1, EmptyTombstones DEF TombInv, TombstonesCounted
<1>7. CASE ResizeBegins
  <2>1. /\ newEntries' = EmptyArray(newCap') /\ newCap' \in Nat
        /\ UNCHANGED <<entries, cap, numTombstones>>
    BY <1>7, NewCapacityNat DEF ResizeBegins, TypedAndCounted, TypeOK, counters
  <2>2. Tombstones(newEntries', newCap') = {}
    BY <2>1, EmptyTombstones
  <2> QED
    BY <2>1, <2>2 DEF TombInv, TombstonesCounted
<1>8. CASE RehashCopies
  <2>1. PICK s \in Slots(newCap) :
          /\ newEntries[s].key = NULL
          /\ newEntries' = [newEntries EXCEPT ![s] = entries[scan]]
    BY <1>8 DEF RehashCopies, StopsAt
  <2>2. entries[scan] \in Slot /\ entries[scan].key # TOMBSTONE_KEY
    BY <1>1, <1>8, KeysAssumption DEF RehashCopies, TypedAndCounted, TypeOK
  <2>3. Tombstones(newEntries', newCap) = Tombstones(newEntries, newCap)
    BY <1>1, <2>1, <2>2, StoreKeepsTombstones, KeysAssumption
  <2>4. pc' = "rehash" /\ pc = "rehash" /\ UNCHANGED <<entries, cap, numTombstones, newCap>>
    BY <1>8 DEF RehashCopies, counters
  <2> QED
    BY <2>3, <2>4 DEF TombInv, TombstonesCounted
<1>9. CASE RehashInstalls
  <2>1. /\ entries' = newEntries /\ cap' = newCap /\ pc = "rehash" /\ pc' = "idle"
        /\ numTombstones' = numTombstones
    BY <1>9 DEF RehashInstalls, counters
  <2>2. Cardinality(Tombstones(entries', cap')) = 0
    BY <2>1, FS_EmptySet DEF TombInv
  <2> QED
    BY <1>1, <2>1, <2>2 DEF TombInv, TombstonesCounted
<1>10. CASE \/ CreateFails \/ NoEntriesLeft \/ RemoveNextOverruns
            \/ ResizeKeeps \/ ResizeFails \/ RehashSkips
  BY <1>10, QuietTombs DEF CreateFails, NoEntriesLeft, RemoveNextOverruns,
     ResizeKeeps, ResizeFails, RehashSkips, counters, resizing
<1>11. ASSUME NEW k \in Keys, AddDuplicate(k) \/ Get(k) \/ RemoveAbsent(k) \/ Spin(k)
       PROVE  TombInv'
  BY <1>11, QuietTombs DEF AddDuplicate, Get, RemoveAbsent, Spin, counters, resizing
<1>12. CASE UNCHANGED vars
  BY <1>12, QuietTombs DEF vars, counters, resizing
<1> QED
  BY <1>2, <1>3, <1>4, <1>5, <1>6, <1>7, <1>8, <1>9, <1>10, <1>11, <1>12
  DEF Next, ResizeStep

LEMMA InitTombs == Init => TombInv
BY EmptyTombstones DEF Init, TombInv, TombstonesCounted

\* num_tombstones never underestimates the tombstones of the array, so the load
\* test of resize_table is on the safe side.
THEOREM TombstonesCorrect == Spec => []TombstonesCounted
<1>1. TombInv => TombstonesCounted
  BY DEF TombInv
<1> QED
  BY InitTyped, NextTyped, InitTombs, NextTombs, <1>1, PTL DEF Spec

\* The counters may be relied upon, each under the faults it survives.
THEOREM CountersCorrect == Spec => []CountersTrusted
<1>1. CASE "strdup" \in Faults
  <2>1. TombstonesCounted => CountersTrusted
    BY <1>1 DEF CountersTrusted
  <2> QED
    BY <2>1, TombstonesCorrect, PTL
<1>2. CASE "strdup" \notin Faults
  <2>1. CountExact /\ TombstonesCounted => CountersTrusted
    BY DEF CountersTrusted
  <2>2. Spec => []CountExact
    BY <1>2, CountCorrect
  <2> QED
    BY <2>1, <2>2, TombstonesCorrect, PTL
<1> QED
  BY <1>1, <1>2

-------------------------------------------------------------------------------
(* Load, when no array allocation fails *)

LEMMA LoadArithmetic ==
  ASSUME NEW n \in Nat, NEW m \in Nat, NEW c \in Nat
  PROVE  /\ 0 * Unit <= c * EMBIGGEN_THRESHOLD
         /\ (0 + 0) * Unit <= c * EMBIGGEN_THRESHOLD
         /\ /\ n * Unit <= c * EMBIGGEN_THRESHOLD
            /\ m \in {n + 1, n - 1}
            => (m - 1) * Unit <= c * EMBIGGEN_THRESHOLD
         /\ /\ n * Unit <= c * EMBIGGEN_THRESHOLD
            /\ m <= n
            => (m + 0) * Unit <= c * EMBIGGEN_THRESHOLD
BY SMT DEF Unit, EMBIGGEN_THRESHOLD

\* Half-way through a call num_entries may be one above what the capacity
\* bears; the capacity resize_table computes bears it again.
LoadInv ==
  /\ pc = "idle" => LoadBounded /\ numEntries * Unit <= cap * EMBIGGEN_THRESHOLD
  /\ pc = "resize" => (numEntries - 1) * Unit <= cap * EMBIGGEN_THRESHOLD
  /\ pc = "rehash" => numEntries * Unit <= newCap * EMBIGGEN_THRESHOLD

BaseInv == TypedAndCounted /\ FloorInv /\ TombInv

LEMMA NextLoad ==
  ASSUME "calloc" \notin Faults, MinCapacity >= 8, BaseInv, BaseInv', LoadInv, [Next]_vars
  PROVE  LoadInv'
<1>1. /\ cap \in Nat /\ numEntries \in Nat /\ numTombstones \in Nat /\ minCap \in Nat
      /\ cap' \in Nat /\ numEntries' \in Nat
      /\ Cardinality(Live(entries, cap)) \in Nat
      /\ Cardinality(Tombstones(entries, cap)) \in Nat
      /\ Cardinality(Live(entries', cap')) \in Nat
      /\ Cardinality(Live(entries, cap)) <= numEntries
      /\ Cardinality(Live(entries', cap')) <= numEntries'
      /\ Cardinality(Tombstones(entries, cap)) <= numTombstones
  BY LiveFinite, TombstonesFinite
  DEF BaseInv, TypedAndCounted, TypeOK, Counted, TombInv, TombstonesCounted
<1>2. CASE Create
  <2>1. /\ cap' \in Nat /\ entries' = EmptyArray(cap') /\ pc' = "idle" /\ numEntries' = 0
    BY <1>2, SizeAssumption DEF Create, counters, BaseInv, TypedAndCounted, Counted
  <2>2. /\ Cardinality(Live(entries', cap')) = 0
        /\ Cardinality(Tombstones(entries', cap')) = 0
    BY <2>1, EmptyIsEmpty, EmptyTombstones
  <2>3. 0 * Unit <= cap' * EMBIGGEN_THRESHOLD /\ (0 + 0) * Unit <= cap' * EMBIGGEN_THRESHOLD
    BY <2>1, LoadArithmetic
  <2>4. LoadBounded'
    BY <2>2, <2>3 DEF LoadBounded
  <2> QED
    BY <2>1, <2>3, <2>4 DEF LoadInv
<1>3. CASE pc = "idle" /\ pc' = "resize" /\ cap' = cap /\ numEntries' \in {numEntries + 1, numEntries - 1}
  <2>1. numEntries * Unit <= cap * EMBIGGEN_THRESHOLD
    BY <1>3 DEF LoadInv
  <2>2. (numEntries' - 1) * Unit <= cap * EMBIGGEN_THRESHOLD
    BY <1>1, <1>3, <2>1, LoadArithmetic
  <2> QED
    BY <1>3, <2>2 DEF LoadInv
<1>4. CASE ResizeKeeps
  <2>1. /\ pc' = "idle" /\ UNCHANGED <<entries, cap, numEntries>>
        /\ (numEntries + numTombstones) * Unit <= cap * EMBIGGEN_THRESHOLD
    BY <1>4 DEF ResizeKeeps, KeepsArray, WellFilled, counters
  <2>2. numEntries * Unit <= cap * EMBIGGEN_THRESHOLD
    BY <1>1, <2>1, SMT DEF Unit, EMBIGGEN_THRESHOLD
  <2>3. (Cardinality(Live(entries, cap)) + Cardinality(Tombstones(entries, cap))) * Unit
          <= cap * EMBIGGEN_THRESHOLD
    BY <1>1, <2>1, SMT DEF Unit, EMBIGGEN_THRESHOLD
  <2>4. LoadBounded'
    BY <2>1, <2>3 DEF LoadBounded
  <2> QED
    BY <2>1, <2>2, <2>4 DEF LoadInv
<1>5. CASE ResizeBegins
  <2>1. /\ pc = "resize" /\ pc' = "rehash" /\ numEntries' = numEntries
        /\ newCap' = NewCapacity(numEntries, minCap, cap)
    BY <1>5 DEF ResizeBegins, counters
  <2>2. cap >= minCap /\ cap >= 8
    BY <1>1, <2>1, SizeAssumption DEF BaseInv, FloorInv
  <2>3. (numEntries - 1) * Unit <= cap * EMBIGGEN_THRESHOLD
    BY <2>1 DEF LoadInv
  <2>4. numEntries * Unit <= newCap' * EMBIGGEN_THRESHOLD
    BY <1>1, <2>1, <2>2, <2>3, NewCapacityFits, SMT
  <2> QED
    BY <2>1, <2>4 DEF LoadInv
<1>6. CASE RehashSkips \/ RehashCopies
  <2>1. pc = "rehash" /\ UNCHANGED <<pc, numEntries, newCap>>
    BY <1>6 DEF RehashSkips, RehashCopies, counters
  <2> QED
    BY <2>1 DEF LoadInv
<1>7. CASE RehashInstalls
  <2>1. /\ pc = "rehash" /\ pc' = "idle" /\ entries' = newEntries /\ cap' = newCap
        /\ numEntries' = numEntries
    BY <1>7 DEF RehashInstalls, counters
  <2>2. numEntries' * Unit <= cap' * EMBIGGEN_THRESHOLD
    BY <2>1 DEF LoadInv
  <2>3. Cardinality(Tombstones(entries', cap')) = 0
    BY <2>1, FS_EmptySet DEF BaseInv, TombInv
  <2>4. LoadBounded'
    BY <1>1, <2>1, <2>2, <2>3, SMT DEF LoadBounded, Unit, EMBIGGEN_THRESHOLD
  <2> QED
    BY <2>1, <2>2, <2>4 DEF LoadInv
<1>8. CASE pc' \notin {"idle", "resize", "rehash"}
  BY <1>8 DEF LoadInv
<1>9. CASE pc = "idle" /\ pc' = "idle" /\ UNCHANGED <<entries, cap, numEntries>>
  BY <1>9 DEF LoadInv, LoadBounded
<1>10. CASE UNCHANGED vars
  BY <1>10 DEF vars, counters, resizing, LoadInv, LoadBounded
<1>11. ASSUME NEW k \in Keys,
              \/ AddDuplicate(k) \/ Get(k) \/ RemoveAbsent(k) \/ Spin(k)
              \/ RemovePresent(k) \/ \E d \in Data : AddNew(k, d)
       PROVE  LoadInv'
  <2>1. CASE AddDuplicate(k) \/ Get(k) \/ RemoveAbsent(k)
    BY <2>1, <1>9 DEF AddDuplicate, Get, RemoveAbsent, counters
  <2>2. CASE Spin(k)
    BY <2>2, <1>8 DEF Spin
  <2>3. CASE RemovePresent(k) \/ \E d \in Data : AddNew(k, d)
    BY <2>3, <1>3 DEF RemovePresent, AddNew, Bury
  <2> QED
    BY <1>11, <2>1, <2>2, <2>3
<1>12. CASE RemoveNext
  BY <1>12, <1>3 DEF RemoveNext, Bury
<1>13. CASE NoEntriesLeft
  BY <1>13, <1>9 DEF NoEntriesLeft, counters
<1>14. CASE RemoveNextOverruns \/ Destroy \/ CreateFails
  BY <1>14, <1>8 DEF RemoveNextOverruns, Destroy, CreateFails
<1>15. ~ ResizeFails
  BY DEF ResizeFails
<1> QED
  BY <1>2, <1>4, <1>5, <1>6, <1>7, <1>10, <1>11, <1>12, <1>13, <1>14, <1>15 DEF Next, ResizeStep

LEMMA BaseInvariant == Spec => []BaseInv
<1>1. Init => BaseInv
  BY InitTyped, InitTombs DEF Init, BaseInv, FloorInv
<1>2. BaseInv /\ [Next]_vars => BaseInv'
  BY NextTyped, NextFloor, NextTombs DEF BaseInv
<1> QED
  BY <1>1, <1>2, PTL DEF Spec

\* With the floor of the code and no failing allocation of an array, between
\* calls at most two thirds of the slots are in use, for every hash function and
\* every sequence of calls: probes are short, and always end.
THEOREM LoadCorrect ==
  ASSUME "calloc" \notin Faults, MinCapacity >= 8
  PROVE  Spec => []LoadBounded
<1>1. Init => LoadInv
  BY DEF Init, LoadInv
<1>2. BaseInv /\ BaseInv' /\ LoadInv /\ [Next]_vars => LoadInv'
  BY NextLoad
<1>3. LoadInv => LoadBounded
  BY DEF LoadInv, LoadBounded
<1> QED
  BY BaseInvariant, <1>1, <1>2, <1>3, PTL DEF Spec

\* The sizes: the load stays below its bound and the capacity above the floor.
THEOREM SizesCorrect ==
  ASSUME "calloc" \notin Faults, MinCapacity >= 8
  PROVE  Spec => []SizesBounded
<1>1. LoadBounded /\ CapacityFloor => SizesBounded
  BY DEF SizesBounded
<1> QED
  BY <1>1, LoadCorrect, FloorCorrect, PTL

-------------------------------------------------------------------------------
(* Every loop ends *)

\* Under the load limit some slot is null.
LEMMA RoomLeft ==
  ASSUME NEW c \in Nat, c > 0, NEW array \in [Slots(c) -> Slot],
         (Cardinality(Live(array, c)) + Cardinality(Tombstones(array, c))) * Unit
           <= c * EMBIGGEN_THRESHOLD
  PROVE  \E s \in Slots(c) : array[s].key = NULL
<1> SUFFICES ASSUME \A s \in Slots(c) : array[s].key # NULL PROVE FALSE
  OBVIOUS
<1> DEFINE l == Cardinality(Live(array, c))
           t == Cardinality(Tombstones(array, c))
<1>1. \A s \in Slots(c) : array[s].key \in Keys \/ array[s].key = TOMBSTONE_KEY
  BY DEF Slot
<1>2. Slots(c) = Live(array, c) \cup Tombstones(array, c)
  BY <1>1 DEF Live, Tombstones
<1>3. Live(array, c) \cap Tombstones(array, c) = {}
  BY KeysAssumption DEF Live, Tombstones
<1>4. Cardinality(Slots(c)) = c
  BY FS_Interval
<1>5. Cardinality(Live(array, c) \cap Tombstones(array, c)) = 0
  BY <1>3, FS_EmptySet
<1>6. l \in Nat /\ t \in Nat
  BY LiveFinite, TombstonesFinite
<1>7. Cardinality(Live(array, c) \cup Tombstones(array, c)) = l + t - 0
  BY <1>5, LiveFinite, TombstonesFinite, FS_Union
<1> HIDE DEF l, t
<1>8. c = l + t - 0
  BY <1>2, <1>4, <1>7
<1>9. (l + t) * Unit <= c * EMBIGGEN_THRESHOLD
  BY DEF l, t
<1> QED
  BY <1>6, <1>8, <1>9, SMT DEF Unit, EMBIGGEN_THRESHOLD

\* Without failing allocations, between calls every search ends and ht_rem_next
\* finds the entry that num_entries promises.
LEMMA NextNeverStuck ==
  ASSUME Faults = {}, MinCapacity >= 8, BaseInv, BaseInv', LoadInv, LoadInv', NeverStuck, [Next]_vars
  PROVE  NeverStuck'
<1>1. /\ cap \in Nat /\ entries \in [Slots(cap) -> Slot]
      /\ newCap' \in Nat /\ newEntries' \in [Slots(newCap') -> Slot]
      /\ numEntries = Cardinality(Live(entries, cap))
  BY DEF BaseInv, TypedAndCounted, TypeOK, Counted
<1>2. ASSUME NEW k \in Keys, Spin(k) PROVE FALSE
  <2>1. pc = "idle" /\ cap > 0
    BY <1>1, <1>2, SizeAssumption DEF Spin, BaseInv, FloorInv, TypedAndCounted, TypeOK
  <2>2. \E s \in Slots(cap) : entries[s].key = NULL
    BY <1>1, <2>1, RoomLeft DEF LoadInv, LoadBounded
  <2> QED
    BY <1>2, <2>2 DEF Spin, NeverStops
<1>3. ~ RemoveNextOverruns
  <2> SUFFICES ASSUME RemoveNextOverruns PROVE FALSE
    OBVIOUS
  <2>1. Live(entries, cap) = {}
    BY DEF RemoveNextOverruns, Live
  <2> QED
    BY <1>1, <2>1, FS_EmptySet DEF RemoveNextOverruns
<1>4. pc' \notin {"spinning", "overrun"}
  BY <1>2, <1>3 DEF Next, ResizeStep, Create, CreateFails, AddDuplicate, AddNew, Get,
     RemovePresent, RemoveAbsent, Bury, RemoveNext, NoEntriesLeft, Destroy, ResizeKeeps,
     ResizeFails, ResizeBegins, RehashSkips, RehashCopies, RehashInstalls, NeverStuck, vars
<1>5. ASSUME pc' = "rehash" PROVE \E s \in Slots(newCap') : newEntries'[s].key = NULL
  <2> DEFINE l == Cardinality(Live(newEntries', newCap'))
             t == Cardinality(Tombstones(newEntries', newCap'))
  <2>1. l <= numEntries' /\ l \in Nat /\ numEntries' \in Nat
    <3>1. l = Cardinality(Scanned') /\ Cardinality(Live(entries', cap')) <= numEntries'
      BY <1>5 DEF BaseInv, TypedAndCounted, Counted
    <3>2. Cardinality(Scanned') <= Cardinality(Live(entries', cap'))
      <4>1. cap' \in Nat
        BY DEF BaseInv, TypedAndCounted, TypeOK
      <4>2. IsFiniteSet(Live(entries', cap'))
        BY <4>1, LiveFinite
      <4> QED
        BY <4>2, FS_Subset DEF Scanned
    <3>3. cap' \in Nat /\ Cardinality(Live(entries', cap')) \in Nat /\ l \in Nat /\ numEntries' \in Nat
      BY <1>1, LiveFinite DEF BaseInv, TypedAndCounted, TypeOK
    <3> QED
      BY <3>1, <3>2, <3>3
  <2>2. t = 0
    BY <1>5, FS_EmptySet DEF BaseInv, TombInv
  <2>3. numEntries' * Unit <= newCap' * EMBIGGEN_THRESHOLD
    BY <1>5 DEF LoadInv
  <2>4. newCap' > 0
    BY <1>1, <1>5, SizeAssumption DEF BaseInv, FloorInv, TypedAndCounted, TypeOK
  <2> HIDE DEF l, t
  <2>5. (l + t) * Unit <= newCap' * EMBIGGEN_THRESHOLD
    BY <1>1, <2>1, <2>2, <2>3, LoadArithmetic
  <2> QED
    BY <1>1, <2>4, <2>5, RoomLeft DEF l, t
<1> QED
  BY <1>4, <1>5 DEF NeverStuck

\* Without failing allocations no probe loop of hashtable.c ever runs for ever and
\* ht_rem_next never leaves its array, for every hash function.
THEOREM NeverStuckCorrect ==
  ASSUME Faults = {}, MinCapacity >= 8
  PROVE  Spec => []NeverStuck
<1>1. Init => LoadInv /\ NeverStuck
  BY DEF Init, LoadInv, NeverStuck
<1>2. BaseInv /\ BaseInv' /\ LoadInv /\ [Next]_vars => LoadInv'
  BY NextLoad
<1>3. BaseInv /\ BaseInv' /\ LoadInv /\ LoadInv' /\ NeverStuck /\ [Next]_vars => NeverStuck'
  BY NextNeverStuck
<1> QED
  BY BaseInvariant, <1>1, <1>2, <1>3, PTL DEF Spec

-------------------------------------------------------------------------------
(* Implementation of KeyMap *)

\* Where keys are unique, the contents give every stored key the data beside it.
LEMMA ContentsAt ==
  ASSUME NEW c \in Nat, NEW array, NoDuplicates(array, c)
  PROVE  /\ DOMAIN ContentsOf(array, c) = KeysIn(array, c)
         /\ \A s \in Live(array, c) :
              /\ array[s].key \in KeysIn(array, c)
              /\ ContentsOf(array, c)[array[s].key] = array[s].data
<1>1. ASSUME NEW s \in Live(array, c) PROVE SlotOf(array, c, array[s].key) = s
  <2> DEFINE u == SlotOf(array, c, array[s].key)
  <2>1. s \in Slots(c) /\ array[s].key \in Keys
    BY DEF Live
  <2>2. u \in Slots(c) /\ array[u].key = array[s].key
    BY <2>1 DEF SlotOf
  <2>3. u \in Live(array, c)
    BY <2>1, <2>2 DEF Live
  <2> QED
    BY <2>2, <2>3 DEF NoDuplicates
<1> QED
  BY <1>1 DEF ContentsOf, KeysIn

\* Two arrays that hold the same entries have the same contents.
LEMMA SameContents ==
  ASSUME NEW c \in Nat, NEW array, NoDuplicates(array, c),
         NEW c2 \in Nat, NEW array2, NoDuplicates(array2, c2),
         \A s \in Live(array, c) : \E t \in Live(array2, c2) : array2[t] = array[s],
         \A t \in Live(array2, c2) : \E s \in Live(array, c) : array2[t] = array[s]
  PROVE  ContentsOf(array2, c2) = ContentsOf(array, c)
<1>1. KeysIn(array2, c2) = KeysIn(array, c)
  BY DEF KeysIn
<1>2. ASSUME NEW k \in KeysIn(array, c)
      PROVE  ContentsOf(array2, c2)[k] = ContentsOf(array, c)[k]
  <2>1. PICK s \in Live(array, c) : array[s].key = k
    BY DEF KeysIn
  <2>2. PICK t \in Live(array2, c2) : array2[t] = array[s]
    BY <2>1
  <2> QED
    BY <2>1, <2>2, ContentsAt
<1> QED
  BY <1>1, <1>2 DEF ContentsOf

LEMMA ContentsStored ==
  ASSUME NEW c \in Nat, NEW array \in [Slots(c) -> Slot], NEW e \in Slot, e.key \in Keys,
         NEW s \in Slots(c), array[s].key = NULL,
         NoDuplicates(array, c), NoDuplicates([array EXCEPT ![s] = e], c)
  PROVE  ContentsOf([array EXCEPT ![s] = e], c) =
           [j \in KeysIn(array, c) \cup {e.key} |->
              IF j = e.key THEN e.data ELSE ContentsOf(array, c)[j]]
<1> DEFINE new == [array EXCEPT ![s] = e]
<1>1. new[s] = e /\ \A t \in Live(array, c) : new[t] = array[t]
  BY KeysAssumption DEF Live
<1>2. Live(new, c) = Live(array, c) \cup {s}
  BY StoreAddsOne, KeysAssumption
<1>3. NoDuplicates(new, c)
  OBVIOUS
<1> HIDE DEF new
<1>4. KeysIn(new, c) = KeysIn(array, c) \cup {e.key}
  BY <1>1, <1>2 DEF KeysIn
<1>5. ContentsOf(new, c)[e.key] = e.data
  BY <1>1, <1>2, <1>3, ContentsAt
<1>6. ASSUME NEW k \in KeysIn(array, c) PROVE ContentsOf(new, c)[k] = ContentsOf(array, c)[k]
  <2>1. PICK t \in Live(array, c) : array[t].key = k
    BY DEF KeysIn
  <2> QED
    BY <1>1, <1>2, <1>3, <2>1, ContentsAt
<1>7. ContentsOf(new, c) = [j \in KeysIn(new, c) |-> ContentsOf(new, c)[j]]
  BY DEF ContentsOf
<1> QED
  BY <1>4, <1>5, <1>6, <1>7 DEF new

LEMMA ContentsBuried ==
  ASSUME NEW c \in Nat, NEW array \in [Slots(c) -> Slot], NEW s \in Live(array, c),
         NEW e \in Slot, e.key = TOMBSTONE_KEY,
         NoDuplicates(array, c), NoDuplicates([array EXCEPT ![s] = e], c)
  PROVE  ContentsOf([array EXCEPT ![s] = e], c) =
           [j \in KeysIn(array, c) \ {array[s].key} |-> ContentsOf(array, c)[j]]
<1> DEFINE new == [array EXCEPT ![s] = e]
<1>1. \A t \in Live(array, c) : t # s => new[t] = array[t]
  BY DEF Live
<1>2. Live(new, c) = Live(array, c) \ {s}
  BY EraseRemovesOne, KeysAssumption
<1>3. NoDuplicates(new, c)
  OBVIOUS
<1> HIDE DEF new
<1>4. KeysIn(new, c) = KeysIn(array, c) \ {array[s].key}
  BY <1>1, <1>2 DEF KeysIn, NoDuplicates
<1>5. ASSUME NEW k \in KeysIn(new, c) PROVE ContentsOf(new, c)[k] = ContentsOf(array, c)[k]
  <2>1. PICK t \in Live(new, c) : new[t].key = k
    BY DEF KeysIn
  <2> QED
    BY <1>1, <1>2, <1>3, <2>1, ContentsAt
<1>6. ContentsOf(new, c) = [j \in KeysIn(new, c) |-> ContentsOf(new, c)[j]]
  BY DEF ContentsOf
<1> QED
  BY <1>4, <1>5, <1>6 DEF new

\* Once ht_rem_next has found the table empty, it is, until the next call.
Drained ==
  /\ result.op = "ht_rem_next" /\ result.status = "HT_E_NO_ENTRIES_LEFT"
       => numEntries = 0
  /\ result.op # "ht_rem_next" => result.status # "HT_E_NO_ENTRIES_LEFT"

LEMMA NextDrained == TypedAndCounted /\ Drained /\ [Next]_vars => Drained'
<1> SUFFICES ASSUME TypedAndCounted, Drained, [Next]_vars PROVE Drained'
  OBVIOUS
<1>1. CASE result' = result /\ numEntries' = numEntries
  BY <1>1 DEF Drained
<1>2. ASSUME NEW k \in Keys,
             \/ AddDuplicate(k) \/ Get(k) \/ RemoveAbsent(k)
             \/ RemovePresent(k) \/ \E d \in Data : AddNew(k, d)
      PROVE  Drained'
  BY <1>2 DEF AddDuplicate, Get, RemoveAbsent, RemovePresent, AddNew, Bury, Returns, Drained
<1>3. CASE Create \/ CreateFails \/ RemoveNext \/ NoEntriesLeft \/ Destroy
  BY <1>3 DEF Create, CreateFails, RemoveNext, NoEntriesLeft, Destroy, Bury, Returns, Drained, counters
<1>4. CASE ResizeFails
  BY <1>4 DEF ResizeFails, Drained, TypedAndCounted, TypeOK
<1>5. ASSUME NEW k \in Keys, Spin(k) PROVE Drained'
  BY <1>5, <1>1 DEF Spin, counters
<1>6. CASE \/ RemoveNextOverruns \/ ResizeKeeps \/ ResizeBegins
           \/ RehashSkips \/ RehashCopies \/ RehashInstalls
  BY <1>6, <1>1 DEF RemoveNextOverruns, ResizeKeeps, ResizeBegins, RehashSkips,
     RehashCopies, RehashInstalls, counters
<1>7. CASE UNCHANGED vars
  BY <1>7, <1>1 DEF vars, counters
<1> QED
  BY <1>2, <1>3, <1>4, <1>5, <1>6, <1>7 DEF Next, ResizeStep

LEMMA NoContents ==
  ASSUME NEW c \in Nat, NEW array, NEW n \in Nat, Cardinality(Live(array, c)) <= n, n = 0
  PROVE  KeysIn(array, c) = {} /\ DOMAIN ContentsOf(array, c) = {}
<1>1. Cardinality(Live(array, c)) = 0 /\ IsFiniteSet(Live(array, c))
  BY LiveFinite
<1>2. Live(array, c) = {}
  BY <1>1, FS_EmptySet
<1> QED
  BY <1>2 DEF KeysIn, ContentsOf

\* The table is empty when num_entries is zero.
LEMMA EmptyWhenNone ==
  ASSUME TypedAndCounted, numEntries = 0
  PROVE  StoredKeys = {} /\ DOMAIN Contents = {}
BY NoContents DEF TypedAndCounted, TypeOK, Counted, StoredKeys, Contents

\* Steps of resize_table, and of a search or a removal that goes astray.
LEMMA ResizeIsInvisible ==
  ASSUME TypedAndCounted, ProbeInv, ProbeInv',
         \/ ResizeKeeps \/ ResizeFails \/ ResizeBegins
         \/ RehashSkips \/ RehashCopies \/ RehashInstalls
  PROVE  Contents' = Contents
<1>1. CASE UNCHANGED <<entries, cap>>
  BY <1>1 DEF Contents, ContentsOf, KeysIn, Live, SlotOf
<1>2. CASE RehashInstalls
  <2>1. /\ entries' = newEntries /\ cap' = newCap /\ pc = "rehash"
        /\ cap \in Nat /\ newCap \in Nat
    BY <1>2 DEF RehashInstalls, TypedAndCounted, TypeOK
  <2>2. Scanned = Live(entries, cap)
    BY <1>2, <2>1 DEF RehashInstalls, Scanned, Live
  <2>3. /\ \A t \in Live(newEntries, newCap) : \E s \in Live(entries, cap) : newEntries[t] = entries[s]
        /\ \A s \in Live(entries, cap) : \E t \in Live(newEntries, newCap) : newEntries[t] = entries[s]
        /\ NoDuplicates(entries, cap) /\ NoDuplicates(newEntries, newCap)
    BY <2>1, <2>2 DEF ProbeInv, CopiesFaithful, UniqueKeys
  <2>4. ContentsOf(newEntries, newCap) = ContentsOf(entries, cap)
    BY <2>1, <2>3, SameContents
  <2> QED
    BY <2>1, <2>4 DEF Contents
<1> QED
  BY <1>1, <1>2 DEF ResizeKeeps, ResizeFails, ResizeBegins, RehashSkips, RehashCopies

\* A resize, whether it fails or not, changes nothing its callers can see.
THEOREM ResizeCorrect == Spec => ResizeKeepsContents
<1>1. TypedAndCounted /\ ProbeInv /\ ProbeInv' /\ [Next]_vars
        => ((pc \in {"resize", "rehash"}) => Contents' = Contents)
  <2> SUFFICES ASSUME TypedAndCounted, ProbeInv, ProbeInv', [Next]_vars, pc \in {"resize", "rehash"}
               PROVE  Contents' = Contents
    OBVIOUS
  <2>1. CASE UNCHANGED vars
    BY <2>1 DEF vars, Contents, ContentsOf, KeysIn, Live, SlotOf
  <2>2. CASE ResizeStep
    BY <2>2, ResizeIsInvisible DEF ResizeStep
  <2>3. Next => ResizeStep
    BY DEF Next, Create, CreateFails, AddDuplicate, AddNew, Get, RemovePresent,
       RemoveAbsent, Spin, RemoveNext, NoEntriesLeft, RemoveNextOverruns, Destroy
  <2> QED
    BY <2>1, <2>2, <2>3
<1> QED
  BY InitTyped, NextTyped, InitProbes, NextProbes, <1>1, PTL DEF Spec, ResizeKeepsContents

Resident == TypedAndCounted /\ ProbeInv /\ Drained

\* What a search tells about the contents.
LEMMA SearchFinds ==
  ASSUME Resident, NEW s \in Slots(cap), entries[s].key \in Keys
  PROVE  /\ entries[s].key \in DOMAIN Contents
         /\ Contents[entries[s].key] = entries[s].data
         /\ DOMAIN Contents = StoredKeys
<1>1. cap \in Nat /\ NoDuplicates(entries, cap) /\ s \in Live(entries, cap)
  BY DEF Resident, TypedAndCounted, TypeOK, ProbeInv, UniqueKeys, Live
<1> QED
  BY <1>1, ContentsAt DEF Contents, StoredKeys

LEMMA SearchFails ==
  ASSUME Resident, NEW k \in Keys, NEW s \in Slots(cap),
         StopsAt(entries, cap, k, {NULL, k}, s), entries[s].key = NULL
  PROVE  k \notin DOMAIN Contents
<1>1. /\ cap \in Nat /\ entries \in [Slots(cap) -> Slot]
      /\ NoDuplicates(entries, cap) /\ ChainsUnbroken(entries, cap)
  BY DEF Resident, TypedAndCounted, TypeOK, ProbeInv, UniqueKeys, KeysReachable
<1>2. \A t \in Live(entries, cap) : entries[t].key # k
  BY <1>1, AbsentWhereSearchEnds
<1> QED
  BY <1>2 DEF Contents, ContentsOf, KeysIn

LEMMA SameArraySameContents ==
  ASSUME UNCHANGED <<entries, cap>> PROVE Contents' = Contents
BY DEF Contents, ContentsOf, KeysIn, Live, SlotOf

LEMMA AddImplements ==
  ASSUME Faults = {}, Resident, Resident', NEW k \in Keys, NEW d \in Data, AddNew(k, d)
  PROVE  Abstract!Add(k, d)
<1>1. PICK s \in Slots(cap) :
        /\ StopsAt(entries, cap, k, {NULL, k}, s)
        /\ entries[s].key = NULL
        /\ entries' = [entries EXCEPT ![s] = [key |-> k, data |-> d]]
  BY DEF AddNew
<1>2. /\ cap \in Nat /\ entries \in [Slots(cap) -> Slot] /\ cap' = cap
      /\ NoDuplicates(entries, cap) /\ NoDuplicates(entries', cap)
  BY DEF Resident, TypedAndCounted, TypeOK, ProbeInv, UniqueKeys, AddNew
<1>3. k \notin DOMAIN Contents
  BY <1>1, SearchFails
<1> DEFINE e == [key |-> k, data |-> d]
<1>4. e \in Slot /\ e.key = k /\ e.data = d
  BY DEF Slot
<1> HIDE DEF e
<1>5. NoDuplicates([entries EXCEPT ![s] = e], cap)
  BY <1>1, <1>2 DEF e
<1>6. ContentsOf([entries EXCEPT ![s] = e], cap) =
        [j \in KeysIn(entries, cap) \cup {e.key} |->
           IF j = e.key THEN e.data ELSE ContentsOf(entries, cap)[j]]
  BY <1>1, <1>2, <1>4, <1>5, ContentsStored
<1>7. Contents' = ContentsOf([entries EXCEPT ![s] = e], cap)
  BY <1>1, <1>2 DEF Contents, e
<1>8. DOMAIN Contents = KeysIn(entries, cap)
  BY DEF Contents, ContentsOf
<1>9. Contents' = [j \in DOMAIN Contents \cup {k} |-> IF j = k THEN d ELSE Contents[j]]
  BY <1>4, <1>6, <1>7, <1>8 DEF Contents
<1> QED
  BY <1>3, <1>9 DEF Abstract!Add, Abstract!With, Abstract!Returns, AddNew, Returns

LEMMA BuryImplements ==
  ASSUME Resident, Resident', pc = "idle", NEW op, NEW s \in Live(entries, cap), Bury(op, s)
  PROVE  /\ entries[s].key \in DOMAIN Contents
         /\ Contents' = Abstract!Without(entries[s].key)
         /\ Abstract!Returns(op, entries[s].key, "HT_OK", Contents[entries[s].key])
<1>1. s \in Slots(cap) /\ entries[s].key \in Keys
  BY DEF Live
<1>2. /\ cap \in Nat /\ entries \in [Slots(cap) -> Slot] /\ cap' = cap
      /\ NoDuplicates(entries, cap) /\ NoDuplicates(entries', cap)
  BY DEF Resident, TypedAndCounted, TypeOK, ProbeInv, UniqueKeys, Bury
<1>3. /\ entries[s].key \in DOMAIN Contents
      /\ Contents[entries[s].key] = entries[s].data
      /\ DOMAIN Contents = KeysIn(entries, cap)
  BY <1>1, SearchFinds DEF StoredKeys
<1>4. Buried(s) \in Slot /\ Buried(s).key = TOMBSTONE_KEY
  BY <1>1, <1>2 DEF Buried, Slot
<1>5. entries' = [entries EXCEPT ![s] = Buried(s)]
  BY DEF Bury
<1>6. ContentsOf(entries', cap) =
        [j \in KeysIn(entries, cap) \ {entries[s].key} |-> ContentsOf(entries, cap)[j]]
  BY <1>2, <1>4, <1>5, ContentsBuried, ZenonT(60)
<1>7. Contents' = Abstract!Without(entries[s].key)
  BY <1>2, <1>3, <1>6 DEF Contents, Abstract!Without
<1>8. result' = [op |-> op, key |-> entries[s].key, status |-> "HT_OK", data |-> Contents[entries[s].key]]
  BY <1>3 DEF Bury, Returns
<1> QED
  BY <1>3, <1>7, <1>8 DEF Abstract!Returns

LEMMA NextImplements ==
  ASSUME Faults = {}, Resident, Resident', [Next]_vars
  PROVE  [Abstract!Next]_(Abstract!vars)
<1> USE DEF Abstract!vars
<1>1. CASE Create
  <2>1. numEntries = 0 /\ numEntries' = 0
    BY <1>1 DEF Create, Resident, TypedAndCounted, Counted, counters
  <2>2. DOMAIN Contents = {} /\ DOMAIN Contents' = {}
    BY <2>1, NoContents DEF Resident, TypedAndCounted, TypeOK, Counted, Contents
  <2>3. Contents' = Contents
    BY <2>2 DEF Contents, ContentsOf
  <2> QED
    BY <1>1, <2>2, <2>3 DEF Create, Returns, Abstract!Next, Abstract!Create, Abstract!Returns, Abstract!IsEmpty
<1>2. ~ CreateFails /\ ~ ResizeFails
  BY DEF CreateFails, ResizeFails
<1>3. ASSUME NEW k \in Keys, AddDuplicate(k) PROVE Abstract!Next
  <2>1. k \in DOMAIN Contents
    BY <1>3, SearchFinds DEF AddDuplicate
  <2>2. Contents' = Contents
    BY <1>3, SameArraySameContents DEF AddDuplicate
  <2>3. Abstract!Refuse(k)
    BY <1>3, <2>1, <2>2 DEF AddDuplicate, Returns, Abstract!Refuse, Abstract!Returns
  <2> QED
    BY <2>3 DEF Abstract!Next
<1>4. ASSUME NEW k \in Keys, NEW d \in Data, AddNew(k, d) PROVE Abstract!Next
  BY <1>4, AddImplements DEF Abstract!Next
<1>5. ASSUME NEW k \in Keys, Get(k) PROVE Abstract!Next
  <2>1. PICK s \in Slots(cap) :
          /\ StopsAt(entries, cap, k, {NULL, k}, s)
          /\ \/ /\ entries[s].key = k
                /\ Returns("ht_get", k, "HT_OK", entries[s].data)
             \/ /\ entries[s].key = NULL
                /\ Returns("ht_get", k, "HT_E_KEY_NOT_PRESENT", NoData)
    BY <1>5 DEF Get
  <2>2. Contents' = Contents
    BY <1>5, SameArraySameContents DEF Get
  <2>3. Abstract!Get(k)
    BY <2>1, <2>2, SearchFinds, SearchFails DEF Returns, Abstract!Get, Abstract!Returns
  <2> QED
    BY <2>3 DEF Abstract!Next
<1>6. ASSUME NEW k \in Keys, RemovePresent(k) PROVE Abstract!Next
  <2>1. PICK s \in Live(entries, cap) : Bury("ht_rem", s) /\ entries[s].key = k
    BY <1>6 DEF RemovePresent, Live
  <2>2. Abstract!Remove(k)
    BY <1>6, <2>1, BuryImplements DEF RemovePresent, Bury, Returns, Abstract!Remove, Abstract!Returns
  <2> QED
    BY <2>2 DEF Abstract!Next
<1>7. ASSUME NEW k \in Keys, RemoveAbsent(k) PROVE Abstract!Next
  <2>1. k \notin DOMAIN Contents
    BY <1>7, SearchFails DEF RemoveAbsent
  <2>2. Contents' = Contents
    BY <1>7, SameArraySameContents DEF RemoveAbsent
  <2>3. Abstract!Remove(k)
    BY <1>7, <2>1, <2>2 DEF RemoveAbsent, Returns, Abstract!Remove, Abstract!Returns
  <2> QED
    BY <2>3 DEF Abstract!Next
<1>8. ASSUME NEW k \in Keys, Spin(k) PROVE UNCHANGED <<Contents, result>>
  BY <1>8, SameArraySameContents DEF Spin
<1>9. CASE RemoveNext
  <2>1. PICK s \in Live(entries, cap) : Bury("ht_rem_next", s)
    BY <1>9 DEF RemoveNext, Live
  <2>2. Abstract!RemoveNext
    BY <1>9, <2>1, BuryImplements DEF RemoveNext, Bury, Returns, Abstract!RemoveNext, Abstract!Returns
  <2> QED
    BY <2>2 DEF Abstract!Next
<1>10. CASE NoEntriesLeft
  <2>1. DOMAIN Contents = {}
    BY <1>10, EmptyWhenNone DEF NoEntriesLeft, Resident
  <2>2. Contents' = Contents
    BY <1>10, SameArraySameContents DEF NoEntriesLeft
  <2> QED
    BY <1>10, <2>1, <2>2 DEF NoEntriesLeft, Returns, Abstract!Next, Abstract!RemoveNext,
       Abstract!Returns, Abstract!IsEmpty
<1>11. CASE RemoveNextOverruns
  BY <1>11, SameArraySameContents DEF RemoveNextOverruns
<1>12. CASE Destroy
  <2>1. numEntries = 0 /\ numEntries' = 0
    BY <1>12 DEF Destroy, Resident, Drained
  <2>2. DOMAIN Contents = {} /\ DOMAIN Contents' = {}
    BY <2>1, NoContents DEF Resident, TypedAndCounted, TypeOK, Counted, Contents
  <2>3. Contents' = Contents
    BY <2>2 DEF Contents, ContentsOf
  <2> QED
    BY <1>12, <2>2, <2>3 DEF Destroy, Returns, Abstract!Next, Abstract!Destroy, Abstract!Returns, Abstract!IsEmpty
<1>13. CASE ResizeStep
  <2>1. Contents' = Contents
    BY <1>2, <1>13, ResizeIsInvisible DEF ResizeStep, Resident
  <2>2. result' = result
    BY <1>2, <1>13 DEF ResizeStep, ResizeKeeps, ResizeBegins, RehashSkips, RehashCopies, RehashInstalls
  <2> QED
    BY <2>1, <2>2
<1>14. CASE UNCHANGED vars
  BY <1>14, SameArraySameContents DEF vars
<1> QED
  BY <1>1, <1>2, <1>3, <1>4, <1>5, <1>6, <1>7, <1>8, <1>9, <1>10, <1>11, <1>12, <1>13, <1>14
  DEF Next

\* Without failing allocations hashtable.c is a finite map: every call has the
\* effect and the result that KeyMap allows, for every hash function.
THEOREM Implements == ASSUME Faults = {} PROVE Spec => ImplementsKeyMap
<1>1. Init => Resident
  BY InitTyped, InitProbes DEF Init, Resident, Drained
<1>2. Resident /\ [Next]_vars => Resident'
  BY NextTyped, NextProbes, NextDrained DEF Resident
<1>3. Init => Abstract!Init
  <2> SUFFICES ASSUME Init PROVE Abstract!Init
    OBVIOUS
  <2>1. StoredKeys = {}
    BY InitTyped, EmptyWhenNone DEF Init
  <2>2. Contents = [k \in {} |-> NoData]
    BY <2>1 DEF Contents, ContentsOf, StoredKeys
  <2> QED
    BY <2>2 DEF Init, Abstract!Init
<1>4. Resident /\ Resident' /\ [Next]_vars => [Abstract!Next]_(Abstract!vars)
  BY NextImplements
<1> QED
  BY <1>1, <1>2, <1>3, <1>4, PTL DEF Spec, Abstract!Spec, ImplementsKeyMap
===============================================================================
