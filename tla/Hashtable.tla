------------------------------- MODULE Hashtable ------------------------------
(***************************************************************************)
(* assignment6/hashtable.c: the open-addressing hash table behind every    *)
(* DFS directory.  Linear probing, tombstones on removal, and a            *)
(* resize_table after every successful insertion and removal.              *)
(*                                                                         *)
(* A call is one action up to resize_table; resize_table is a decision     *)
(* step followed by one step per slot copied and the installation of the   *)
(* new array.  pc says where the (single) caller is, and no other call     *)
(* starts before it returns.                                               *)
(***************************************************************************)
EXTENDS Integers, FiniteSets

CONSTANTS
  Keys,           \* the names that occur
  Data,           \* the user-supplied pointers
  Hash,           \* XXH64 of every key, below SIZE_MAX: any function
  InitCapacity,   \* the capacity argument of ht_create (0 in dfs_create_dir)
  MinCapacity,    \* the floor ht_create puts under it (8 in the code)
  MaxTombstones,  \* bound: removals stop once num_tombstones reaches it
  Faults,         \* the allocations that may fail: a subset of Allocations
  NULL, TOMBSTONE_KEY, NoData

Allocations == {"calloc", "strdup"}

ASSUME KeysAssumption ==
  /\ NULL \notin Keys
  /\ TOMBSTONE_KEY \notin Keys
  /\ NULL # TOMBSTONE_KEY
  /\ NoData \notin Data

ASSUME HashAssumption == Hash \in [Keys -> Nat]

ASSUME SizeAssumption ==
  /\ InitCapacity \in Nat
  /\ MinCapacity \in Nat
  /\ MinCapacity >= 3
  /\ MaxTombstones \in Nat

ASSUME FaultsAssumption == Faults \subseteq Allocations

VARIABLES
  entries,        \* table->entries: slot -> [key, data]
  cap,            \* table->cap_entries
  minCap,         \* table->min_cap_entries
  numEntries,     \* table->num_entries
  numTombstones,  \* table->num_tombstones
  pc,             \* where the call in progress is
  result,         \* its key and what it returns, unless resize_table fails later
  newEntries,     \* resize_table: the array being filled
  newCap,         \* resize_table: new_cap_entries
  scan            \* resize_table: the loop index i

counters == <<numEntries, numTombstones>>
resizing == <<newEntries, newCap, scan>>
vars == <<entries, cap, minCap, counters, pc, result, resizing>>

Slots(c) == 0 .. c - 1
EmptySlot == [key |-> NULL, data |-> NoData]
EmptyArray(c) == [s \in Slots(c) |-> EmptySlot]

Returns(op, key, status, data) ==
  result' = [op |-> op, key |-> key, status |-> status, data |-> data]

-------------------------------------------------------------------------------
(* Probing *)

\* The slot where the search for k begins.
Home(k, c) == Hash[k] % c

\* How many times index = (index + 1) % c is taken from slot h to slot s.
Distance(h, s, c) == IF s >= h THEN s - h ELSE s - h + c

\* The probe loop for k, which ends on a key of stops, ends at slot s.
StopsAt(array, c, k, stops, s) ==
  /\ array[s].key \in stops
  /\ \A t \in Slots(c) :
       Distance(Home(k, c), t, c) < Distance(Home(k, c), s, c)
         => array[t].key \notin stops

\* The probe loop for k meets no key of stops: it never ends.
NeverStops(array, c, stops) == \A t \in Slots(c) : array[t].key \notin stops

-------------------------------------------------------------------------------
(* The thresholds of resize_table, in millionths *)

Unit == 1000000
EMBIGGEN_THRESHOLD == 666667
ENSMALLEN_THRESHOLD == 333333
GROWTH_FACTOR == 1414214

\* Mutant: shrinking without the floor.
EnsmallenNoFloor(n, m, c) == n * Unit < c * ENSMALLEN_THRESHOLD

Embiggen(n, c) == n * Unit > c * EMBIGGEN_THRESHOLD
Ensmallen(n, m, c) == n > m /\ n * Unit < c * ENSMALLEN_THRESHOLD
WellFilled(nonnull, c) ==
  nonnull * Unit <= c * EMBIGGEN_THRESHOLD /\ nonnull * Unit >= c * ENSMALLEN_THRESHOLD

NewCapacity(n, m, c) ==
  IF Embiggen(n, c) THEN (c * GROWTH_FACTOR) \div Unit
  ELSE IF Ensmallen(n, m, c) THEN (c * Unit) \div GROWTH_FACTOR
  ELSE c

KeepsArray ==
  /\ ~ Embiggen(numEntries, cap)
  /\ ~ Ensmallen(numEntries, minCap, cap)
  /\ WellFilled(numEntries + numTombstones, cap)

-------------------------------------------------------------------------------
Init ==
  /\ entries = EmptyArray(0)
  /\ cap = 0
  /\ minCap = 0
  /\ numEntries = 0
  /\ numTombstones = 0
  /\ pc = "destroyed"
  /\ result = [op |-> "none", key |-> NULL, status |-> "HT_OK", data |-> NoData]
  /\ newEntries = EmptyArray(0)
  /\ newCap = 0
  /\ scan = 0

Create ==
  /\ pc = "destroyed"
  /\ LET c == IF InitCapacity < MinCapacity THEN MinCapacity ELSE InitCapacity
     IN  /\ minCap' = c
         /\ cap' = c
         /\ entries' = EmptyArray(c)
  /\ pc' = "idle"
  /\ Returns("ht_create", NULL, "HT_OK", NoData)
  /\ UNCHANGED <<counters, resizing>>

\* dfs_create_dir gives the table up when its first array cannot be had.
CreateFails ==
  /\ pc = "destroyed"
  /\ "calloc" \in Faults
  /\ Returns("ht_create", NULL, "HT_E_MALLOC_FAILURE", NoData)
  /\ UNCHANGED <<entries, cap, minCap, counters, pc, resizing>>

\* ht_add finds k, or stores it in the null slot where the search ends.
\* A search passes tombstones, so one is never reused and the decrement of
\* num_tombstones in ht_add is never reached.
AddDuplicate(k) ==
  /\ pc = "idle"
  /\ \E s \in Slots(cap) :
       /\ StopsAt(entries, cap, k, {NULL, k}, s)
       /\ entries[s].key = k
  /\ Returns("ht_add", k, "HT_E_KEY_ALREADY_PRESENT", NoData)
  /\ UNCHANGED <<entries, cap, minCap, counters, pc, resizing>>

\* Mutant: the first tombstone met is reused without searching on for k.
AddNewAtTombstone(k, d) ==
  /\ pc = "idle"
  /\ \E s \in Slots(cap) :
       /\ StopsAt(entries, cap, k, {NULL, TOMBSTONE_KEY, k}, s)
       /\ entries[s].key # k
       /\ entries' = [entries EXCEPT ![s] = [key |-> k, data |-> d]]
  /\ numEntries' = numEntries + 1
  /\ pc' = "resize"
  /\ Returns("ht_add", k, "HT_OK", NoData)
  /\ UNCHANGED <<cap, minCap, numTombstones, resizing>>

AddNew(k, d) ==
  /\ pc = "idle"
  /\ \E s \in Slots(cap) :
       /\ StopsAt(entries, cap, k, {NULL, k}, s)
       /\ entries[s].key = NULL
       /\ \/ entries' = [entries EXCEPT ![s] = [key |-> k, data |-> d]]
          \/ /\ "strdup" \in Faults   \* its NULL becomes the key, unnoticed
             /\ entries' = [entries EXCEPT ![s] = [key |-> NULL, data |-> d]]
  /\ numEntries' = numEntries + 1
  /\ pc' = "resize"
  /\ Returns("ht_add", k, "HT_OK", NoData)
  /\ UNCHANGED <<cap, minCap, numTombstones, resizing>>

Get(k) ==
  /\ pc = "idle"
  /\ \E s \in Slots(cap) :
       /\ StopsAt(entries, cap, k, {NULL, k}, s)
       /\ \/ /\ entries[s].key = k
             /\ Returns("ht_get", k, "HT_OK", entries[s].data)
          \/ /\ entries[s].key = NULL
             /\ Returns("ht_get", k, "HT_E_KEY_NOT_PRESENT", NoData)
  /\ UNCHANGED <<entries, cap, minCap, counters, pc, resizing>>

\* The entry at s with its key gone; the data stays where it was.
Buried(s) == [key |-> TOMBSTONE_KEY, data |-> entries[s].data]

\* Mutants of Bury: the slot becomes null; the entry is still counted; the
\* tombstone is not counted.
BuryMarksNull(op, s) ==
  /\ numTombstones < MaxTombstones
  /\ entries' = [entries EXCEPT ![s] = [key |-> NULL, data |-> entries[s].data]]
  /\ numEntries' = numEntries - 1
  /\ numTombstones' = numTombstones + 1
  /\ pc' = "resize"
  /\ Returns(op, entries[s].key, "HT_OK", entries[s].data)
  /\ UNCHANGED <<cap, minCap, resizing>>

BuryKeepsCount(op, s) ==
  /\ numTombstones < MaxTombstones
  /\ entries' = [entries EXCEPT ![s] = Buried(s)]
  /\ numTombstones' = numTombstones + 1
  /\ pc' = "resize"
  /\ Returns(op, entries[s].key, "HT_OK", entries[s].data)
  /\ UNCHANGED <<cap, minCap, numEntries, resizing>>

BuryUncounted(op, s) ==
  /\ entries' = [entries EXCEPT ![s] = Buried(s)]
  /\ numEntries' = numEntries - 1
  /\ pc' = "resize"
  /\ Returns(op, entries[s].key, "HT_OK", entries[s].data)
  /\ UNCHANGED <<cap, minCap, numTombstones, resizing>>

\* The entry at s becomes a tombstone; resize_table comes next.
Bury(op, s) ==
  /\ numTombstones < MaxTombstones
  /\ entries' = [entries EXCEPT ![s] = Buried(s)]
  /\ numEntries' = numEntries - 1
  /\ numTombstones' = numTombstones + 1
  /\ pc' = "resize"
  /\ Returns(op, entries[s].key, "HT_OK", entries[s].data)
  /\ UNCHANGED <<cap, minCap, resizing>>

RemovePresent(k) ==
  /\ pc = "idle"
  /\ \E s \in Slots(cap) :
       /\ StopsAt(entries, cap, k, {NULL, k}, s)
       /\ entries[s].key = k
       /\ Bury("ht_rem", s)

\* Mutant: the counters change although nothing is removed.
RemoveAbsentCounts(k) ==
  /\ pc = "idle"
  /\ numTombstones < MaxTombstones
  /\ \E s \in Slots(cap) :
       /\ StopsAt(entries, cap, k, {NULL, k}, s)
       /\ entries[s].key = NULL
  /\ numEntries' = numEntries - 1
  /\ numTombstones' = numTombstones + 1
  /\ Returns("ht_rem", k, "HT_E_KEY_NOT_PRESENT", NoData)
  /\ UNCHANGED <<entries, cap, minCap, pc, resizing>>

RemoveAbsent(k) ==
  /\ pc = "idle"
  /\ \E s \in Slots(cap) :
       /\ StopsAt(entries, cap, k, {NULL, k}, s)
       /\ entries[s].key = NULL
  /\ Returns("ht_rem", k, "HT_E_KEY_NOT_PRESENT", NoData)
  /\ UNCHANGED <<entries, cap, minCap, counters, pc, resizing>>

\* The probe loop of ht_add, ht_get or ht_rem runs forever.
Spin(k) ==
  /\ pc = "idle"
  /\ NeverStops(entries, cap, {NULL, k})
  /\ pc' = "spinning"
  /\ UNCHANGED <<entries, cap, minCap, counters, result, resizing>>

\* ht_rem_next takes the first entry in slot order.
RemoveNext ==
  /\ pc = "idle"
  /\ numEntries # 0
  /\ \E s \in Slots(cap) :
       /\ entries[s].key \in Keys
       /\ \A t \in 0 .. s - 1 : entries[t].key \notin Keys
       /\ Bury("ht_rem_next", s)

NoEntriesLeft ==
  /\ pc = "idle"
  /\ numEntries = 0
  /\ Returns("ht_rem_next", NULL, "HT_E_NO_ENTRIES_LEFT", NoData)
  /\ UNCHANGED <<entries, cap, minCap, counters, pc, resizing>>

\* num_entries promises an entry that is not there: the loop of ht_rem_next
\* runs past the last slot and reads entries[cap_entries], outside the array.
\* "overrun" stands for whatever follows: the failed assertion, if it finds
\* nothing there.
RemoveNextOverruns ==
  /\ pc = "idle"
  /\ numEntries # 0
  /\ \A s \in Slots(cap) : entries[s].key \notin Keys
  /\ pc' = "overrun"
  /\ UNCHANGED <<entries, cap, minCap, counters, result, resizing>>

\* dfs_destroy_dir destroys the table once ht_rem_next reports it empty.
Destroy ==
  /\ pc = "idle"
  /\ result.op = "ht_rem_next"
  /\ result.status = "HT_E_NO_ENTRIES_LEFT"
  /\ entries' = EmptyArray(0)
  /\ cap' = 0
  /\ minCap' = 0
  /\ numEntries' = 0
  /\ numTombstones' = 0
  /\ pc' = "destroyed"
  /\ Returns("ht_destroy", NULL, "HT_OK", NoData)
  /\ UNCHANGED resizing

-------------------------------------------------------------------------------
(* resize_table *)

ResizeKeeps ==
  /\ pc = "resize"
  /\ KeepsArray
  /\ pc' = "idle"
  /\ UNCHANGED <<entries, cap, minCap, counters, result, resizing>>

\* The caller has its error and goes on, but for dfs_destroy_dir, the one caller
\* of ht_rem_next: its assertion that the status is good ends the program.
ResizeFails ==
  /\ pc = "resize"
  /\ ~ KeepsArray
  /\ "calloc" \in Faults
  /\ pc' = IF result.op = "ht_rem_next" THEN "aborted" ELSE "idle"
  /\ result' = [result EXCEPT !.status = "HT_E_MALLOC_FAILURE"]
  /\ UNCHANGED <<entries, cap, minCap, counters, resizing>>

ResizeBegins ==
  /\ pc = "resize"
  /\ ~ KeepsArray
  /\ newCap' = NewCapacity(numEntries, minCap, cap)
  /\ newEntries' = EmptyArray(newCap')
  /\ scan' = 0
  /\ pc' = "rehash"
  /\ UNCHANGED <<entries, cap, minCap, counters, result>>

\* Mutant: the loop continues without incrementing i.
RehashSkipsNothing ==
  /\ pc = "rehash"
  /\ scan < cap
  /\ entries[scan].key \notin Keys
  /\ UNCHANGED vars

\* Mutant: an entry is taken for a hole and skipped.
RehashSkipsAny ==
  /\ pc = "rehash"
  /\ scan < cap
  /\ scan' = scan + 1
  /\ UNCHANGED <<entries, cap, minCap, counters, pc, result, newEntries, newCap>>

\* Slot i of the old array holds no entry: the loop continues.
RehashSkips ==
  /\ pc = "rehash"
  /\ scan < cap
  /\ entries[scan].key \notin Keys
  /\ scan' = scan + 1
  /\ UNCHANGED <<entries, cap, minCap, counters, pc, result, newEntries, newCap>>

\* Slot i goes to the first null slot of the new array.
RehashCopies ==
  /\ pc = "rehash"
  /\ scan < cap
  /\ entries[scan].key \in Keys
  /\ \E s \in Slots(newCap) :
       /\ StopsAt(newEntries, newCap, entries[scan].key, {NULL}, s)
       /\ newEntries' = [newEntries EXCEPT ![s] = entries[scan]]
  /\ scan' = scan + 1
  /\ UNCHANGED <<entries, cap, minCap, counters, pc, result, newCap>>

\* Mutant: the last slot of the old array is not copied.
RehashInstallsEarly ==
  /\ pc = "rehash"
  /\ scan = cap - 1
  /\ cap' = newCap
  /\ entries' = newEntries
  /\ newEntries' = EmptyArray(0)
  /\ newCap' = 0
  /\ scan' = 0
  /\ pc' = "idle"
  /\ UNCHANGED <<minCap, counters, result>>

\* The new array replaces the old one; num_tombstones is left as it was.
RehashInstalls ==
  /\ pc = "rehash"
  /\ scan = cap
  /\ cap' = newCap
  /\ entries' = newEntries
  /\ newEntries' = EmptyArray(0)
  /\ newCap' = 0
  /\ scan' = 0
  /\ pc' = "idle"
  /\ UNCHANGED <<minCap, counters, result>>

ResizeStep ==
  \/ ResizeKeeps
  \/ ResizeFails
  \/ ResizeBegins
  \/ RehashSkips
  \/ RehashCopies
  \/ RehashInstalls

-------------------------------------------------------------------------------
Next ==
  \/ Create
  \/ CreateFails
  \/ \E k \in Keys :
       \/ AddDuplicate(k)
       \/ \E d \in Data : AddNew(k, d)
       \/ Get(k)
       \/ RemovePresent(k)
       \/ RemoveAbsent(k)
       \/ Spin(k)
  \/ RemoveNext
  \/ NoEntriesLeft
  \/ RemoveNextOverruns
  \/ Destroy
  \/ ResizeStep

Spec == Init /\ [][Next]_vars

\* A call that is running keeps running; nobody is obliged to make a call.
FairSpec == Spec /\ WF_vars(ResizeStep)
-------------------------------------------------------------------------------
(* Properties *)

Live(array, c) == {s \in Slots(c) : array[s].key \in Keys}
Tombstones(array, c) == {s \in Slots(c) : array[s].key = TOMBSTONE_KEY}

Slot == [key : Keys \cup {NULL, TOMBSTONE_KEY}, data : Data \cup {NoData}]
Operations ==
  {"none", "ht_create", "ht_add", "ht_get", "ht_rem", "ht_rem_next", "ht_destroy"}
Statuses ==
  {"HT_OK", "HT_E_MALLOC_FAILURE", "HT_E_KEY_NOT_PRESENT",
   "HT_E_KEY_ALREADY_PRESENT", "HT_E_NO_ENTRIES_LEFT"}

\* Every variable of the table and of resize_table's frame has its type; in
\* particular the counters, unsigned in the code, never wrap below zero.
TypeOK ==
  /\ cap \in Nat
  /\ minCap \in Nat
  /\ entries \in [Slots(cap) -> Slot]
  /\ numEntries \in Nat
  /\ numTombstones \in Nat
  /\ pc \in {"destroyed", "idle", "resize", "rehash", "spinning", "overrun", "aborted"}
  /\ result \in [op : Operations, key : Keys \cup {NULL}, status : Statuses, data : Data \cup {NoData}]
  /\ newCap \in Nat
  /\ newEntries \in [Slots(newCap) -> Slot]
  /\ scan \in Slots(cap + 1)

\* No key is stored twice, in the table or in the array resize_table fills.
NoDuplicates(array, c) ==
  \A s, t \in Live(array, c) : array[s].key = array[t].key => s = t

UniqueKeys ==
  /\ NoDuplicates(entries, cap)
  /\ NoDuplicates(newEntries, newCap)

\* No null slot lies between the home of a stored key and its slot.
ChainsUnbroken(array, c) ==
  \A s \in Live(array, c) : \A t \in Slots(c) :
    Distance(Home(array[s].key, c), t, c) < Distance(Home(array[s].key, c), s, c)
      => array[t].key # NULL

KeysReachable ==
  /\ ChainsUnbroken(entries, cap)
  /\ ChainsUnbroken(newEntries, newCap)

\* num_entries is the number of entries stored, also halfway through a resize.
CountExact == numEntries = Cardinality(Live(entries, cap))

\* While resize_table copies, the new array holds what the slots scanned so far
\* hold, entry for entry, and nothing else.
Scanned == {s \in Live(entries, cap) : s < scan}

CopiesFaithful ==
  pc = "rehash" =>
    /\ \A t \in Live(newEntries, newCap) : \E s \in Scanned : newEntries[t] = entries[s]
    /\ \A s \in Scanned : \E t \in Live(newEntries, newCap) : newEntries[t] = entries[s]
    /\ Cardinality(Live(newEntries, newCap)) = Cardinality(Scanned)

\* A probe finds what was stored.  No key has a second entry, which ht_rem
\* would uncover; a search started at a key's home reaches it, which is what
\* ht_rem's tombstones are for; and resize_table rebuilds both properties for
\* another modulus while it copies.
ProbingSound == UniqueKeys /\ KeysReachable /\ CopiesFaithful

TombstonesCounted == Cardinality(Tombstones(entries, cap)) <= numTombstones

\* The counters may be relied upon.  ht_rem_next's loop leaves its array unless
\* num_entries is exact, which it is when no strdup fails; resize_table's load
\* test must not underestimate the tombstones, whatever fails.
CountersTrusted ==
  /\ "strdup" \notin Faults => CountExact
  /\ TombstonesCounted

\* Between calls a third of the slots, or nearly, are null: probes are short.
LoadBounded ==
  pc = "idle" =>
    (Cardinality(Live(entries, cap)) + Cardinality(Tombstones(entries, cap))) * Unit
      <= cap * EMBIGGEN_THRESHOLD

\* A probe loop always meets a null slot, in the table between calls and in
\* resize_table's array at every copy; and ht_rem_next never leaves its array.
NeverStuck ==
  /\ pc \notin {"spinning", "overrun"}
  /\ pc = "rehash" => \E s \in Slots(newCap) : newEntries[s].key = NULL

CapacityFloor == pc # "destroyed" => cap >= minCap /\ cap >= MinCapacity

\* Growing and shrinking by a rounded factor leaves room for the entries, and
\* never goes below the capacity the table was created with (hashtable.h).
SizesBounded == LoadBounded /\ CapacityFloor

\* What the callers see: the keys stored, each with its data.
KeysIn(array, c) == {array[s].key : s \in Live(array, c)}
SlotOf(array, c, k) == CHOOSE s \in Slots(c) : array[s].key = k
ContentsOf(array, c) == [k \in KeysIn(array, c) |-> array[SlotOf(array, c, k)].data]

StoredKeys == KeysIn(entries, cap)
Contents == ContentsOf(entries, cap)

\* Resizing neither loses, adds nor alters an entry, whether or not it fails.
ResizeKeepsContents == [][(pc \in {"resize", "rehash"}) => Contents' = Contents]_vars

\* Every call returns: no probe and no resize goes on forever.
CallsReturn == pc \notin {"idle", "destroyed"} ~> pc = "idle"

\* The table is a map: every call has the effect and the result KeyMap allows.
Abstract == INSTANCE KeyMap WITH map <- Contents, NoKey <- NULL
ImplementsKeyMap == Abstract!Spec
===============================================================================
