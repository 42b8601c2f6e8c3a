------------------------------ MODULE MCHashtable -----------------------------
(***************************************************************************)
(* Small instances of Hashtable for TLC.  A key is a number, its hash is   *)
(* looked up in a tuple.                                                   *)
(***************************************************************************)
EXTENDS Hashtable

\* Three keys that collide at the last slot of the first array and wrap around
\* it, two more at slot 0 behind them, and one apart; at capacity 11 they part.
\* Nine more, enough for the table to grow to 29 slots, from where it shrinks
\* when nine entries are left.
OpsHash == <<7, 15, 23, 0, 8, 3, 28, 57, 20, 41, 14, 29, 11, 22, 58>>
OpsKeys == DOMAIN OpsHash
Colliding == 1 .. 6

\* Three keys around the end of an array of eight slots.
FaultHash == <<7, 15, 0>>
FaultKeys == DOMAIN FaultHash

\* The workloads of the run ht_ops, between two calls: anything on the keys that
\* collide, up to two removals; or the table is filled with every key in turn,
\* then drained by removing the first or the last key left, or the one that
\* ht_rem_next finds, and then read.
AnyOnColliding ==
  /\ result'.key \in Colliding \cup {NULL}
  /\ numTombstones' <= 2
  /\ StoredKeys \subseteq Colliding

FillThenDrain ==
  \/ /\ result'.op = "ht_add" /\ numTombstones = 0
     /\ result'.key = numEntries'
  \/ /\ result'.op = "ht_get"
     /\ numTombstones = MaxTombstones
  \/ /\ numEntries + numTombstones = Cardinality(OpsKeys)
     /\ \/ result'.op = "ht_rem_next"
        \/ /\ result'.op = "ht_rem"
           /\ \/ \A k \in StoredKeys' : result'.key < k
              \/ \A k \in StoredKeys' : result'.key > k

Workloads == pc = "idle" => AnyOnColliding \/ FillThenDrain

\* A call that leaves the table alone ends the history that TLC follows: the
\* calls after it are those that could be made instead of it.
ChangesTable ==
  /\ result.op # "ht_get"
  /\ result.status \notin {"HT_E_KEY_NOT_PRESENT", "HT_E_KEY_ALREADY_PRESENT"}

\* A strdup that fails raises num_entries without storing a key, as often as
\* the caller likes: the fault run stops counting here.
MaxNumEntries == 5
BoundedEntries == numEntries <= MaxNumEntries
===============================================================================
