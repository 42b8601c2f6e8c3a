-------------------------------- MODULE KeyMap --------------------------------
(***************************************************************************)
(* What hashtable.h promises its callers: a finite map from keys to data.  *)
(* Nothing here speaks of slots, probing, tombstones or capacities; the    *)
(* module Hashtable is checked to implement this specification.            *)
(***************************************************************************)
CONSTANTS
  Keys, Data,
  NoKey, NoData  \* where a call has no key to give or gets no data

VARIABLES map,     \* the entries: a function from a subset of Keys to Data
          result   \* the call in progress (or the last one) and what it returns

vars == <<map, result>>

Returns(op, key, status, data) ==
  result' = [op |-> op, key |-> key, status |-> status, data |-> data]

IsEmpty == DOMAIN map = {}

With(k, d) == [j \in DOMAIN map \cup {k} |-> IF j = k THEN d ELSE map[j]]
Without(k) == [j \in DOMAIN map \ {k} |-> map[j]]

Init ==
  /\ map = [k \in {} |-> NoData]
  /\ result = [op |-> "none", key |-> NoKey, status |-> "HT_OK", data |-> NoData]

Create ==
  /\ Returns("ht_create", NoKey, "HT_OK", NoData)
  /\ IsEmpty
  /\ UNCHANGED map

Add(k, d) ==
  /\ Returns("ht_add", k, "HT_OK", NoData)
  /\ k \notin DOMAIN map
  /\ map' = With(k, d)

\* A key is never overwritten: the second add of a key is refused.
Refuse(k) ==
  /\ Returns("ht_add", k, "HT_E_KEY_ALREADY_PRESENT", NoData)
  /\ k \in DOMAIN map
  /\ UNCHANGED map

Get(k) ==
  /\ result'.op = "ht_get" /\ result'.key = k
  /\ \/ /\ k \in DOMAIN map
        /\ Returns("ht_get", k, "HT_OK", map[k])
     \/ /\ k \notin DOMAIN map
        /\ Returns("ht_get", k, "HT_E_KEY_NOT_PRESENT", NoData)
  /\ UNCHANGED map

Remove(k) ==
  /\ result'.op = "ht_rem" /\ result'.key = k
  /\ \/ /\ k \in DOMAIN map
        /\ map' = Without(k)
        /\ Returns("ht_rem", k, "HT_OK", map[k])
     \/ /\ k \notin DOMAIN map
        /\ Returns("ht_rem", k, "HT_E_KEY_NOT_PRESENT", NoData)
        /\ UNCHANGED map

\* Removes some entry; the order is unspecified.
RemoveNext ==
  /\ result'.op = "ht_rem_next"
  /\ \/ \E k \in DOMAIN map :
          /\ Returns("ht_rem_next", k, "HT_OK", map[k])
          /\ map' = Without(k)
     \/ /\ IsEmpty
        /\ Returns("ht_rem_next", NoKey, "HT_E_NO_ENTRIES_LEFT", NoData)
        /\ UNCHANGED map

\* A table is destroyed only once every entry has been handed back.
Destroy ==
  /\ Returns("ht_destroy", NoKey, "HT_OK", NoData)
  /\ IsEmpty
  /\ UNCHANGED map

Next ==
  \/ Create
  \/ RemoveNext
  \/ Destroy
  \/ \E k \in Keys :
       \/ Get(k)
       \/ Remove(k)
       \/ Refuse(k)
       \/ \E d \in Data : Add(k, d)

Spec == Init /\ [][Next]_vars
===============================================================================
