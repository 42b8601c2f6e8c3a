------------------------------ MODULE MCQuicksort ------------------------------
(* Instances of Quicksort for TLC. *)
EXTENDS Quicksort

\* Three elements are few in this instance, 10 and 10000 in the code.
Thresholds == [f \in Functions |-> 2]

\* Every array of up to five elements with three values; and those of seven
\* elements whose first halves are both long enough to be divided by threads.
SmallArrays == UNION {[0 .. n - 1 -> {1, 2, 3}] : n \in 0 .. 5}
Halved ==
  {a \in [0 .. 6 -> {1, 2, 3}] : a[0] = 2 /\ Cardinality({i \in 1 .. 6 : a[i] = 3}) = 3
                                 /\ a[1] = 2 /\ a[6] = 3}
TestArrays == SmallArrays \cup Halved
================================================================================
