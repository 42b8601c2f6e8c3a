------------------------------ MODULE MCPipeline ------------------------------
(* Instances of Pipeline for TLC. *)
EXTENDS Pipeline

\* Where the loops of util.h stand after 500000000 iterations, for the numbers
\* used here: the first is in the cycle 1, 4, 2, the second multiplies by
\* 42^500000000, which is 48 modulo 71.
Function1 == [v \in Numbers |-> IF v = 100 THEN 4 ELSE 2]
Function2 == [v \in Numbers |-> (v * 48) % 71]

\* Inputs that end with a line that is no number from 1 to 100, and go on
\* behind it or not; and some that just end.
LineKinds == {1, 71, 100}   \* both ends of the range, and the number that yields 0
Ends == {<<0>>, <<101, 5>>, <<-1>>, <<>>}
SmallInputs ==
  {numbers \o end : numbers \in UNION {[1 .. n -> LineKinds] : n \in 0 .. 3}, end \in Ends}
===============================================================================
