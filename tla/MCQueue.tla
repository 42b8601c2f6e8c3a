-------------------------------- MODULE MCQueue -------------------------------
(* Instances of Queue for TLC.  Nodes and values are interchangeable. *)
EXTENDS Queue, TLC

Symmetry == Permutations(Nodes) \cup Permutations(Values)
===============================================================================
