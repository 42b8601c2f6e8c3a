------------------------------- MODULE MCDfsPath -------------------------------
(* Instances of DfsPath for TLC. *)
EXTENDS DfsPath

\* Strings of up to five characters; and of six, of one letter and slashes.
SmallStrings ==
  UNION {[1 .. n -> Chars] : n \in 0 .. 5} \cup [1 .. 6 -> {"/", "a"}]

\* What libfuse passes: one slash before every name.
FuseStrings == {<<"/", "a">>, <<"/", "a", "/", "b">>}
===============================================================================
