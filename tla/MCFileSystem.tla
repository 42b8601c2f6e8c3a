----------------------------- MODULE MCFileSystem ------------------------------
(* Instances of FileSystem for TLC.  Entries and names are interchangeable. *)
EXTENDS FileSystem, TLC

Symmetry == Permutations(Entries) \cup Permutations(Names)

SmallBuffers == {<<1>>, <<1, 0>>}
\* The kernel refuses a read, a write and a truncation below zero itself.
\* os_write's answer to one is looked at all the same; that of os_read is known
\* to be wrong.
SmallReadOffsets == 0 .. 2
SmallOffsets == -1 .. 2
===============================================================================
