-------------------------------- MODULE DirTree --------------------------------
(***************************************************************************)
(* What the handlers of assignment6/os_assignment.c promise: a tree of     *)
(* directories and files under path names, and calls that do what they     *)
(* say or leave the tree alone and answer the error that fits.  Nothing    *)
(* here speaks of entries in memory, of hash tables or of pointers.        *)
(***************************************************************************)
EXTENDS Integers, FiniteSets, SequencesExt

CONSTANTS
  Paths,    \* sequences of names
  Bytes,    \* 0 among them
  Buffers,  \* what os_write may be given: sequences of bytes
  Sizes,    \* how much os_read may be asked for
  ReadOffsets,  \* where reads may start
  Offsets       \* where writes may start, and the sizes of os_truncate

VARIABLES tree,   \* the entries: a function from paths
          reply   \* what the last call answered, until it has been sent

vars == <<tree, reply>>

Reply(op, path, status, data) == [op |-> op, path |-> path, status |-> status, data |-> data]
NoReply == Reply("none", <<>>, "0", {})

Empty(type) == [type |-> type, contents |-> <<>>]
Answers(op, path, status, data) == reply' = Reply(op, path, status, data)
Refuses(op, path, status) ==
  /\ Answers(op, path, status, {})
  /\ UNCHANGED tree

\* "0" where the path names an entry of a type among types, else the error.
Error(path, types) ==
  CASE path \notin DOMAIN tree ->
         IF \E p \in DOMAIN tree : IsStrictPrefix(p, path) /\ tree[p].type = "file"
           THEN "-ENOTDIR" ELSE "-ENOENT"
    [] path \in DOMAIN tree /\ tree[path].type \notin types ->
         IF tree[path].type = "file" THEN "-ENOTDIR" ELSE "-EISDIR"
    [] OTHER -> "0"

Children(path) == {p \in DOMAIN tree : p # <<>> /\ Front(p) = path}

Init ==
  /\ {<<>>} \subseteq DOMAIN tree
  /\ reply = NoReply

MakeEntry(op, type, path) ==
  /\ reply'.op = op
  /\ \/ /\ path = <<>> \/ path \in DOMAIN tree
        /\ Refuses(op, path, "-EEXIST")
     \/ /\ path # <<>>
        /\ Error(Front(path), {"dir"}) # "0"
        /\ Refuses(op, path, Error(Front(path), {"dir"}))
     \/ /\ path \notin DOMAIN tree
        /\ Error(Front(path), {"dir"}) = "0"
        /\ tree' = [p \in DOMAIN tree \cup {path} |-> IF p = path THEN Empty(type) ELSE tree[p]]
        /\ Answers(op, path, "0", {})

\* A directory that is not empty is not removed, and the root never is.
RemoveEntry(op, type, path) ==
  /\ reply'.op = op
  /\ \/ /\ path = <<>>
        /\ Refuses(op, path, "-EEXIST")
     \/ /\ path # <<>>
        /\ Error(path, {type}) # "0"
        /\ Refuses(op, path, Error(path, {type}))
     \/ /\ path # <<>>
        /\ Error(path, {type}) = "0"
        /\ Children(path) # {}
        /\ Refuses(op, path, "-ENOTEMPTY")
     \/ /\ path # <<>>
        /\ Error(path, {type}) = "0"
        /\ Children(path) = {}
        /\ tree' = [p \in DOMAIN tree \ {path} |-> tree[p]]
        /\ Answers(op, path, "0", {})

\* Calls on what a path names, given which types it may have.
Uses(op, types, path, Does(_)) ==
  /\ reply'.op = op
  /\ \/ /\ Error(path, types) # "0"
        /\ Refuses(op, path, Error(path, types))
     \/ /\ Error(path, types) = "0"
        /\ Does(tree[path])

Getattr(path) ==
  LET subdirs == {p \in Children(path) : tree[p].type = "dir"}
      Does(e) ==
        /\ Answers("os_getattr", path, "0",
             IF e.type = "file" THEN <<"file", 1, Len(e.contents)>>
             ELSE <<"dir", Cardinality(subdirs) + 1, Cardinality(Children(path)) * 32>>)
        /\ UNCHANGED tree
  IN  Uses("os_getattr", {"dir", "file"}, path, Does)

Readdir(path) ==
  LET Does(e) ==
        /\ Answers("os_readdir", path, "0", {Last(p) : p \in Children(path)})
        /\ UNCHANGED tree
  IN  Uses("os_readdir", {"dir"}, path, Does)

Read(path, size, off) ==
  LET Does(e) ==
        /\ \/ /\ off < 0
              /\ Answers("os_read", path, "-EINVAL", {})
           \/ /\ off >= 0
              /\ LET end == IF off + size < Len(e.contents) THEN off + size ELSE Len(e.contents)
                 IN  Answers("os_read", path, "0", SubSeq(e.contents, off + 1, end))
        /\ UNCHANGED tree
  IN  Uses("os_read", {"file"}, path, Does)

\* c is the old contents with the buffer laid over it at off.  Bytes between
\* the two are not promised.
Overlays(c, old, buff, off) ==
  /\ \A i \in 1 .. Len(buff) : c[off + i] = buff[i]
  /\ \A i \in 1 .. Len(old) : i \notin off + 1 .. off + Len(buff) => c[i] = old[i]
Write(path, buff, off) ==
  LET Length(e) == IF off + Len(buff) > Len(e.contents) THEN off + Len(buff) ELSE Len(e.contents)
      Does(e) ==
        \/ /\ off < 0
           /\ Refuses("os_write", path, "-EINVAL")
        \/ /\ off >= 0
           /\ \E c \in [1 .. Length(e) -> Bytes] :
                /\ Overlays(c, e.contents, buff, off)
                /\ tree' = [tree EXCEPT ![path].contents = c]
           /\ Answers("os_write", path, "0", buff)
  IN  Uses("os_write", {"file"}, path, Does)

Truncate(path, length) ==
  LET Does(e) ==
        /\ tree' = [tree EXCEPT ![path].contents =
                      [i \in 1 .. length |-> IF i <= Len(@) THEN @[i] ELSE 0]]
        /\ Answers("os_truncate", path, "0", length)
  IN  Uses("os_truncate", {"file"}, path, Does)

\* Mode, owner and times are no part of the tree.
SetFields(op, path) ==
  LET Does(e) == Refuses(op, path, "0")
  IN  Uses(op, {"dir", "file"}, path, Does)

\* There are no extended attributes.
Setxattr(path) == Refuses("os_setxattr", path, "-ENOTSUP")

\* Memory may run out in any call: then nothing has happened.
OutOfMemory == Refuses("any", <<>>, "-ENOMEM")

Replies ==
  /\ reply # NoReply
  /\ reply' = NoReply
  /\ UNCHANGED tree

Next ==
  \/ Replies
  \/ OutOfMemory
  \/ \E path \in Paths :
       /\ reply'.path = path
       /\ \/ MakeEntry("os_mkdir", "dir", path) \/ MakeEntry("os_create", "file", path)
          \/ RemoveEntry("os_rmdir", "dir", path) \/ RemoveEntry("os_unlink", "file", path)
          \/ Getattr(path) \/ Readdir(path) \/ Setxattr(path)
          \/ \E op \in {"os_chmod", "os_chown", "os_utimens"} : SetFields(op, path)
          \/ \E off \in ReadOffsets, size \in Sizes : Read(path, size, off)
          \/ \E off \in Offsets :
               \/ Truncate(path, off)
               \/ \E buff \in Buffers : Write(path, buff, off)
===============================================================================
