------------------------------- MODULE FileSystem ------------------------------
(***************************************************************************)
(* The handlers of assignment6/os_assignment.c, called one after another,  *)
(* on entries in memory (dfs.c) that directories point to by name.  The    *)
(* hash table of a directory is the map that module Hashtable is checked   *)
(* to be; that strdup may fail while the map changes, and resize_table     *)
(* after it has, is kept.  Mode, owner and times of an entry are left out. *)
(***************************************************************************)
EXTENDS Integers, FiniteSets, SequencesExt

CONSTANTS
  Entries,     \* the memory that calloc gives entries from
  Names,
  MaxDepth,    \* bound: how many names a path may have, two at least in create_dfs
  Bytes, Buffers, Sizes,           \* as in DirTree
  ReadOffsets, Offsets,            \* as in DirTree
  MaxLength    \* bound: how long a file may grow

Paths == UNION {[1 .. n -> Names] : n \in 0 .. MaxDepth}

ASSUME FileSystemAssumption ==
  /\ MaxDepth \in Nat \ {0, 1} /\ MaxLength \in Nat
  /\ 0 \in Bytes /\ Buffers \subseteq Seq(Bytes)
  /\ Sizes \subseteq Nat /\ ReadOffsets \subseteq Int /\ Offsets \subseteq Int

VARIABLES
  root_dir,
  heap,       \* the entries that are allocated: a function from some of Entries
  state,      \* "running"; "torn" when a strdup or a resize_table of a table
              \* failed under a handler; "undefined" when a handler used a
              \* pointer that was never set
  reply       \* what the last handler returned, until libfuse has sent it

vars == <<root_dir, heap, state, reply>>

Reply(op, path, status, data) == [op |-> op, path |-> path, status |-> status, data |-> data]
NoReply == Reply("none", <<>>, "0", {})

NoNames == [name \in {} |-> {}]
Node(type, contents, entries) == [type |-> type, contents |-> contents, entries |-> entries]
dfs_create_file == Node("file", <<>>, NoNames)
dfs_create_dir == Node("dir", <<>>, NoNames)

handleErrors(status) ==
  CASE status = "DFS_OK" -> "0"
    [] status = "DFS_E_ENTRY_DOES_NOT_EXIST" -> "-ENOENT"
    [] status = "DFS_E_ENTRY_ALREADY_EXISTS" -> "-EEXIST"
    [] status = "DFS_E_NOT_A_DIRECTORY" -> "-ENOTDIR"
    [] status = "DFS_E_NOT_A_FILE" -> "-EISDIR"
    [] status = "DFS_E_MALLOC_FAILURE" -> "-ENOMEM"

Answers(op, path, status, data) ==
  /\ reply' = Reply(op, path, status, data)
  /\ UNCHANGED <<root_dir, state>>
Refuses(op, path, status) ==
  /\ Answers(op, path, status, {})
  /\ UNCHANGED heap

\* What the program does from here on is anybody's guess: the model stops.
Crashes ==
  /\ state' = "undefined"
  /\ UNCHANGED <<root_dir, heap, reply>>

\* strdup or resize_table failed: what the caller hears is not what became of
\* the table.  The model stops.
Tears(op, path, status) ==
  /\ state' = "torn"
  /\ reply' = Reply(op, path, status, {})
  /\ UNCHANGED root_dir

\* create_dfs, with one directory, a file in it and a file beside it.
create_dfs(dir, file, inner, first, second, byte) ==
  [e \in {root_dir, dir, file, inner} |->
     CASE e = root_dir -> Node("dir", <<>>,
            [n \in {first, second} |-> IF n = first THEN dir ELSE file])
       [] e = dir -> Node("dir", <<>>, [n \in {first} |-> inner])
       [] OTHER -> Node("file", <<byte>>, NoNames)]

Init ==
  \E dir, file, inner \in Entries, first, second \in Names, byte \in Bytes :
    /\ root_dir \in Entries
    /\ Cardinality({root_dir, dir, file, inner}) = 4 /\ first # second
    /\ heap = create_dfs(dir, file, inner, first, second, byte)
    /\ state = "running"
    /\ reply = NoReply

-------------------------------------------------------------------------------
(* Finding entries *)

\* Where the walk along a path has come to.
At(entry) == [status |-> "DFS_OK", entry |-> entry]
Fails(at, status) == [at EXCEPT !.status = status]

dfs_get_entry(at, name) ==
  IF name \in DOMAIN heap[at.entry].entries
    THEN At(heap[at.entry].entries[name])
    ELSE Fails(at, "DFS_E_ENTRY_DOES_NOT_EXIST")

\* One iteration for each name on the path.
Enters(at, name) ==
  CASE at.status # "DFS_OK" -> at
    [] at.status = "DFS_OK" /\ heap[at.entry].type # "dir" ->
         Fails(at, "DFS_E_NOT_A_DIRECTORY")
    [] OTHER -> dfs_get_entry(at, name)
dfs_find_entry(from, path) ==
  LET walk[i \in 0 .. Len(path)] == IF i = 0 THEN At(from) ELSE Enters(walk[i - 1], path[i])
  IN  walk[Len(path)]

\* The type that was asked for, once the entry is found.
As(type, at) ==
  IF at.status # "DFS_OK" \/ heap[at.entry].type = type THEN at
  ELSE Fails(at, IF type = "dir" THEN "DFS_E_NOT_A_DIRECTORY" ELSE "DFS_E_NOT_A_FILE")
dfs_find_dir(path) == As("dir", dfs_find_entry(root_dir, path))
dfs_find_file(path) == As("file", dfs_find_entry(root_dir, path))

\* A handler that stops when the lookup failed.  Statuses that it does not
\* look at leave it with a pointer that was never set.
Stops(op, path, at, handled) ==
  /\ at.status # "DFS_OK"
  /\ IF at.status \in handled THEN Refuses(op, path, handleErrors(at.status)) ELSE Crashes

AnyError == {"DFS_E_ENTRY_DOES_NOT_EXIST", "DFS_E_NOT_A_DIRECTORY", "DFS_E_NOT_A_FILE"}

\* A path that cannot be parsed or popped, an entry or contents that cannot
\* be allocated: every handler frees what it has and answers -ENOMEM.
OutOfMemory == Refuses("any", <<>>, "-ENOMEM")

-------------------------------------------------------------------------------
(* Making and removing *)

With(dir, name, entry) ==
  [heap[dir] EXCEPT !.entries =
     [n \in DOMAIN @ \cup {name} |-> IF n = name THEN entry ELSE @[n]]]
Without(dir, name) ==
  [heap[dir] EXCEPT !.entries = [n \in DOMAIN @ \ {name} |-> @[n]]]

\* Mutant: the entry is added under its whole path.
AddsUnderPath(op, path, dir, node) ==
  \E entry \in Entries \ DOMAIN heap :
    /\ heap' = [e \in DOMAIN heap \cup {entry} |->
                  CASE e = entry -> node [] e = dir -> With(dir, path, entry) [] OTHER -> heap[e]]
    /\ Answers(op, path, "0", {})

\* dfs_add_entry, of an entry made for it.  When strdup fails ht_add stores the
\* entry without its name and says nothing: it is in memory, and nobody finds
\* it.  When resize_table fails what was stored stays in the table, and the
\* handler destroys the entry.
Adds(op, path, dir, node) ==
  LET named(entry) == With(dir, Last(path), entry)
      added(entry, parent) ==
        [e \in DOMAIN heap \cup {entry} |->
           CASE e = entry -> node [] e = dir -> parent [] OTHER -> heap[e]]
  IN  \E entry \in Entries \ DOMAIN heap :
        \/ /\ heap' = added(entry, named(entry))
           /\ Answers(op, path, "0", {})
        \/ /\ heap' = added(entry, heap[dir])
           /\ Tears(op, path, "0")
        \/ /\ heap' \in {[heap EXCEPT ![dir] = named(entry)], heap}
           /\ Tears(op, path, "-ENOMEM")

Makes(op, path, node) ==
  LET parent == dfs_find_dir(Front(path))
  IN  \/ /\ path = <<>>
         /\ Refuses(op, path, "-EEXIST")
      \/ /\ path # <<>>
         /\ Stops(op, path, parent, AnyError)
      \/ /\ path # <<>> /\ parent.status = "DFS_OK"
         /\ Last(path) \in DOMAIN heap[parent.entry].entries
         /\ Refuses(op, path, "-EEXIST")
      \/ /\ path # <<>> /\ parent.status = "DFS_OK"
         /\ Last(path) \notin DOMAIN heap[parent.entry].entries
         /\ Adds(op, path, parent.entry, node)

os_mkdir(path) == Makes("os_mkdir", path, dfs_create_dir)
os_create(path) == Makes("os_create", path, dfs_create_file)

\* What dfs_destroy_entry frees: the entry and, below a directory, all.
Below(entry) ==
  {at.entry : at \in {a \in {dfs_find_entry(entry, p) : p \in Paths} : a.status = "DFS_OK"}}

\* Mutant: the entry is taken out of its directory and not destroyed.
RemovesOnly(op, path, dir, entry) ==
  /\ heap' = [heap EXCEPT ![dir] = Without(dir, Last(path))]
  /\ Answers(op, path, "0", {})

\* dfs_remove_entry, and the destruction of what it removed.  When
\* resize_table fails the entry is out of the table and nobody has it.
Removes(op, path, dir, entry) ==
  \/ /\ heap' = [e \in DOMAIN heap \ Below(entry) |->
                    IF e = dir THEN Without(dir, Last(path)) ELSE heap[e]]
     /\ Answers(op, path, "0", {})
  \/ /\ heap' = [heap EXCEPT ![dir] = Without(dir, Last(path))]
     /\ Tears(op, path, "-ENOMEM")

\* The parent and the entry in it, of the type that the handler removes.
Target(path, type) ==
  LET parent == dfs_find_dir(Front(path))
  IN  IF parent.status # "DFS_OK" THEN parent
      ELSE As(type, dfs_get_entry(parent, Last(path)))

os_rmdir(path) ==
  \/ /\ path = <<>>
     /\ Refuses("os_rmdir", path, "-EEXIST")
  \/ /\ path # <<>>
     /\ LET child == Target(path, "dir")
        IN  \/ Stops("os_rmdir", path, child, AnyError)
            \/ /\ child.status = "DFS_OK"
               /\ heap[child.entry].entries # NoNames
               /\ Refuses("os_rmdir", path, "-ENOTEMPTY")
            \/ /\ child.status = "DFS_OK"
               /\ heap[child.entry].entries = NoNames
               /\ Removes("os_rmdir", path, dfs_find_dir(Front(path)).entry, child.entry)

os_unlink(path) ==
  \/ /\ path = <<>>
     /\ Refuses("os_unlink", path, "-EEXIST")
  \/ /\ path # <<>>
     /\ LET child == Target(path, "file")
        IN  \/ Stops("os_unlink", path, child, AnyError)
            \/ /\ child.status = "DFS_OK"
               /\ Removes("os_unlink", path, dfs_find_dir(Front(path)).entry, child.entry)

-------------------------------------------------------------------------------
(* Listing and attributes *)

\* The names, in the order of the table, which nothing promises.
os_readdir(path) ==
  LET dir == dfs_find_dir(path)
  IN  \/ Stops("os_readdir", path, dir, AnyError)
      \/ /\ dir.status = "DFS_OK"
         /\ Answers("os_readdir", path, "0", DOMAIN heap[dir.entry].entries)
         /\ UNCHANGED heap

\* The entries whose type os_count_subdirs reads.
os_count_subdirs(entries) ==
  Cardinality({n \in DOMAIN entries : heap[entries[n]].type = "dir"})

\* DFS_E_NOT_A_DIRECTORY is not looked at.
os_getattr(path) ==
  LET at == dfs_find_entry(root_dir, path)
      node == heap[at.entry]
  IN  \/ Stops("os_getattr", path, at, {"DFS_E_ENTRY_DOES_NOT_EXIST"})
      \/ /\ at.status = "DFS_OK"
         /\ Answers("os_getattr", path, "0",
              IF node.type = "file" THEN <<"file", 1, Len(node.contents)>>
              ELSE <<"dir", os_count_subdirs(node.entries) + 1,
                     Cardinality(DOMAIN node.entries) * 32>>)
         /\ UNCHANGED heap

\* Nor is it here, where fields are set that are left out.
Sets(op, path) ==
  LET at == dfs_find_entry(root_dir, path)
  IN  \/ Stops(op, path, at, {"DFS_E_ENTRY_DOES_NOT_EXIST"})
      \/ /\ at.status = "DFS_OK"
         /\ Refuses(op, path, "0")
os_chmod(path) == Sets("os_chmod", path)
os_chown(path) == Sets("os_chown", path)
os_utimens(path) == Sets("os_utimens", path)

os_setxattr(path) == Refuses("os_setxattr", path, "-ENOTSUP")

-------------------------------------------------------------------------------
(* Contents *)

\* A negative offset is answered by EINVAL, not by -EINVAL: libfuse would take
\* it for a number of bytes.  The kernel passes none on.
os_read(path, size, off) ==
  LET at == dfs_find_file(path)
      length == Len(heap[at.entry].contents)
      bytes == IF size < length - off THEN size ELSE length - off
  IN  \/ Stops("os_read", path, at, AnyError)
      \/ /\ at.status = "DFS_OK"
         /\ IF off < 0 THEN Answers("os_read", path, "EINVAL", {})
            ELSE Answers("os_read", path, "0",
                   IF off >= length THEN <<>>
                   ELSE SubSeq(heap[at.entry].contents, off + 1, off + bytes))
         /\ UNCHANGED heap

Holds(entry, contents) == heap' = [heap EXCEPT ![entry].contents = contents]

\* How many bytes a file lacks, and the file with them and the buffer over
\* it.  realloc leaves what it adds as it is: any bytes.
Lacks(old, size) == IF size > Len(old) THEN size - Len(old) ELSE 0
Overwritten(old, junk, buff, off) ==
  [i \in 1 .. Len(old) + Len(junk) |->
     IF i \in off + 1 .. off + Len(buff) THEN buff[i - off] ELSE (old \o junk)[i]]

os_write(path, buff, off) ==
  LET at == dfs_find_file(path)
      old == heap[at.entry].contents
      end == off + Len(buff)
  IN  \/ Stops("os_write", path, at, AnyError)
      \/ /\ at.status = "DFS_OK" /\ off < 0
         /\ Refuses("os_write", path, "-EINVAL")
      \/ /\ at.status = "DFS_OK" /\ off >= 0 /\ end <= MaxLength
         /\ \E junk \in [1 .. Lacks(old, end) -> Bytes] :
              Holds(at.entry, Overwritten(old, junk, buff, off))
         /\ Answers("os_write", path, "0", buff)

\* Mutant: the bytes that realloc adds are left as they are.
TruncateUnset(path, off) ==
  LET at == dfs_find_file(path)
      old == heap[at.entry].contents
  IN  /\ at.status = "DFS_OK" /\ off \in 0 .. MaxLength
      /\ \E junk \in [1 .. MaxLength -> Bytes] : Holds(at.entry, SubSeq(old \o junk, 1, off))
      /\ Answers("os_truncate", path, "0", off)

\* DFS_E_NOT_A_DIRECTORY is not looked at.  A negative size is more memory
\* than realloc has.
os_truncate(path, off) ==
  LET at == dfs_find_file(path)
      old == heap[at.entry].contents
  IN  \/ Stops("os_truncate", path, at, AnyError \ {"DFS_E_NOT_A_DIRECTORY"})
      \/ /\ at.status = "DFS_OK" /\ off \in 0 .. MaxLength
         /\ Holds(at.entry, [i \in 1 .. off |-> IF i <= Len(old) THEN old[i] ELSE 0])
         /\ Answers("os_truncate", path, "0", off)

-------------------------------------------------------------------------------
Handler ==
  \E path \in Paths :
    \/ os_mkdir(path) \/ os_create(path) \/ os_rmdir(path) \/ os_unlink(path)
    \/ os_readdir(path) \/ os_getattr(path)
    \/ os_chmod(path) \/ os_chown(path) \/ os_utimens(path) \/ os_setxattr(path)
    \/ \E off \in ReadOffsets, size \in Sizes : os_read(path, size, off)
    \/ \E off \in Offsets :
         \/ os_truncate(path, off)
         \/ \E buff \in Buffers : os_write(path, buff, off)

\* libfuse sends the reply.
Replies ==
  /\ reply # NoReply
  /\ reply' = NoReply
  /\ UNCHANGED <<root_dir, heap, state>>

Next ==
  \/ /\ state = "running" /\ reply = NoReply
     /\ Handler \/ OutOfMemory
  \/ Replies
  \/ /\ state # "running" /\ reply = NoReply
     /\ UNCHANGED vars

Spec == Init /\ [][Next]_vars

-------------------------------------------------------------------------------
(* Properties *)

TypeOK ==
  /\ root_dir \in Entries
  /\ DOMAIN heap \subseteq Entries
  /\ \A e \in DOMAIN heap :
       /\ heap[e].type \in {"dir", "file"}
       /\ heap[e].contents \in Seq(Bytes)
       /\ DOMAIN heap[e].entries \subseteq Names
       /\ \A n \in DOMAIN heap[e].entries : heap[e].entries[n] \in Entries
  /\ state \in {"running", "torn", "undefined"}

\* As long as no strdup and no resize_table of a table has failed, which the
\* code does not survive unharmed: every pointer of a directory is to an entry
\* in memory, every entry but the root is in exactly one directory under exactly
\* one name, and is found from the root: none is lost, none could be freed twice.
Links == {link \in (DOMAIN heap) \X Names : link[2] \in DOMAIN heap[link[1]].entries}
PointsTo(link) == heap[link[1]].entries[link[2]]
TreeSound ==
  state # "torn" =>
    /\ \A link \in Links : PointsTo(link) \in DOMAIN heap \ {root_dir}
    /\ \A l1, l2 \in Links : PointsTo(l1) = PointsTo(l2) => l1 = l2
    /\ Below(root_dir) = DOMAIN heap
    /\ \A e \in DOMAIN heap :
         IF heap[e].type = "dir" THEN heap[e].contents = <<>> ELSE heap[e].entries = NoNames

\* As long as no strdup and no resize_table of a table has failed, every handler
\* does to the tree what DirTree says, and answers so; until one meets undefined
\* behaviour.
Found == {p \in Paths : dfs_find_entry(root_dir, p).status = "DFS_OK"}
NodeAt(path) == heap[dfs_find_entry(root_dir, path).entry]
tree == [p \in Found |-> [type |-> NodeAt(p).type, contents |-> NodeAt(p).contents]]
Abstract == INSTANCE DirTree WITH tree <- tree
ImplementsDirTree == Abstract!Init /\ [][state' = "torn" \/ Abstract!Next]_(Abstract!vars)

\* os_assignment.c:478 and the like, "0 or an appropriate error code": no
\* handler works on a pointer that was never set.
AnswersAlways == state # "undefined"
===============================================================================
