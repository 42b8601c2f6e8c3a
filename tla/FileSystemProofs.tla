--------------------------- MODULE FileSystemProofs ----------------------------
(***************************************************************************)
(* What holds of FileSystem for any entries, names, buffers and offsets,   *)
(* and paths and files of any bounded length: first of the walks along     *)
(* paths, then of the handlers.                                            *)
(***************************************************************************)
EXTENDS FileSystem, FiniteSetTheorems, FunctionTheorems, SequenceTheorems,
        WellFoundedInduction, TLAPS

\* Every non-empty set of natural numbers has a least element.
LEMMA LeastNumber ==
  ASSUME NEW T, T \subseteq Nat, T # {}
  PROVE  \E x \in T : \A y \in T : x <= y
<1> DEFINE R == OpToRel(<, Nat)
<1>1. IsWellFoundedOn(R, Nat)
  BY NatLessThanWellFounded, Zenon
<1> HIDE DEF R
<1>2. PICK x \in T : \A y \in T : ~ (<<y, x>> \in R)
  BY <1>1, WFMin
<1>3. \A y \in T : y < x => <<y, x>> \in R
  BY DEF R, OpToRel
<1>4. \A y \in T : ~ (y < x)
  BY <1>2, <1>3
<1>5. \A y \in T : y \in Nat
  OBVIOUS
<1>6. \A y \in T : x <= y
  BY <1>4, <1>5
<1> QED
  BY <1>6

-------------------------------------------------------------------------------
(* Paths *)

\* A sequence that is not empty is its front with its last element behind it.
LEMMA FrontLast ==
  ASSUME NEW S, NEW p \in Seq(S), p # <<>>
  PROVE  /\ Front(p) \in Seq(S) /\ Last(p) \in S
         /\ Len(p) \in Nat /\ Len(p) >= 1 /\ Len(Front(p)) = Len(p) - 1
         /\ \A i \in 1 .. Len(p) - 1 : Front(p)[i] = p[i]
         /\ p = Append(Front(p), Last(p))
<1>1. Len(p) \in Nat /\ Len(p) >= 1
  BY EmptySeq, LenProperties
<1>2. /\ Front(p) \in Seq(S) /\ Len(Front(p)) = Len(p) - 1
      /\ \A i \in 1 .. Len(p) - 1 : Front(p)[i] = p[i]
  <2>1. PICK m \in Nat : m = Len(p) - 1
    BY <1>1
  <2>2. \A i \in 1 .. m : p[i] \in S
    BY <1>1, <2>1, ElementOfSeq
  <2>3. PICK q : q = SubSeq(p, 1, m)
    OBVIOUS
  <2>4. q = [i \in 1 .. m |-> p[i]]
    BY <1>1, <2>1, <2>3
  <2>5. q \in Seq(S) /\ Len(q) = m /\ \A i \in 1 .. m : q[i] = p[i]
    BY <2>2, <2>4
  <2> QED
    BY <2>1, <2>3, <2>5 DEF Front
<1>3. Last(p) \in S /\ Last(p) = p[Len(p)]
  BY <1>1, ElementOfSeq DEF Last
<1>4. p = Append(Front(p), Last(p))
  <2>1. PICK f \in Seq(S) : f = Front(p)
    BY <1>2
  <2>2. PICK q : q = Append(f, Last(p))
    OBVIOUS
  <2>3. /\ q \in Seq(S) /\ Len(q) = Len(p) /\ q[Len(p)] = p[Len(p)]
        /\ \A i \in 1 .. Len(p) - 1 : q[i] = p[i]
    BY <1>1, <1>2, <1>3, <2>1, <2>2, AppendProperties
  <2>4. \A i \in 1 .. Len(p) : q[i] = p[i]
    <3>1. \A i \in 1 .. Len(p) : i = Len(p) \/ i \in 1 .. Len(p) - 1
      BY <1>1
    <3> QED
      BY <2>3, <3>1
  <2>5. q = p
    BY <2>3, <2>4, SeqEqual
  <2> QED
    BY <2>1, <2>2, <2>5
<1> QED
  BY <1>1, <1>2, <1>3, <1>4

\* The front and the last of what Append makes.
LEMMA FrontAppend ==
  ASSUME NEW S, NEW p \in Seq(S), NEW n \in S, NEW q, q = Append(p, n)
  PROVE  q \in Seq(S) /\ q # <<>> /\ Len(q) = Len(p) + 1 /\ Front(q) = p /\ Last(q) = n
<1>1. /\ q \in Seq(S) /\ Len(q) = Len(p) + 1 /\ Len(p) \in Nat /\ q[Len(p) + 1] = n
      /\ \A i \in 1 .. Len(p) : q[i] = p[i]
  BY AppendProperties, LenProperties
<1>2. q # <<>>
  <2>1. Len(q) # 0
    BY <1>1
  <2> QED
    BY <2>1
<1>3. Last(q) = n
  BY <1>1 DEF Last
<1>4. Front(q) = p
  <2>1. PICK f : f = Front(q)
    OBVIOUS
  <2>2. f \in Seq(S) /\ Len(f) = Len(p) /\ \A i \in 1 .. Len(p) : f[i] = q[i]
    <3>1. Len(q) - 1 = Len(p)
      BY <1>1
    <3> QED
      BY <1>1, <1>2, <2>1, <3>1, FrontLast
  <2>3. \A i \in 1 .. Len(f) : f[i] = p[i]
    BY <1>1, <2>2
  <2>4. f = p
    BY <2>2, <2>3, SeqEqual
  <2> QED
    BY <2>1, <2>4
<1> QED
  BY <1>1, <1>2, <1>3, <1>4

\* What holds of the empty path, and of a path if of the one to its parent,
\* holds of all.
LEMMA PathInduction ==
  ASSUME NEW S, NEW T, <<>> \in T, \A p \in Seq(S) : p # <<>> /\ Front(p) \in T => p \in T
  PROVE  \A p \in Seq(S) : p \in T
<1> SUFFICES ASSUME NEW path \in Seq(S), path \notin T
             PROVE  FALSE
  OBVIOUS
<1> DEFINE Missed == {Len(p) : p \in {q \in Seq(S) : q \notin T}}
<1>1. Missed # {}
  <2>1. Len(path) \in Missed
    OBVIOUS
  <2> QED
    BY <2>1
<1>2. Missed \subseteq Nat
  BY LenProperties
<1>3. PICK m \in Missed : \A k \in Missed : m <= k
  BY <1>1, <1>2, LeastNumber
<1>4. PICK p \in Seq(S) : p \notin T /\ Len(p) = m
  BY <1>3
<1>5. p # <<>>
  BY <1>4
<1>6. Front(p) \in Seq(S) /\ Len(Front(p)) = Len(p) - 1 /\ Len(p) \in Nat
  BY <1>5, FrontLast
<1>7. Front(p) \notin T
  BY <1>4, <1>5
<1>8. m <= Len(Front(p))
  BY <1>3, <1>6, <1>7
<1> QED
  BY <1>4, <1>6, <1>8

\* Paths are the sequences of names up to MaxDepth long.
LEMMA PathsAre ==
  /\ \A p : p \in Paths <=> p \in Seq(Names) /\ Len(p) <= MaxDepth
  /\ <<>> \in Paths
<1>1. MaxDepth \in Nat
  BY FileSystemAssumption
<1>2. ASSUME NEW p \in Paths
      PROVE  p \in Seq(Names) /\ Len(p) <= MaxDepth
  <2>1. PICK n \in 0 .. MaxDepth : p \in [1 .. n -> Names]
    BY DEF Paths
  <2> QED
    BY <1>1, <2>1
<1>3. ASSUME NEW p \in Seq(Names), Len(p) <= MaxDepth
      PROVE  p \in Paths
  <2>1. Len(p) \in 0 .. MaxDepth /\ p \in [1 .. Len(p) -> Names]
    BY <1>1, <1>3, LenProperties
  <2> QED
    BY <2>1 DEF Paths
<1>4. <<>> \in Seq(Names) /\ Len(<<>>) <= MaxDepth
  BY <1>1, EmptySeq
<1> QED
  BY <1>2, <1>3, <1>4

\* The path of the parent is a path.
LEMMA FrontPath ==
  ASSUME NEW p \in Paths, p # <<>>
  PROVE  Front(p) \in Paths
<1>1. p \in Seq(Names) /\ Len(p) <= MaxDepth /\ MaxDepth \in Nat
  BY PathsAre, FileSystemAssumption
<1>2. Front(p) \in Seq(Names) /\ Len(Front(p)) = Len(p) - 1 /\ Len(p) \in Nat
  BY <1>1, FrontLast
<1> QED
  BY <1>1, <1>2, PathsAre

-------------------------------------------------------------------------------
(* Walks: dfs_find_entry on any heap *)

Entered(h, at, name) ==
  CASE at.status # "DFS_OK" -> at
    [] at.status = "DFS_OK" /\ h[at.entry].type # "dir" -> Fails(at, "DFS_E_NOT_A_DIRECTORY")
    [] OTHER -> IF name \in DOMAIN h[at.entry].entries
                  THEN At(h[at.entry].entries[name])
                  ELSE Fails(at, "DFS_E_ENTRY_DOES_NOT_EXIST")

Find(h, from, path) ==
  LET walk[i \in 0 .. Len(path)] == IF i = 0 THEN At(from) ELSE Entered(h, walk[i - 1], path[i])
  IN  walk[Len(path)]

\* dfs_find_entry is Find of the heap there is, before and after a step.
LEMMA FindIs ==
  ASSUME NEW from, NEW path
  PROVE  /\ dfs_find_entry(from, path) = Find(heap, from, path)
         /\ dfs_find_entry(from, path)' = Find(heap', from, path)
<1>1. dfs_find_entry(from, path) = Find(heap, from, path)
  BY DEF dfs_find_entry, Find, Enters, dfs_get_entry, Entered
<1>2. dfs_find_entry(from, path)' = Find(heap', from, path)
  BY DEF dfs_find_entry, Find, Enters, dfs_get_entry, Entered
<1> QED
  BY <1>1, <1>2

\* The first m steps of a walk.
Walks(w, h, from, path, m) ==
  w = [i \in 0 .. m |-> IF i = 0 THEN At(from) ELSE Entered(h, w[i - 1], path[i])]

\* There is a function that satisfies the recursion of dfs_find_entry, by the number
\* of names that were walked.
LEMMA WalkExists ==
  ASSUME NEW h, NEW from, NEW path, NEW m \in Nat
  PROVE  \E w : Walks(w, h, from, path, m)
<1> DEFINE Missed == {k \in Nat : ~ \E w : Walks(w, h, from, path, k)}
<1>1. SUFFICES ASSUME Missed # {}
               PROVE  FALSE
  OBVIOUS
<1>2. PICK k \in Missed : \A l \in Missed : k <= l
  BY <1>1, LeastNumber
<1>3. k # 0
  <2>1. 0 .. 0 = {0}
    OBVIOUS
  <2>2. Walks([i \in 0 .. 0 |-> At(from)], h, from, path, 0)
    BY <2>1 DEF Walks
  <2> QED
    BY <1>2, <2>2
<1>4. k - 1 \in Nat /\ ~ (k <= k - 1)
  BY <1>2, <1>3
<1>5. PICK w : Walks(w, h, from, path, k - 1)
  BY <1>2, <1>4
<1> DEFINE v == [i \in 0 .. k |-> IF i = k THEN Entered(h, w[k - 1], path[k]) ELSE w[i]]
<1>6. \A i \in 0 .. k : v[i] = IF i = 0 THEN At(from) ELSE Entered(h, v[i - 1], path[i])
  <2> TAKE i \in 0 .. k
  <2>1. CASE i = k
    <3>1. k - 1 \in 0 .. k /\ k - 1 # k
      BY <1>2, <1>4
    <3> QED
      BY <1>3, <2>1, <3>1
  <2>2. CASE i # k
    <3>1. i \in 0 .. k - 1 /\ (i # 0 => i - 1 \in 0 .. k /\ i - 1 # k)
      BY <1>2, <2>2
    <3>2. w[i] = IF i = 0 THEN At(from) ELSE Entered(h, w[i - 1], path[i])
      BY <1>5, <3>1 DEF Walks
    <3> QED
      BY <2>2, <3>1, <3>2
  <2> QED
    BY <2>1, <2>2
<1>7. v = [i \in 0 .. k |-> IF i = 0 THEN At(from) ELSE Entered(h, v[i - 1], path[i])]
  BY <1>6
<1> HIDE DEF v
<1>8. Walks(v, h, from, path, k)
  BY <1>7 DEF Walks
<1> QED
  BY <1>2, <1>8

\* Walks along the same names come to the same places.
LEMMA WalksAgree ==
  ASSUME NEW h, NEW from, NEW p, NEW q, NEW m \in Nat, NEW k \in Nat, NEW w, NEW v,
         Walks(w, h, from, p, m), Walks(v, h, from, q, k),
         NEW l \in Nat, l <= m, l <= k, \A i \in 1 .. l : p[i] = q[i]
  PROVE  w[l] = v[l]
<1> DEFINE Missed == {i \in 0 .. l : w[i] # v[i]}
<1>1. SUFFICES ASSUME Missed # {}
               PROVE  FALSE
  BY DEF Missed
<1>8. Missed \subseteq Nat
  OBVIOUS
<1>2. PICK i \in Missed : \A j \in Missed : i <= j
  BY <1>1, <1>8, LeastNumber
<1>3. i \in 0 .. m /\ i \in 0 .. k /\ i \in 0 .. l
  BY <1>2
<1>4. /\ w[i] = IF i = 0 THEN At(from) ELSE Entered(h, w[i - 1], p[i])
      /\ v[i] = IF i = 0 THEN At(from) ELSE Entered(h, v[i - 1], q[i])
  BY <1>3 DEF Walks
<1>5. i # 0
  BY <1>2, <1>4
<1>6. i - 1 \in 0 .. l /\ ~ (i <= i - 1) /\ i \in 1 .. l
  BY <1>3, <1>5
<1>7. w[i - 1] = v[i - 1]
  BY <1>2, <1>6
<1> QED
  BY <1>2, <1>4, <1>5, <1>6, <1>7

\* Find returns what such a function has for the whole path.
LEMMA FindWalks ==
  ASSUME NEW h, NEW from, NEW path \in Seq(Names)
  PROVE  \E w : Walks(w, h, from, path, Len(path)) /\ Find(h, from, path) = w[Len(path)]
<1> DEFINE walk == CHOOSE w : Walks(w, h, from, path, Len(path))
<1>1. Len(path) \in Nat
  BY LenProperties
<1>2. \E w : Walks(w, h, from, path, Len(path))
  BY <1>1, WalkExists
<1>3. Walks(walk, h, from, path, Len(path))
  BY <1>2
<1>4. Find(h, from, path) = walk[Len(path)]
  BY DEF Find, Walks
<1> QED
  BY <1>3, <1>4

\* The empty path ends where it starts.
LEMMA FindEmpty ==
  ASSUME NEW h, NEW from
  PROVE  Find(h, from, <<>>) = At(from)
<1>1. <<>> \in Seq(Names) /\ Len(<<>>) = 0
  BY EmptySeq
<1>2. PICK w : Walks(w, h, from, <<>>, 0) /\ Find(h, from, <<>>) = w[0]
  BY <1>1, FindWalks
<1>3. w[0] = At(from)
  BY <1>2 DEF Walks
<1> QED
  BY <1>2, <1>3

\* A walk is the walk to the parent and one more step: the recursion, from its end.
LEMMA FindLast ==
  ASSUME NEW h, NEW from, NEW p \in Seq(Names), p # <<>>
  PROVE  Find(h, from, p) = Entered(h, Find(h, from, Front(p)), Last(p))
<1>1. PICK f \in Seq(Names) : f = Front(p)
  BY FrontLast
<1>2. PICK m \in Nat : m = Len(p) /\ m >= 1 /\ Len(f) = m - 1 /\ \A i \in 1 .. m - 1 : f[i] = p[i]
  BY <1>1, FrontLast
<1>3. PICK w : Walks(w, h, from, p, m) /\ Find(h, from, p) = w[m]
  BY <1>2, FindWalks
<1>4. PICK v : Walks(v, h, from, f, m - 1) /\ Find(h, from, f) = v[m - 1]
  BY <1>2, FindWalks
<1>5. w[m - 1] = v[m - 1]
  <2>1. m - 1 \in Nat /\ m - 1 <= m /\ m - 1 <= m - 1
    BY <1>2
  <2>2. \A i \in 1 .. m - 1 : p[i] = f[i]
    BY <1>2
  <2> QED
    BY <1>3, <1>4, <2>1, <2>2, WalksAgree
<1>6. w[m] = Entered(h, w[m - 1], p[m])
  <2>1. m \in 0 .. m /\ m # 0
    BY <1>2
  <2> QED
    BY <1>3, <2>1 DEF Walks
<1>7. p[m] = Last(p)
  BY <1>2 DEF Last
<1> QED
  BY <1>1, <1>3, <1>4, <1>5, <1>6, <1>7

-------------------------------------------------------------------------------
(* Heaps *)

Maps == UNION {[names -> Entries] : names \in SUBSET Names}
Nodes == [type : {"dir", "file"}, contents : Seq(Bytes), entries : Maps]
IsHeap(h) == DOMAIN h \subseteq Entries /\ h \in [DOMAIN h -> Nodes]

\* What TreeSound says, link by link, and that every entry is at some path.
Linked(h, r) == \A e \in DOMAIN h : \A n \in DOMAIN h[e].entries :
                  h[e].entries[n] \in DOMAIN h /\ h[e].entries[n] # r
Once(h) == \A e, f \in DOMAIN h : \A n \in DOMAIN h[e].entries, m \in DOMAIN h[f].entries :
             h[e].entries[n] = h[f].entries[m] => e = f /\ n = m
Plain(h) == \A e \in DOMAIN h :
              /\ h[e].type = "dir" => h[e].contents = <<>>
              /\ h[e].type = "file" => h[e].entries = NoNames
              /\ IsFiniteSet(DOMAIN h[e].entries)
Reached(h, r) == \A e \in DOMAIN h : \E p \in Paths : Find(h, r, p) = At(e)
Good(h, r) == r \in DOMAIN h /\ Linked(h, r) /\ Once(h) /\ Plain(h) /\ Reached(h, r)

Places(h) == [status : {"DFS_OK", "DFS_E_ENTRY_DOES_NOT_EXIST", "DFS_E_NOT_A_DIRECTORY"},
              entry : DOMAIN h]

\* The fields of an entry in memory.
LEMMA NodeParts ==
  ASSUME NEW h, IsHeap(h), NEW e \in DOMAIN h
  PROVE  /\ e \in Entries /\ h[e] \in Nodes
         /\ h[e].type \in {"dir", "file"} /\ h[e].contents \in Seq(Bytes)
         /\ DOMAIN h[e].entries \subseteq Names
         /\ \A n \in DOMAIN h[e].entries : h[e].entries[n] \in Entries
         /\ h[e].entries = [n \in DOMAIN h[e].entries |-> h[e].entries[n]]
<1>1. h[e] \in Nodes /\ e \in Entries
  BY DEF IsHeap
<1>2. h[e].type \in {"dir", "file"} /\ h[e].contents \in Seq(Bytes) /\ h[e].entries \in Maps
  BY <1>1 DEF Nodes
<1>3. PICK names \in SUBSET Names : h[e].entries \in [names -> Entries]
  BY <1>2 DEF Maps
<1> QED
  BY <1>1, <1>2, <1>3

\* A new entry is an entry.
LEMMA NodeMade ==
  ASSUME NEW type \in {"dir", "file"}, NEW contents \in Seq(Bytes),
         NEW names \in SUBSET Names, NEW entries \in [names -> Entries]
  PROVE  Node(type, contents, entries) \in Nodes
<1>1. entries \in Maps
  BY DEF Maps
<1> QED
  BY <1>1 DEF Node, Nodes

\* What dfs_create_dir and dfs_create_file return.
LEMMA NewNodes ==
  /\ NoNames \in [{} -> Entries] /\ DOMAIN NoNames = {}
  /\ dfs_create_dir \in Nodes /\ dfs_create_file \in Nodes
  /\ dfs_create_dir.entries = NoNames /\ dfs_create_file.entries = NoNames
  /\ dfs_create_dir.contents = <<>> /\ dfs_create_file.contents = <<>>
  /\ dfs_create_dir.type = "dir" /\ dfs_create_file.type = "file"
<1>1. NoNames \in [{} -> Entries] /\ DOMAIN NoNames = {}
  BY DEF NoNames
<1>2. <<>> \in Seq(Bytes)
  BY EmptySeq
<1>3. dfs_create_dir \in Nodes /\ dfs_create_file \in Nodes
  <2>1. {} \in SUBSET Names
    OBVIOUS
  <2> QED
    BY <1>1, <1>2, <2>1, NodeMade DEF dfs_create_dir, dfs_create_file
<1> QED
  BY <1>1, <1>3 DEF dfs_create_dir, dfs_create_file, Node

\* One step of a walk, case by case.
LEMMA Enter ==
  ASSUME NEW h, NEW at \in Places(h), NEW n
  PROVE  /\ at.status # "DFS_OK" => Entered(h, at, n) = at
         /\ at.status = "DFS_OK" /\ h[at.entry].type # "dir" =>
              Entered(h, at, n) = [status |-> "DFS_E_NOT_A_DIRECTORY", entry |-> at.entry]
         /\ at.status = "DFS_OK" /\ h[at.entry].type = "dir" /\ n \notin DOMAIN h[at.entry].entries =>
              Entered(h, at, n) = [status |-> "DFS_E_ENTRY_DOES_NOT_EXIST", entry |-> at.entry]
         /\ at.status = "DFS_OK" /\ h[at.entry].type = "dir" /\ n \in DOMAIN h[at.entry].entries =>
              Entered(h, at, n) = At(h[at.entry].entries[n])
<1>1. ASSUME NEW status
      PROVE  Fails(at, status) = [status |-> status, entry |-> at.entry]
  BY DEF Fails, Places
<1> QED
  BY <1>1 DEF Entered

\* Every lookup ends at an entry in memory, with one of three answers.
LEMMA FindShape ==
  ASSUME NEW h, NEW r, Linked(h, r), NEW from \in DOMAIN h
  PROVE  \A p \in Seq(Names) : Find(h, from, p) \in Places(h)
<1> DEFINE T == {p \in Seq(Names) : Find(h, from, p) \in Places(h)}
<1>1. <<>> \in T
  BY FindEmpty, EmptySeq DEF At, Places
<1>2. ASSUME NEW p \in Seq(Names), p # <<>>, Front(p) \in T
      PROVE  p \in T
  <2>1. PICK at \in Places(h) : at = Find(h, from, Front(p))
    BY <1>2
  <2>2. Find(h, from, p) = Entered(h, at, Last(p))
    BY <1>2, <2>1, FindLast
  <2>3. /\ at.entry \in DOMAIN h
        /\ at.status \in {"DFS_OK", "DFS_E_ENTRY_DOES_NOT_EXIST", "DFS_E_NOT_A_DIRECTORY"}
    BY DEF Places
  <2>4. Last(p) \in DOMAIN h[at.entry].entries => h[at.entry].entries[Last(p)] \in DOMAIN h
    BY <2>3 DEF Linked
  <2>5. Entered(h, at, Last(p)) \in Places(h)
    <3>1. CASE at.status # "DFS_OK"
      BY <3>1, Enter
    <3>2. CASE at.status = "DFS_OK" /\ h[at.entry].type # "dir"
      BY <2>3, <3>2, Enter DEF Places
    <3>3. CASE at.status = "DFS_OK" /\ h[at.entry].type = "dir" /\ Last(p) \notin DOMAIN h[at.entry].entries
      BY <2>3, <3>3, Enter DEF Places
    <3>4. CASE at.status = "DFS_OK" /\ h[at.entry].type = "dir" /\ Last(p) \in DOMAIN h[at.entry].entries
      BY <2>4, <3>4, Enter DEF Places, At
    <3> QED
      BY <3>1, <3>2, <3>3, <3>4
  <2> QED
    BY <2>2, <2>5
<1> HIDE DEF T
<1>3. \A p \in Seq(Names) : p \in T
  BY <1>1, <1>2, PathInduction
<1> QED
  BY <1>3 DEF T

\* What is found under a path is found in the directory that is its parent.
LEMMA FoundIn ==
  ASSUME NEW h, NEW r, Linked(h, r), NEW from \in DOMAIN h, NEW p \in Seq(Names), p # <<>>,
         NEW d, Find(h, from, Front(p)) = d
  PROVE  /\ d \in Places(h)
         /\ Find(h, from, p).status = "DFS_OK" <=>
              /\ d = At(d.entry) /\ d.entry \in DOMAIN h /\ h[d.entry].type = "dir"
              /\ Last(p) \in DOMAIN h[d.entry].entries
         /\ Find(h, from, p).status = "DFS_OK" =>
              Find(h, from, p) = At(h[d.entry].entries[Last(p)])
         /\ Find(h, from, p).status = "DFS_E_NOT_A_DIRECTORY" <=>
              \/ d.status = "DFS_E_NOT_A_DIRECTORY"
              \/ d.status = "DFS_OK" /\ h[d.entry].type # "dir"
<1>1. d \in Places(h)
  BY FindShape, FrontLast
<1>2. Find(h, from, p) = Entered(h, d, Last(p))
  BY FindLast
<1>3. d.entry \in DOMAIN h /\ (d.status = "DFS_OK" <=> d = At(d.entry))
  BY <1>1 DEF Places, At
<1>4. \A x : At(x).status = "DFS_OK"
  BY DEF At
<1>5. CASE d.status # "DFS_OK"
  BY <1>1, <1>2, <1>3, <1>5, Enter
<1>6. CASE d.status = "DFS_OK" /\ h[d.entry].type # "dir"
  BY <1>1, <1>2, <1>3, <1>6, Enter
<1>7. CASE d.status = "DFS_OK" /\ h[d.entry].type = "dir" /\ Last(p) \notin DOMAIN h[d.entry].entries
  BY <1>1, <1>2, <1>3, <1>7, Enter
<1>8. CASE d.status = "DFS_OK" /\ h[d.entry].type = "dir" /\ Last(p) \in DOMAIN h[d.entry].entries
  <2>1. Find(h, from, p) = At(h[d.entry].entries[Last(p)])
    BY <1>1, <1>2, <1>8, Enter
  <2> QED
    BY <1>1, <1>3, <1>4, <1>8, <2>1
<1> QED
  BY <1>5, <1>6, <1>7, <1>8

\* The step into a directory that holds the name.
LEMMA FoundAt ==
  ASSUME NEW h, NEW from, NEW p \in Seq(Names), p # <<>>,
         NEW d \in DOMAIN h, Find(h, from, Front(p)) = At(d),
         h[d].type = "dir", Last(p) \in DOMAIN h[d].entries
  PROVE  Find(h, from, p) = At(h[d].entries[Last(p)])
<1>1. Find(h, from, p) = Entered(h, At(d), Last(p))
  BY FindLast
<1>2. At(d) \in Places(h) /\ At(d).status = "DFS_OK" /\ At(d).entry = d
  BY DEF At, Places
<1> QED
  BY <1>1, <1>2, Enter

\* No two paths lead to one entry.
LEMMA FindOnce ==
  ASSUME NEW h, NEW r \in DOMAIN h, Linked(h, r), Once(h)
  PROVE  \A p, q \in Seq(Names) :
           /\ Find(h, r, p).status = "DFS_OK" /\ Find(h, r, q).status = "DFS_OK"
           /\ Find(h, r, p).entry = Find(h, r, q).entry
           => p = q
<1> DEFINE Same(p, q) == /\ Find(h, r, p).status = "DFS_OK" /\ Find(h, r, q).status = "DFS_OK"
                         /\ Find(h, r, p).entry = Find(h, r, q).entry
           T == {p \in Seq(Names) : \A q \in Seq(Names) : Same(p, q) => p = q}
<1>1. \A x : At(x).entry = x
  BY DEF At
<1>2. ASSUME NEW q \in Seq(Names), q # <<>>, Find(h, r, q).status = "DFS_OK"
      PROVE  \E e \in DOMAIN h :
               /\ Find(h, r, Front(q)) = At(e) /\ Last(q) \in DOMAIN h[e].entries
               /\ Find(h, r, q).entry = h[e].entries[Last(q)]
  <2>1. PICK d : d = Find(h, r, Front(q))
    OBVIOUS
  <2> QED
    BY <1>1, <1>2, <2>1, FoundIn
<1>3. \A q \in Seq(Names) : q # <<>> /\ Find(h, r, q).status = "DFS_OK" => Find(h, r, q).entry # r
  BY <1>2 DEF Linked
<1>4. <<>> \in T
  <2>1. <<>> \in Seq(Names) /\ Find(h, r, <<>>).entry = r
    BY <1>1, FindEmpty, EmptySeq
  <2> QED
    BY <1>3, <2>1
<1>5. ASSUME NEW p \in Seq(Names), p # <<>>, Front(p) \in T, NEW q \in Seq(Names), Same(p, q)
      PROVE  p = q
  <2>1. Find(h, r, p).entry # r
    BY <1>3, <1>5
  <2>2. q # <<>>
    BY <1>1, <1>5, <2>1, FindEmpty
  <2>3. PICK e \in DOMAIN h : /\ Find(h, r, Front(p)) = At(e) /\ Last(p) \in DOMAIN h[e].entries
                              /\ Find(h, r, p).entry = h[e].entries[Last(p)]
    BY <1>2, <1>5
  <2>4. PICK f \in DOMAIN h : /\ Find(h, r, Front(q)) = At(f) /\ Last(q) \in DOMAIN h[f].entries
                              /\ Find(h, r, q).entry = h[f].entries[Last(q)]
    BY <1>2, <1>5, <2>2
  <2>5. e = f /\ Last(p) = Last(q)
    <3>1. h[e].entries[Last(p)] = h[f].entries[Last(q)]
      BY <1>5, <2>3, <2>4
    <3> QED
      BY <2>3, <2>4, <3>1 DEF Once
  <2>6. Front(q) \in Seq(Names)
    BY <2>2, FrontLast
  <2>7. Front(p) = Front(q)
    BY <1>5, <2>3, <2>4, <2>5, <2>6 DEF At
  <2>8. p = Append(Front(p), Last(p)) /\ q = Append(Front(q), Last(q))
    BY <1>5, <2>2, FrontLast
  <2> QED
    BY <2>5, <2>7, <2>8
<1>6. \A p \in Seq(Names) : p # <<>> /\ Front(p) \in T => p \in T
  BY <1>5
<1> HIDE DEF T
<1>7. \A p \in Seq(Names) : p \in T
  BY <1>4, <1>6, PathInduction
<1> QED
  BY <1>7 DEF T

\* The names of a directory that is found lead on, within the bound on paths.
LEMMA ChildFound ==
  ASSUME NEW h, IsHeap(h), NEW r, Good(h, r), NEW q \in Seq(Names), q # <<>>,
         NEW d \in DOMAIN h, Find(h, r, Front(q)) = At(d), Last(q) \in DOMAIN h[d].entries
  PROVE  q \in Paths /\ h[d].type = "dir" /\ Find(h, r, q) = At(h[d].entries[Last(q)])
<1>1. h[d].type = "dir"
  <2>1. h[d].type # "file"
    BY NewNodes DEF Good, Plain
  <2> QED
    BY <2>1, NodeParts
<1>2. Find(h, r, q) = At(h[d].entries[Last(q)])
  BY <1>1, FoundAt
<1>3. q \in Paths
  <2>1. h[d].entries[Last(q)] \in DOMAIN h
    BY DEF Good, Linked
  <2>2. PICK o \in Paths : Find(h, r, o) = At(h[d].entries[Last(q)])
    BY <2>1 DEF Good, Reached
  <2>3. o \in Seq(Names)
    BY PathsAre
  <2>4. r \in DOMAIN h /\ Linked(h, r) /\ Once(h)
    BY DEF Good
  <2>5. \A x : At(x).status = "DFS_OK"
    BY DEF At
  <2>6. o = q
    BY <1>2, <2>2, <2>3, <2>4, <2>5, FindOnce
  <2> QED
    BY <2>6
<1> QED
  BY <1>1, <1>2, <1>3

\* The reverse: what is found is in a directory that is found.
LEMMA FoundUnder ==
  ASSUME NEW h, NEW r, Linked(h, r), NEW from \in DOMAIN h, NEW p \in Seq(Names), p # <<>>,
         Find(h, from, p).status = "DFS_OK"
  PROVE  \E d \in DOMAIN h :
           /\ Find(h, from, Front(p)) = At(d) /\ h[d].type = "dir" /\ Last(p) \in DOMAIN h[d].entries
           /\ Find(h, from, p) = At(h[d].entries[Last(p)])
<1>1. PICK at : at = Find(h, from, Front(p))
  OBVIOUS
<1>2. /\ at = At(at.entry) /\ at.entry \in DOMAIN h /\ h[at.entry].type = "dir"
      /\ Last(p) \in DOMAIN h[at.entry].entries
  BY <1>1, FoundIn
<1>3. Find(h, from, Front(p)) = At(at.entry)
  BY <1>1, <1>2
<1>4. Find(h, from, p) = At(h[at.entry].entries[Last(p)])
  BY <1>2, <1>3, FoundAt
<1> QED
  BY <1>2, <1>3, <1>4

\* What At says of an entry.
LEMMA AtParts ==
  /\ \A x : At(x).status = "DFS_OK" /\ At(x).entry = x
  /\ \A x, y : At(x) = At(y) => x = y
<1>1. \A x : At(x).status = "DFS_OK" /\ At(x).entry = x
  BY DEF At
<1> QED
  BY <1>1

\* A lookup that succeeds is At of the entry found.
LEMMA FoundIsAt ==
  ASSUME NEW h, NEW at \in Places(h), at.status = "DFS_OK"
  PROVE  at = At(at.entry) /\ at.entry \in DOMAIN h
BY DEF Places, At

-------------------------------------------------------------------------------
(* A heap with one entry more *)

Grown(h, d, n, e, node) ==
  [x \in DOMAIN h \cup {e} |->
     CASE x = e -> node
       [] x = d -> [h[d] EXCEPT !.entries =
                      [m \in DOMAIN @ \cup {n} |-> IF m = n THEN e ELSE @[m]]]
       [] OTHER -> h[x]]

IsGrown(k, h, d, n, e, node) ==
  /\ DOMAIN k = DOMAIN h \cup {e} /\ k[e] = node /\ e # d
  /\ \A x \in DOMAIN h : k[x].type = h[x].type /\ k[x].contents = h[x].contents
  /\ \A x \in DOMAIN h : x # d => k[x] = h[x]
  /\ DOMAIN k[d].entries = DOMAIN h[d].entries \cup {n}
  /\ k[d].entries[n] = e
  /\ \A m \in DOMAIN h[d].entries : m # n => k[d].entries[m] = h[d].entries[m]

\* Making an entry: the heap after it, field by field.
LEMMA GrownParts ==
  ASSUME NEW h, IsHeap(h), NEW d \in DOMAIN h, NEW n \in Names, NEW e \in Entries \ DOMAIN h,
         NEW node \in Nodes, NEW k, k = Grown(h, d, n, e, node)
  PROVE  IsHeap(k) /\ IsGrown(k, h, d, n, e, node)
<1> DEFINE entries == [m \in DOMAIN h[d].entries \cup {n} |-> IF m = n THEN e ELSE h[d].entries[m]]
<1>1. k = [x \in DOMAIN h \cup {e} |->
             CASE x = e -> node [] x = d -> [h[d] EXCEPT !.entries = entries] [] OTHER -> h[x]]
  BY DEF Grown
<1>2. h[d] \in Nodes /\ DOMAIN h[d].entries \subseteq Names
      /\ \A m \in DOMAIN h[d].entries : h[d].entries[m] \in Entries
  BY NodeParts
<1>3. entries \in Maps
  <2>1. DOMAIN h[d].entries \cup {n} \in SUBSET Names
    BY <1>2
  <2>2. entries \in [DOMAIN h[d].entries \cup {n} -> Entries]
    BY <1>2
  <2> QED
    BY <2>1, <2>2 DEF Maps
<1>4. PICK new : new = entries
  OBVIOUS
<1>5. /\ DOMAIN new = DOMAIN h[d].entries \cup {n} /\ new[n] = e
      /\ \A m \in DOMAIN h[d].entries : m # n => new[m] = h[d].entries[m]
  BY <1>4
<1> HIDE DEF entries
<1>6. PICK dir : dir = [h[d] EXCEPT !.entries = new]
  OBVIOUS
<1>7. dir \in Nodes /\ dir.entries = new /\ dir.type = h[d].type /\ dir.contents = h[d].contents
  BY <1>2, <1>3, <1>4, <1>6 DEF Nodes
<1>8. k = [x \in DOMAIN h \cup {e} |-> CASE x = e -> node [] x = d -> dir [] OTHER -> h[x]]
  BY <1>1, <1>4, <1>6, Zenon
<1>9. /\ DOMAIN k = DOMAIN h \cup {e} /\ k[e] = node /\ e # d /\ k[d] = dir
      /\ \A x \in DOMAIN h : x # d => k[x] = h[x]
  BY <1>8
<1>10. IsHeap(k)
  <2>1. \A x \in DOMAIN h : h[x] \in Nodes /\ x \in Entries
    BY NodeParts
  <2>2. \A x \in DOMAIN k : k[x] \in Nodes
    BY <1>7, <1>9, <2>1
  <2>3. DOMAIN k \subseteq Entries
    BY <1>9, <2>1
  <2>4. k = [x \in DOMAIN k |-> k[x]]
    BY <1>8
  <2> QED
    BY <2>2, <2>3, <2>4 DEF IsHeap
<1> QED
  BY <1>5, <1>7, <1>9, <1>10 DEF IsGrown

\* The tree stays sound, and has the new path and what it had.
LEMMA GrownGood ==
  ASSUME NEW h, IsHeap(h), NEW r, Good(h, r), NEW path \in Paths, path # <<>>,
         NEW d \in DOMAIN h, Find(h, r, Front(path)) = At(d), h[d].type = "dir",
         Last(path) \notin DOMAIN h[d].entries, NEW e \in Entries \ DOMAIN h,
         NEW node \in {dfs_create_dir, dfs_create_file},
         NEW k, k = Grown(h, d, Last(path), e, node)
  PROVE  /\ IsHeap(k) /\ Good(k, r)
         /\ Find(k, r, path) = At(e)
         /\ \A p \in Seq(Names) : Find(h, r, p).status = "DFS_OK" => Find(k, r, p) = Find(h, r, p)
<1>1. path \in Seq(Names) /\ Front(path) \in Seq(Names) /\ Last(path) \in Names
  BY PathsAre, FrontLast
<1>2. PICK n \in Names : n = Last(path) /\ k = Grown(h, d, n, e, node)
  BY <1>1
<1>3. node \in Nodes /\ node.entries = NoNames /\ DOMAIN node.entries = {} /\ node.contents = <<>>
  BY NewNodes
<1>4. /\ IsHeap(k) /\ DOMAIN k = DOMAIN h \cup {e} /\ k[e] = node /\ e # d
      /\ \A x \in DOMAIN h : k[x].type = h[x].type /\ k[x].contents = h[x].contents
      /\ \A x \in DOMAIN h : x # d => k[x] = h[x]
      /\ DOMAIN k[d].entries = DOMAIN h[d].entries \cup {n}
      /\ k[d].entries[n] = e
      /\ \A m \in DOMAIN h[d].entries : m # n => k[d].entries[m] = h[d].entries[m]
  <2>1. node \in Nodes /\ k = Grown(h, d, n, e, node)
    BY <1>2, <1>3
  <2>2. IsHeap(k) /\ IsGrown(k, h, d, n, e, node)
    BY <1>2, <2>1, GrownParts
  <2> QED
    BY <2>2 DEF IsGrown
<1>5. /\ r \in DOMAIN h /\ Linked(h, r) /\ Once(h) /\ Plain(h) /\ Reached(h, r)
  BY DEF Good
<1>6. n \notin DOMAIN h[d].entries
  BY <1>2
<1>7. \A x \in DOMAIN h : \A m \in DOMAIN h[x].entries :
        m \in DOMAIN k[x].entries /\ k[x].entries[m] = h[x].entries[m]
  BY <1>4, <1>6
<1>8. \A x \in DOMAIN k : \A m \in DOMAIN k[x].entries :
        \/ x = d /\ m = n /\ k[x].entries[m] = e
        \/ x \in DOMAIN h /\ m \in DOMAIN h[x].entries /\ k[x].entries[m] = h[x].entries[m]
  <2> SUFFICES ASSUME NEW x \in DOMAIN k, NEW m \in DOMAIN k[x].entries
               PROVE  \/ x = d /\ m = n /\ k[x].entries[m] = e
                      \/ x \in DOMAIN h /\ m \in DOMAIN h[x].entries /\ k[x].entries[m] = h[x].entries[m]
    OBVIOUS
  <2>1. x # e
    BY <1>3, <1>4
  <2>2. x \in DOMAIN h
    BY <1>4, <2>1
  <2>3. CASE x = d
    BY <1>4, <2>2, <2>3
  <2>4. CASE x # d
    BY <1>4, <2>2, <2>4
  <2> QED
    BY <2>3, <2>4
<1>9. Linked(k, r)
  <2>1. e # r
    BY <1>5
  <2> QED
    BY <1>4, <1>5, <1>8, <2>1 DEF Linked
<1>10. Once(k)
  <2>1. \A x \in DOMAIN h : \A m \in DOMAIN h[x].entries : h[x].entries[m] # e
    BY <1>5 DEF Linked
  <2> SUFFICES ASSUME NEW x \in DOMAIN k, NEW y \in DOMAIN k, NEW m \in DOMAIN k[x].entries,
                      NEW o \in DOMAIN k[y].entries, k[x].entries[m] = k[y].entries[o]
               PROVE  x = y /\ m = o
    BY DEF Once
  <2>2. CASE x = d /\ m = n /\ k[x].entries[m] = e
    BY <1>8, <2>1, <2>2
  <2>3. CASE x \in DOMAIN h /\ m \in DOMAIN h[x].entries /\ k[x].entries[m] = h[x].entries[m]
    <3>1. k[y].entries[o] # e
      BY <2>1, <2>3
    <3>2. y \in DOMAIN h /\ o \in DOMAIN h[y].entries /\ k[y].entries[o] = h[y].entries[o]
      BY <1>8, <3>1
    <3>3. h[x].entries[m] = h[y].entries[o]
      BY <2>3, <3>2
    <3> QED
      BY <1>5, <2>3, <3>2, <3>3 DEF Once
  <2> QED
    BY <1>8, <2>2, <2>3
<1>11. Plain(k)
  <2> SUFFICES ASSUME NEW x \in DOMAIN k
               PROVE  /\ k[x].type = "dir" => k[x].contents = <<>>
                      /\ k[x].type = "file" => k[x].entries = NoNames
                      /\ IsFiniteSet(DOMAIN k[x].entries)
    BY DEF Plain
  <2>1. CASE x = e
    BY <1>3, <1>4, <2>1, FS_EmptySet
  <2>2. CASE x = d
    <3>1. IsFiniteSet(DOMAIN h[d].entries)
      BY <1>5 DEF Plain
    <3>2. IsFiniteSet(DOMAIN k[d].entries)
      BY <1>4, <3>1, FS_AddElement
    <3> QED
      BY <1>4, <1>5, <2>2, <3>2 DEF Plain
  <2>3. CASE x # e /\ x # d
    <3>1. x \in DOMAIN h /\ k[x] = h[x]
      BY <1>4, <2>3
    <3> QED
      BY <1>5, <3>1 DEF Plain
  <2> QED
    BY <2>1, <2>2, <2>3
<1>12. \A p \in Seq(Names) : Find(h, r, p).status = "DFS_OK" => Find(k, r, p) = Find(h, r, p)
  <2> DEFINE T == {p \in Seq(Names) : Find(h, r, p).status = "DFS_OK" => Find(k, r, p) = Find(h, r, p)}
  <2>1. <<>> \in T
    BY FindEmpty, EmptySeq
  <2>2. ASSUME NEW p \in Seq(Names), p # <<>>, Front(p) \in T, Find(h, r, p).status = "DFS_OK"
        PROVE  Find(k, r, p) = Find(h, r, p)
    <3>1. PICK x \in DOMAIN h :
            /\ Find(h, r, Front(p)) = At(x) /\ h[x].type = "dir" /\ Last(p) \in DOMAIN h[x].entries
            /\ Find(h, r, p) = At(h[x].entries[Last(p)])
      BY <1>5, <2>2, FoundUnder
    <3>2. Find(k, r, Front(p)) = At(x)
      BY <2>2, <3>1, AtParts
    <3>3. /\ x \in DOMAIN k /\ k[x].type = "dir" /\ Last(p) \in DOMAIN k[x].entries
          /\ k[x].entries[Last(p)] = h[x].entries[Last(p)]
      BY <1>4, <1>7, <3>1
    <3>4. Find(k, r, p) = At(k[x].entries[Last(p)])
      BY <2>2, <3>2, <3>3, FoundAt
    <3> QED
      BY <3>1, <3>3, <3>4
  <2>3. \A p \in Seq(Names) : p # <<>> /\ Front(p) \in T => p \in T
    BY <2>2
  <2> HIDE DEF T
  <2>4. \A p \in Seq(Names) : p \in T
    BY <2>1, <2>3, PathInduction
  <2> QED
    BY <2>4 DEF T
<1>13. Find(k, r, path) = At(e)
  <2>1. Find(k, r, Front(path)) = At(d)
    BY <1>1, <1>12, AtParts
  <2>2. /\ d \in DOMAIN k /\ k[d].type = "dir" /\ Last(path) \in DOMAIN k[d].entries
        /\ k[d].entries[Last(path)] = e
    BY <1>2, <1>4
  <2> QED
    BY <1>1, <2>1, <2>2, FoundAt
<1>14. Reached(k, r)
  <2> SUFFICES ASSUME NEW x \in DOMAIN k
               PROVE  \E p \in Paths : Find(k, r, p) = At(x)
    BY DEF Reached
  <2>1. CASE x = e
    BY <1>13, <2>1
  <2>2. CASE x # e
    <3>1. PICK p \in Paths : Find(h, r, p) = At(x)
      BY <1>4, <1>5, <2>2 DEF Reached
    <3>2. Find(k, r, p) = At(x)
      BY <1>12, <3>1, PathsAre, AtParts
    <3> QED
      BY <3>2
  <2> QED
    BY <2>1, <2>2
<1>15. Good(k, r)
  BY <1>4, <1>5, <1>9, <1>10, <1>11, <1>14 DEF Good
<1> QED
  BY <1>4, <1>12, <1>13, <1>15

-------------------------------------------------------------------------------
(* A heap with one entry less *)

Shrunk(h, d, n, c) ==
  [x \in DOMAIN h \ {c} |->
     IF x = d THEN [h[d] EXCEPT !.entries = [m \in DOMAIN @ \ {n} |-> @[m]]] ELSE h[x]]

IsShrunk(k, h, d, n, c) ==
  /\ DOMAIN k = DOMAIN h \ {c}
  /\ \A x \in DOMAIN k : k[x].type = h[x].type /\ k[x].contents = h[x].contents
  /\ \A x \in DOMAIN k : x # d => k[x] = h[x]
  /\ DOMAIN k[d].entries = DOMAIN h[d].entries \ {n}
  /\ \A m \in DOMAIN k[d].entries : k[d].entries[m] = h[d].entries[m]

\* Removing an entry: the heap after it, field by field.
LEMMA ShrunkParts ==
  ASSUME NEW h, IsHeap(h), NEW c, NEW d \in DOMAIN h, d # c, NEW n, NEW k, k = Shrunk(h, d, n, c)
  PROVE  IsHeap(k) /\ IsShrunk(k, h, d, n, c)
<1> DEFINE entries == [m \in DOMAIN h[d].entries \ {n} |-> h[d].entries[m]]
<1>1. k = [x \in DOMAIN h \ {c} |->
             IF x = d THEN [h[d] EXCEPT !.entries = entries] ELSE h[x]]
  BY DEF Shrunk
<1>2. h[d] \in Nodes /\ DOMAIN h[d].entries \subseteq Names
      /\ \A m \in DOMAIN h[d].entries : h[d].entries[m] \in Entries
  BY NodeParts
<1>3. entries \in Maps
  <2>1. DOMAIN h[d].entries \ {n} \in SUBSET Names
    BY <1>2
  <2>2. entries \in [DOMAIN h[d].entries \ {n} -> Entries]
    BY <1>2
  <2> QED
    BY <2>1, <2>2 DEF Maps
<1>4. PICK new : new = entries
  OBVIOUS
<1>5. /\ DOMAIN new = DOMAIN h[d].entries \ {n}
      /\ \A m \in DOMAIN new : new[m] = h[d].entries[m]
  BY <1>4
<1> HIDE DEF entries
<1>6. PICK dir : dir = [h[d] EXCEPT !.entries = new]
  OBVIOUS
<1>7. dir \in Nodes /\ dir.entries = new /\ dir.type = h[d].type /\ dir.contents = h[d].contents
  BY <1>2, <1>3, <1>4, <1>6 DEF Nodes
<1>8. k = [x \in DOMAIN h \ {c} |-> IF x = d THEN dir ELSE h[x]]
  BY <1>1, <1>4, <1>6, Zenon
<1>9. /\ DOMAIN k = DOMAIN h \ {c} /\ k[d] = dir
      /\ \A x \in DOMAIN k : x # d => k[x] = h[x]
  BY <1>8
<1>10. IsHeap(k)
  <2>1. \A x \in DOMAIN h : h[x] \in Nodes /\ x \in Entries
    BY NodeParts
  <2>2. \A x \in DOMAIN k : k[x] \in Nodes
    BY <1>7, <1>9, <2>1
  <2>3. DOMAIN k \subseteq Entries
    BY <1>9, <2>1
  <2>4. k = [x \in DOMAIN k |-> k[x]]
    BY <1>8
  <2> QED
    BY <2>2, <2>3, <2>4 DEF IsHeap
<1> QED
  BY <1>5, <1>7, <1>9, <1>10 DEF IsShrunk

\* The tree stays sound without a file or an empty directory, and has what it
\* had but that.
LEMMA ShrunkGood ==
  ASSUME NEW h, IsHeap(h), NEW r, Good(h, r), NEW path \in Paths, path # <<>>,
         NEW d \in DOMAIN h, Find(h, r, Front(path)) = At(d), h[d].type = "dir",
         Last(path) \in DOMAIN h[d].entries, NEW c, c = h[d].entries[Last(path)],
         h[c].entries = NoNames,
         NEW k, k = Shrunk(h, d, Last(path), c)
  PROVE  /\ IsHeap(k) /\ Good(k, r)
         /\ \A p \in Seq(Names) : Find(h, r, p).status = "DFS_OK" /\ Find(h, r, p).entry # c =>
                                    Find(k, r, p) = Find(h, r, p)
<1>1. path \in Seq(Names) /\ Front(path) \in Seq(Names)
  BY PathsAre, FrontLast
<1>2. PICK n : n = Last(path) /\ k = Shrunk(h, d, n, c)
  OBVIOUS
<1>3. /\ r \in DOMAIN h /\ Linked(h, r) /\ Once(h) /\ Plain(h) /\ Reached(h, r)
  BY DEF Good
<1>4. c \in DOMAIN h /\ c # r
  BY <1>3 DEF Linked
<1>5. DOMAIN h[c].entries = {}
  BY NewNodes
<1>6. d # c
  BY <1>5
<1>7. IsHeap(k) /\ IsShrunk(k, h, d, n, c)
  BY <1>2, <1>6, ShrunkParts
<1>8. /\ DOMAIN k = DOMAIN h \ {c}
      /\ \A x \in DOMAIN k : k[x].type = h[x].type /\ k[x].contents = h[x].contents
      /\ \A x \in DOMAIN k : x # d => k[x] = h[x]
      /\ DOMAIN k[d].entries = DOMAIN h[d].entries \ {n}
      /\ \A m \in DOMAIN k[d].entries : k[d].entries[m] = h[d].entries[m]
  BY <1>7 DEF IsShrunk
<1>9. \A x \in DOMAIN k : \A m : m \in DOMAIN k[x].entries <=>
        m \in DOMAIN h[x].entries /\ ~ (x = d /\ m = n)
  BY <1>8
<1>10. \A x \in DOMAIN k : \A m \in DOMAIN k[x].entries :
         x \in DOMAIN h /\ m \in DOMAIN h[x].entries /\ k[x].entries[m] = h[x].entries[m]
  BY <1>8
<1>11. \A x \in DOMAIN h : \A m \in DOMAIN h[x].entries :
         h[x].entries[m] = c => x = d /\ m = n
  BY <1>2, <1>3 DEF Once
<1>12. Linked(k, r)
  <2> SUFFICES ASSUME NEW x \in DOMAIN k, NEW m \in DOMAIN k[x].entries
               PROVE  k[x].entries[m] \in DOMAIN k /\ k[x].entries[m] # r
    BY DEF Linked
  <2>1. /\ x \in DOMAIN h /\ m \in DOMAIN h[x].entries /\ k[x].entries[m] = h[x].entries[m]
        /\ ~ (x = d /\ m = n)
    BY <1>9, <1>10
  <2>2. h[x].entries[m] \in DOMAIN h /\ h[x].entries[m] # r
    BY <1>3, <2>1 DEF Linked
  <2>3. h[x].entries[m] # c
    BY <1>11, <2>1
  <2> QED
    BY <1>8, <2>1, <2>2, <2>3
<1>13. Once(k)
  <2> SUFFICES ASSUME NEW x \in DOMAIN k, NEW y \in DOMAIN k, NEW m \in DOMAIN k[x].entries,
                      NEW o \in DOMAIN k[y].entries, k[x].entries[m] = k[y].entries[o]
               PROVE  x = y /\ m = o
    BY DEF Once
  <2>1. /\ x \in DOMAIN h /\ m \in DOMAIN h[x].entries /\ y \in DOMAIN h /\ o \in DOMAIN h[y].entries
        /\ h[x].entries[m] = h[y].entries[o]
    BY <1>10
  <2> QED
    BY <1>3, <2>1 DEF Once
<1>14. Plain(k)
  <2> SUFFICES ASSUME NEW x \in DOMAIN k
               PROVE  /\ k[x].type = "dir" => k[x].contents = <<>>
                      /\ k[x].type = "file" => k[x].entries = NoNames
                      /\ IsFiniteSet(DOMAIN k[x].entries)
    BY DEF Plain
  <2>1. /\ x \in DOMAIN h /\ h[x].type = "dir" => h[x].contents = <<>>
        /\ h[x].type = "file" => h[x].entries = NoNames
        /\ IsFiniteSet(DOMAIN h[x].entries)
    BY <1>3, <1>8 DEF Plain
  <2>2. CASE x = d
    <3>1. IsFiniteSet(DOMAIN k[d].entries)
      <4>1. DOMAIN k[d].entries \subseteq DOMAIN h[d].entries
        BY <1>8
      <4> QED
        BY <2>1, <2>2, <4>1, FS_Subset
    <3> QED
      BY <1>8, <2>1, <2>2, <3>1
  <2>3. CASE x # d
    BY <1>8, <2>1, <2>3
  <2> QED
    BY <2>2, <2>3
<1>15. \A p \in Seq(Names) : Find(h, r, p).status = "DFS_OK" /\ Find(h, r, p).entry # c =>
                               Find(k, r, p) = Find(h, r, p)
  <2> DEFINE T == {p \in Seq(Names) : Find(h, r, p).status = "DFS_OK" /\ Find(h, r, p).entry # c =>
                                        Find(k, r, p) = Find(h, r, p)}
  <2>1. <<>> \in T
    BY FindEmpty, EmptySeq
  <2>2. ASSUME NEW p \in Seq(Names), p # <<>>, Front(p) \in T,
               Find(h, r, p).status = "DFS_OK", Find(h, r, p).entry # c
        PROVE  Find(k, r, p) = Find(h, r, p)
    <3>1. PICK x \in DOMAIN h :
            /\ Find(h, r, Front(p)) = At(x) /\ h[x].type = "dir" /\ Last(p) \in DOMAIN h[x].entries
            /\ Find(h, r, p) = At(h[x].entries[Last(p)])
      BY <1>3, <2>2, FoundUnder
    <3>2. x # c
      BY <1>5, <3>1
    <3>3. Find(k, r, Front(p)) = At(x)
      BY <2>2, <3>1, <3>2, AtParts
    <3>4. h[x].entries[Last(p)] # c
      BY <2>2, <3>1, AtParts
    <3>5. x \in DOMAIN k /\ k[x].type = "dir"
      BY <1>8, <3>1, <3>2
    <3>6. Last(p) \in DOMAIN k[x].entries /\ k[x].entries[Last(p)] = h[x].entries[Last(p)]
      <4>1. ~ (x = d /\ Last(p) = n)
        BY <1>2, <3>4
      <4>2. Last(p) \in DOMAIN k[x].entries
        BY <1>9, <3>1, <3>5, <4>1
      <4> QED
        BY <1>10, <3>5, <4>2
    <3>7. Find(k, r, p) = At(k[x].entries[Last(p)])
      BY <2>2, <3>3, <3>5, <3>6, FoundAt
    <3> QED
      BY <3>1, <3>6, <3>7
  <2>3. \A p \in Seq(Names) : p # <<>> /\ Front(p) \in T => p \in T
    BY <2>2
  <2> HIDE DEF T
  <2>4. \A p \in Seq(Names) : p \in T
    BY <2>1, <2>3, PathInduction
  <2> QED
    BY <2>4 DEF T
<1>16. Reached(k, r)
  <2> SUFFICES ASSUME NEW x \in DOMAIN k
               PROVE  \E p \in Paths : Find(k, r, p) = At(x)
    BY DEF Reached
  <2>1. x \in DOMAIN h /\ x # c
    BY <1>8
  <2>2. PICK p \in Paths : Find(h, r, p) = At(x)
    BY <1>3, <2>1 DEF Reached
  <2>3. Find(k, r, p) = At(x)
    BY <1>15, <2>1, <2>2, PathsAre, AtParts
  <2> QED
    BY <2>3
<1>17. Good(k, r)
  BY <1>3, <1>4, <1>8, <1>12, <1>13, <1>14, <1>16 DEF Good
<1> QED
  BY <1>7, <1>15, <1>17

\* dfs_destroy_entry frees one entry when it has none below it.
LEMMA BelowOne ==
  ASSUME NEW c \in DOMAIN heap, NEW r, Linked(heap, r), heap[c].entries = NoNames
  PROVE  Below(c) = {c}
<1> DEFINE T == {p \in Seq(Names) : p # <<>> => Find(heap, c, p).status # "DFS_OK"}
<1>1. DOMAIN heap[c].entries = {}
  BY NewNodes
<1>2. <<>> \in T
  BY EmptySeq
<1>3. ASSUME NEW p \in Seq(Names), p # <<>>, Front(p) \in T, Find(heap, c, p).status = "DFS_OK"
      PROVE  FALSE
  <2>1. PICK d \in DOMAIN heap :
          /\ Find(heap, c, Front(p)) = At(d) /\ heap[d].type = "dir" /\ Last(p) \in DOMAIN heap[d].entries
          /\ Find(heap, c, p) = At(heap[d].entries[Last(p)])
    BY <1>3, FoundUnder
  <2>2. Front(p) = <<>>
    BY <1>3, <2>1, AtParts
  <2>3. d = c
    BY <2>1, <2>2, FindEmpty, AtParts
  <2> QED
    BY <1>1, <2>1, <2>3
<1>4. \A p \in Seq(Names) : p # <<>> /\ Front(p) \in T => p \in T
  BY <1>3
<1> HIDE DEF T
<1>5. \A p \in Seq(Names) : p \in T
  BY <1>2, <1>4, PathInduction
<1>6. \A p \in Paths : dfs_find_entry(c, p) = Find(heap, c, p) /\ p \in Seq(Names)
  BY FindIs, PathsAre
<1>7. dfs_find_entry(c, <<>>) = At(c) /\ <<>> \in Paths
  BY <1>6, FindEmpty, PathsAre
<1>8. \A p \in Paths : dfs_find_entry(c, p).status = "DFS_OK" => p = <<>>
  BY <1>5, <1>6 DEF T
<1> QED
  BY <1>7, <1>8, AtParts DEF Below

-------------------------------------------------------------------------------
(* A heap with other contents of a file *)

IsFilled(k, h, r, e, contents) ==
  /\ DOMAIN k = DOMAIN h /\ k[e].contents = contents
  /\ \A x \in DOMAIN h : k[x].type = h[x].type
  /\ \A x \in DOMAIN h : x # e => k[x].contents = h[x].contents
  /\ \A p \in Seq(Names) : Find(k, r, p) = Find(h, r, p)

\* Writing to a file leaves the tree as good as it was.
LEMMA FilledGood ==
  ASSUME NEW h, IsHeap(h), NEW r, Good(h, r), NEW e \in DOMAIN h, h[e].type = "file",
         NEW contents \in Seq(Bytes), NEW k, k = [h EXCEPT ![e].contents = contents]
  PROVE  IsHeap(k) /\ Good(k, r) /\ IsFilled(k, h, r, e, contents)
<1>1. PICK node : node = [h[e] EXCEPT !.contents = contents]
  OBVIOUS
<1>2. node \in Nodes /\ node.type = h[e].type /\ node.entries = h[e].entries /\ node.contents = contents
  <2>1. h[e] \in Nodes
    BY NodeParts
  <2> QED
    BY <1>1, <2>1 DEF Nodes
<1>3. k = [h EXCEPT ![e] = node]
  BY <1>1
<1>4. DOMAIN k = DOMAIN h /\ k[e] = node /\ \A x \in DOMAIN h : x # e => k[x] = h[x]
  BY <1>3 DEF IsHeap
<1>5. \A x \in DOMAIN h : k[x].type = h[x].type /\ k[x].entries = h[x].entries
  BY <1>2, <1>4
<1>6. IsHeap(k)
  BY <1>2, <1>3 DEF IsHeap
<1>7. /\ r \in DOMAIN h /\ Linked(h, r) /\ Once(h) /\ Plain(h) /\ Reached(h, r)
  BY DEF Good
<1>8. Linked(k, r) /\ Once(k)
  BY <1>4, <1>5, <1>7 DEF Linked, Once
<1>9. Plain(k)
  <2>1. \A x \in DOMAIN h : x # e => k[x] = h[x]
    BY <1>4
  <2> QED
    BY <1>2, <1>4, <1>7, <2>1 DEF Plain
<1>10. \A p \in Seq(Names) : Find(k, r, p) = Find(h, r, p)
  <2> DEFINE T == {p \in Seq(Names) : Find(k, r, p) = Find(h, r, p)}
  <2>1. <<>> \in T
    BY FindEmpty, EmptySeq
  <2>2. ASSUME NEW p \in Seq(Names), p # <<>>, Front(p) \in T
        PROVE  p \in T
    <3>1. PICK at \in Places(h) : at = Find(h, r, Front(p))
      BY <1>7, <2>2, FindShape, FrontLast
    <3>2. Find(h, r, p) = Entered(h, at, Last(p)) /\ Find(k, r, p) = Entered(k, at, Last(p))
      BY <2>2, <3>1, FindLast
    <3>3. at.entry \in DOMAIN h
      BY <3>1 DEF Places
    <3>4. Entered(h, at, Last(p)) = Entered(k, at, Last(p))
      BY <1>5, <3>3 DEF Entered
    <3> QED
      BY <2>2, <3>2, <3>4
  <2> HIDE DEF T
  <2>3. \A p \in Seq(Names) : p \in T
    BY <2>1, <2>2, PathInduction
  <2> QED
    BY <2>3 DEF T
<1>11. Reached(k, r)
  BY <1>4, <1>7, <1>10, PathsAre DEF Reached
<1>12. Good(k, r)
  BY <1>4, <1>7, <1>8, <1>9, <1>11 DEF Good
<1>13. IsFilled(k, h, r, e, contents)
  <2>1. k[e].contents = contents /\ \A x \in DOMAIN h : k[x].type = h[x].type
    BY <1>2, <1>4, <1>5
  <2>2. \A x \in DOMAIN h : x # e => k[x].contents = h[x].contents
    BY <1>4
  <2> QED
    BY <1>4, <1>10, <2>1, <2>2 DEF IsFilled
<1> QED
  BY <1>6, <1>12, <1>13

-------------------------------------------------------------------------------
(* The invariant *)

\* As long as the state is not torn, the heap is a tree below the root.
Sound ==
  /\ root_dir \in Entries /\ state \in {"running", "torn", "undefined"}
  /\ IsHeap(heap)
  /\ state # "torn" => Good(heap, root_dir)

\* The four entries of create_dfs differ from each other.
LEMMA FourEntries ==
  ASSUME NEW a, NEW b, NEW c, NEW d, Cardinality({a, b, c, d}) = 4
  PROVE  a # b /\ a # c /\ a # d /\ b # c /\ b # d /\ c # d
<1>1. ASSUME NEW x, NEW y, NEW z
      PROVE  Cardinality({x, y, z}) # 4
  <2>1. IsFiniteSet({}) /\ Cardinality({}) = 0
    BY FS_EmptySet
  <2>2. PICK S1 : S1 = {} \cup {x}
    OBVIOUS
  <2>3. IsFiniteSet(S1) /\ (Cardinality(S1) = 0 \/ Cardinality(S1) = 1)
    BY <2>1, <2>2, FS_AddElement
  <2>4. PICK S2 : S2 = S1 \cup {y}
    OBVIOUS
  <2>5. IsFiniteSet(S2) /\ (Cardinality(S2) = 0 \/ Cardinality(S2) = 1 \/ Cardinality(S2) = 2)
    BY <2>3, <2>4, FS_AddElement
  <2>6. PICK S3 : S3 = S2 \cup {z}
    OBVIOUS
  <2>7. Cardinality(S3) = 0 \/ Cardinality(S3) = 1 \/ Cardinality(S3) = 2 \/ Cardinality(S3) = 3
    BY <2>5, <2>6, FS_AddElement
  <2>8. S3 = {x, y, z}
    BY <2>2, <2>4, <2>6
  <2> QED
    BY <2>7, <2>8
<1>2. ASSUME a = b \/ a = c \/ a = d \/ b = c \/ b = d \/ c = d
      PROVE  \E x, y, z : {a, b, c, d} = {x, y, z}
  <2>1. CASE a = b
    BY <2>1
  <2>2. CASE a = c
    <3>1. {a, b, c, d} = {a, b, d}
      BY <2>2
    <3> QED
      BY <3>1
  <2>3. CASE a = d
    <3>1. {a, b, c, d} = {a, b, c}
      BY <2>3
    <3> QED
      BY <3>1
  <2>4. CASE b = c
    <3>1. {a, b, c, d} = {a, b, d}
      BY <2>4
    <3> QED
      BY <3>1
  <2>5. CASE b = d
    <3>1. {a, b, c, d} = {a, b, c}
      BY <2>5
    <3> QED
      BY <3>1
  <2>6. CASE c = d
    <3>1. {a, b, c, d} = {a, b, c}
      BY <2>6
    <3> QED
      BY <3>1
  <2> QED
    BY <1>2, <2>1, <2>2, <2>3, <2>4, <2>5, <2>6
<1> QED
  BY <1>1, <1>2

\* What create_dfs makes is such a tree.
LEMMA InitSound ==
  ASSUME Init
  PROVE  Sound /\ state = "running"
<1>1. PICK dir, file, inner \in Entries, first, second \in Names, byte \in Bytes :
        /\ root_dir \in Entries
        /\ Cardinality({root_dir, dir, file, inner}) = 4 /\ first # second
        /\ heap = create_dfs(dir, file, inner, first, second, byte)
        /\ state = "running"
  BY Zenon DEF Init
<1>2. /\ root_dir # dir /\ root_dir # file /\ root_dir # inner /\ dir # file /\ dir # inner
      /\ file # inner
  BY <1>1, FourEntries
<1>3. PICK top, sub : /\ top = [n \in {first, second} |-> IF n = first THEN dir ELSE file]
                      /\ sub = [n \in {first} |-> inner]
  OBVIOUS
<1>4. /\ DOMAIN top = {first, second} /\ top[first] = dir /\ top[second] = file
      /\ DOMAIN sub = {first} /\ sub[first] = inner
      /\ top \in [{first, second} -> Entries] /\ sub \in [{first} -> Entries]
  BY <1>1, <1>3
<1>5. /\ DOMAIN heap = {root_dir, dir, file, inner}
      /\ heap[root_dir] = Node("dir", <<>>, top) /\ heap[dir] = Node("dir", <<>>, sub)
      /\ heap[file] = Node("file", <<byte>>, NoNames) /\ heap[inner] = Node("file", <<byte>>, NoNames)
  BY <1>1, <1>2, <1>3 DEF create_dfs
<1>6. IsHeap(heap)
  <2>1. <<>> \in Seq(Bytes) /\ <<byte>> \in Seq(Bytes)
    BY EmptySeq
  <2>2. {first, second} \in SUBSET Names /\ {first} \in SUBSET Names /\ {} \in SUBSET Names
    BY <1>1
  <2>3. /\ Node("dir", <<>>, top) \in Nodes /\ Node("dir", <<>>, sub) \in Nodes
        /\ Node("file", <<byte>>, NoNames) \in Nodes
    BY <1>4, <2>1, <2>2, NodeMade, NewNodes
  <2>4. \A e \in DOMAIN heap : heap[e] \in Nodes
    BY <1>5, <2>3
  <2>5. heap = [e \in DOMAIN heap |-> heap[e]]
    BY <1>1 DEF create_dfs
  <2> QED
    BY <1>1, <1>5, <2>4, <2>5 DEF IsHeap
<1>7. /\ heap[root_dir].type = "dir" /\ heap[root_dir].entries = top /\ heap[root_dir].contents = <<>>
      /\ heap[dir].type = "dir" /\ heap[dir].entries = sub /\ heap[dir].contents = <<>>
      /\ heap[file].type = "file" /\ heap[file].entries = NoNames
      /\ heap[inner].type = "file" /\ heap[inner].entries = NoNames
  BY <1>5 DEF Node
<1>8. \A e \in DOMAIN heap : \A n \in DOMAIN heap[e].entries :
        \/ e = root_dir /\ n = first /\ heap[e].entries[n] = dir
        \/ e = root_dir /\ n = second /\ heap[e].entries[n] = file
        \/ e = dir /\ n = first /\ heap[e].entries[n] = inner
  BY <1>4, <1>5, <1>7, NewNodes
<1>9. Linked(heap, root_dir)
  BY <1>2, <1>5, <1>8 DEF Linked
<1>10. Once(heap)
  <2> SUFFICES ASSUME NEW e \in DOMAIN heap, NEW f \in DOMAIN heap, NEW n \in DOMAIN heap[e].entries,
                      NEW m \in DOMAIN heap[f].entries, heap[e].entries[n] = heap[f].entries[m]
               PROVE  e = f /\ n = m
    BY DEF Once
  <2> QED
    BY <1>2, <1>8
<1>11. Plain(heap)
  <2>1. IsFiniteSet({first, second}) /\ IsFiniteSet({first}) /\ IsFiniteSet({})
    <3>1. IsFiniteSet({}) /\ IsFiniteSet({first})
      BY FS_EmptySet, FS_Singleton
    <3>2. IsFiniteSet({first} \cup {second})
      BY <3>1, FS_AddElement
    <3>3. {first} \cup {second} = {first, second}
      OBVIOUS
    <3> QED
      BY <3>1, <3>2, <3>3
  <2> QED
    BY <1>4, <1>5, <1>7, <2>1, NewNodes DEF Plain
<1>12. Reached(heap, root_dir)
  <2> first \in Names /\ second \in Names
    BY <1>1
  <2>1. PICK root \in Seq(Names) : Find(heap, root_dir, root) = At(root_dir) /\ Len(root) = 0
    <3>1. Find(heap, root_dir, <<>>) = At(root_dir) /\ <<>> \in Seq(Names) /\ Len(<<>>) = 0
      BY FindEmpty, EmptySeq
    <3> QED
      BY <3>1
  <2>2. PICK p : p = Append(root, first)
    OBVIOUS
  <2>3. p \in Seq(Names) /\ p # <<>> /\ Len(p) = 1 /\ Front(p) = root /\ Last(p) = first
    <3>1. p \in Seq(Names) /\ p # <<>> /\ Len(p) = Len(root) + 1 /\ Front(p) = root /\ Last(p) = first
      BY <2>2, FrontAppend
    <3> QED
      BY <2>1, <3>1
  <2>4. Find(heap, root_dir, p) = At(dir)
    BY <1>4, <1>5, <1>7, <2>1, <2>3, FoundAt
  <2>5. PICK q : q = Append(root, second)
    OBVIOUS
  <2>6. q \in Seq(Names) /\ q # <<>> /\ Len(q) = 1 /\ Front(q) = root /\ Last(q) = second
    <3>1. q \in Seq(Names) /\ q # <<>> /\ Len(q) = Len(root) + 1 /\ Front(q) = root /\ Last(q) = second
      BY <2>5, FrontAppend
    <3> QED
      BY <2>1, <3>1
  <2>7. Find(heap, root_dir, q) = At(file)
    BY <1>4, <1>5, <1>7, <2>1, <2>6, FoundAt
  <2>8. PICK o : o = Append(p, first)
    OBVIOUS
  <2>9. o \in Seq(Names) /\ o # <<>> /\ Len(o) = 2 /\ Front(o) = p /\ Last(o) = first
    <3>1. p \in Seq(Names)
      BY <2>3
    <3>2. o \in Seq(Names) /\ o # <<>> /\ Len(o) = Len(p) + 1 /\ Front(o) = p /\ Last(o) = first
      BY <2>8, <3>1, FrontAppend
    <3> QED
      BY <2>3, <3>2
  <2>10. Find(heap, root_dir, o) = At(inner)
    BY <1>4, <1>5, <1>7, <2>4, <2>9, FoundAt
  <2>11. root \in Paths /\ p \in Paths /\ q \in Paths /\ o \in Paths
    <3>1. MaxDepth \in Nat /\ 0 <= MaxDepth /\ 1 <= MaxDepth /\ 2 <= MaxDepth
      BY FileSystemAssumption
    <3> QED
      BY <2>1, <2>3, <2>6, <2>9, <3>1, PathsAre
  <2> QED
    BY <1>5, <2>1, <2>4, <2>7, <2>10, <2>11 DEF Reached
<1> QED
  BY <1>1, <1>5, <1>6, <1>9, <1>10, <1>11, <1>12 DEF Sound, Good

-------------------------------------------------------------------------------
(* The lookups of the handlers *)

\* What dfs_find_dir and dfs_find_file make of a lookup.
LEMMA AsParts ==
  ASSUME NEW at \in Places(heap), NEW type
  PROVE  /\ at.status # "DFS_OK" => As(type, at) = at
         /\ at.status = "DFS_OK" /\ heap[at.entry].type = type => As(type, at) = at
         /\ at.status = "DFS_OK" /\ heap[at.entry].type # type /\ type = "dir" =>
              As(type, at) = [status |-> "DFS_E_NOT_A_DIRECTORY", entry |-> at.entry]
         /\ at.status = "DFS_OK" /\ heap[at.entry].type # type /\ type # "dir" =>
              As(type, at) = [status |-> "DFS_E_NOT_A_FILE", entry |-> at.entry]
<1>1. ASSUME NEW status
      PROVE  Fails(at, status) = [status |-> status, entry |-> at.entry]
  BY DEF Fails, Places
<1>2. at.status # "DFS_OK" => As(type, at) = at
  BY DEF As
<1>3. at.status = "DFS_OK" /\ heap[at.entry].type = type => As(type, at) = at
  BY DEF As
<1>4. at.status = "DFS_OK" /\ heap[at.entry].type # type /\ type = "dir" =>
        As(type, at) = Fails(at, "DFS_E_NOT_A_DIRECTORY")
  BY DEF As
<1>5. at.status = "DFS_OK" /\ heap[at.entry].type # type /\ type # "dir" =>
        As(type, at) = Fails(at, "DFS_E_NOT_A_FILE")
  BY DEF As
<1> QED
  BY <1>1, <1>2, <1>3, <1>4, <1>5

\* An entry of the wanted type is the one looked up.
LEMMA AsFound ==
  ASSUME NEW at \in Places(heap), NEW type, As(type, at).status = "DFS_OK"
  PROVE  /\ As(type, at) = at /\ at.status = "DFS_OK" /\ heap[at.entry].type = type
         /\ at = At(at.entry) /\ at.entry \in DOMAIN heap
<1>1. at.status = "DFS_OK" /\ heap[at.entry].type = type
  BY AsParts
<1> QED
  BY <1>1, AsParts, FoundIsAt

\* dfs_find_dir and dfs_find_file.
LEMMA Lookup ==
  ASSUME Good(heap, root_dir), NEW path \in Paths
  PROVE  /\ Find(heap, root_dir, path) \in Places(heap)
         /\ dfs_find_entry(root_dir, path) = Find(heap, root_dir, path)
         /\ dfs_find_dir(path) = As("dir", Find(heap, root_dir, path))
         /\ dfs_find_file(path) = As("file", Find(heap, root_dir, path))
<1>1. Find(heap, root_dir, path) \in Places(heap)
  BY FindShape, PathsAre DEF Good
<1>2. dfs_find_entry(root_dir, path) = Find(heap, root_dir, path)
  BY FindIs
<1> QED
  BY <1>1, <1>2 DEF dfs_find_dir, dfs_find_file

\* dfs_find_dir succeeds at directories only.
LEMMA DirFound ==
  ASSUME Good(heap, root_dir), NEW path \in Paths, NEW at, at = dfs_find_dir(path),
         at.status = "DFS_OK"
  PROVE  /\ at = Find(heap, root_dir, path) /\ at = At(at.entry)
         /\ at.entry \in DOMAIN heap /\ heap[at.entry].type = "dir"
BY Lookup, AsFound

\* dfs_find_file succeeds at files only.
LEMMA FileFound ==
  ASSUME Good(heap, root_dir), NEW path \in Paths, NEW at, at = dfs_find_file(path),
         at.status = "DFS_OK"
  PROVE  /\ at = Find(heap, root_dir, path) /\ at = At(at.entry)
         /\ at.entry \in DOMAIN heap /\ heap[at.entry].type = "file"
BY Lookup, AsFound

\* What is looked up in the parent is what is looked up under the whole path.
LEMMA TargetIs ==
  ASSUME Good(heap, root_dir), NEW path \in Paths, path # <<>>, NEW type
  PROVE  Target(path, type) = As(type, Find(heap, root_dir, path))
<1>1. PICK at \in Places(heap) : at = Find(heap, root_dir, Front(path))
  BY Lookup, FrontPath
<1>2. dfs_find_dir(Front(path)) = As("dir", at)
  BY <1>1, Lookup, FrontPath
<1>3. Find(heap, root_dir, path) = Entered(heap, at, Last(path))
  BY <1>1, FindLast, PathsAre
<1>4. Find(heap, root_dir, path) \in Places(heap)
  BY Lookup
<1>5. CASE at.status # "DFS_OK"
  <2>1. As("dir", at) = at /\ Entered(heap, at, Last(path)) = at
    BY <1>5, AsParts, Enter
  <2>2. As(type, at) = at
    BY <1>5, AsParts
  <2> QED
    BY <1>2, <1>3, <1>5, <2>1, <2>2 DEF Target
<1>6. CASE at.status = "DFS_OK" /\ heap[at.entry].type # "dir"
  <2>1. PICK bad : bad = [status |-> "DFS_E_NOT_A_DIRECTORY", entry |-> at.entry]
    OBVIOUS
  <2>2. As("dir", at) = bad /\ Entered(heap, at, Last(path)) = bad
    BY <1>6, <2>1, AsParts, Enter
  <2>3. bad.status # "DFS_OK"
    BY <2>1
  <2>4. As(type, bad) = bad
    BY <1>3, <1>4, <2>2, <2>3, AsParts
  <2> QED
    BY <1>2, <1>3, <2>2, <2>3, <2>4 DEF Target
<1>7. CASE at.status = "DFS_OK" /\ heap[at.entry].type = "dir"
  <2>1. As("dir", at) = at
    BY <1>7, AsParts
  <2>2. dfs_get_entry(at, Last(path)) = Entered(heap, at, Last(path))
    BY <1>7 DEF dfs_get_entry, Entered
  <2> QED
    BY <1>2, <1>3, <1>7, <2>1, <2>2 DEF Target
<1> QED
  BY <1>5, <1>6, <1>7

-------------------------------------------------------------------------------
(* The handlers keep the invariant *)

\* The parts of Sound after a step.
LEMMA SoundNext ==
  ASSUME root_dir' \in Entries, state' \in {"running", "torn", "undefined"}, IsHeap(heap'),
         state' # "torn" => Good(heap', root_dir')
  PROVE  Sound'
BY DEF Sound

\* What a handler may do to the heap.
Kept == UNCHANGED <<root_dir, heap>> /\ (state' = state \/ state' = "undefined")
Torn == state' = "torn" /\ UNCHANGED root_dir /\ IsHeap(heap')
Changed == UNCHANGED <<root_dir, state>> /\ IsHeap(heap') /\ Good(heap', root_dir)

\* Each of the three things a handler may do to the heap leaves it Sound.
LEMMA SoundAfter ==
  ASSUME Sound, state = "running", Kept \/ Torn \/ Changed
  PROVE  Sound'
<1>1. /\ root_dir \in Entries /\ IsHeap(heap) /\ Good(heap, root_dir)
  BY DEF Sound
<1>2. CASE Kept
  BY <1>1, <1>2, SoundNext DEF Kept
<1>3. CASE Torn
  BY <1>1, <1>3, SoundNext DEF Torn
<1>4. CASE Changed
  BY <1>1, <1>4, SoundNext DEF Changed
<1> QED
  BY <1>2, <1>3, <1>4

\* A handler that returns early changes no entry,
LEMMA StopsKeeps ==
  ASSUME NEW op, NEW path, NEW at, NEW handled, Stops(op, path, at, handled)
  PROVE  Kept
BY DEF Stops, Refuses, Answers, Crashes, Kept

\* nor one that refuses,
LEMMA RefusesKeeps ==
  ASSUME NEW op, NEW path, NEW status, Refuses(op, path, status)
  PROVE  Kept
BY DEF Refuses, Answers, Kept

\* nor one that only answers.
LEMMA AnswersKeeps ==
  ASSUME NEW op, NEW path, NEW status, NEW data, Answers(op, path, status, data), UNCHANGED heap
  PROVE  Kept
BY DEF Answers, Kept

\* Changing one entry keeps the types.
LEMMA NodeChanged ==
  ASSUME IsHeap(heap), NEW d \in DOMAIN heap, NEW node \in Nodes, heap' = [heap EXCEPT ![d] = node]
  PROVE  IsHeap(heap')
BY DEF IsHeap

\* os_mkdir and os_create.
MakesOne(op, path, node) ==
  \E d \in DOMAIN heap, e \in Entries \ DOMAIN heap :
    /\ Find(heap, root_dir, Front(path)) = At(d) /\ heap[d].type = "dir"
    /\ Last(path) \notin DOMAIN heap[d].entries
    /\ heap' = Grown(heap, d, Last(path), e, node)
    /\ Answers(op, path, "0", {})

\* os_mkdir and os_create return early, make one entry, or tear the tree.
LEMMA MakesDoes ==
  ASSUME Sound, state = "running", NEW op, NEW path \in Paths,
         NEW node \in {dfs_create_dir, dfs_create_file}, Makes(op, path, node),
         NEW parent, parent = dfs_find_dir(Front(path))
  PROVE  \/ path = <<>> /\ Refuses(op, path, "-EEXIST")
         \/ path # <<>> /\ Stops(op, path, parent, AnyError)
         \/ /\ path # <<>> /\ parent.status = "DFS_OK"
            /\ Last(path) \in DOMAIN heap[parent.entry].entries
            /\ Refuses(op, path, "-EEXIST")
         \/ path # <<>> /\ MakesOne(op, path, node)
         \/ Torn
<1>1. IsHeap(heap) /\ Good(heap, root_dir)
  BY DEF Sound
<1>2. \/ path = <<>> /\ Refuses(op, path, "-EEXIST")
      \/ path # <<>> /\ Stops(op, path, parent, AnyError)
      \/ /\ path # <<>> /\ parent.status = "DFS_OK"
         /\ Last(path) \in DOMAIN heap[parent.entry].entries
         /\ Refuses(op, path, "-EEXIST")
      \/ /\ path # <<>> /\ parent.status = "DFS_OK"
         /\ Last(path) \notin DOMAIN heap[parent.entry].entries
         /\ Adds(op, path, parent.entry, node)
  BY DEF Makes
<1>3. CASE /\ path # <<>> /\ parent.status = "DFS_OK"
           /\ Last(path) \notin DOMAIN heap[parent.entry].entries
           /\ Adds(op, path, parent.entry, node)
  <2>1. PICK d \in DOMAIN heap :
          d = parent.entry /\ Find(heap, root_dir, Front(path)) = At(d) /\ heap[d].type = "dir"
    BY <1>1, <1>3, DirFound, FrontPath
  <2>2. PICK e \in Entries \ DOMAIN heap :
          \/ /\ heap' = [x \in DOMAIN heap \cup {e} |->
                           CASE x = e -> node [] x = d -> With(d, Last(path), e) [] OTHER -> heap[x]]
             /\ Answers(op, path, "0", {})
          \/ /\ heap' = [x \in DOMAIN heap \cup {e} |->
                           CASE x = e -> node [] x = d -> heap[d] [] OTHER -> heap[x]]
             /\ Tears(op, path, "0")
          \/ /\ heap' \in {[heap EXCEPT ![d] = With(d, Last(path), e)], heap}
             /\ Tears(op, path, "-ENOMEM")
    <3>1. Adds(op, path, d, node)
      BY <1>3, <2>1
    <3> QED
      BY <3>1, Zenon DEF Adds
  <2>3. PICK k : k = Grown(heap, d, Last(path), e, node)
    OBVIOUS
  <2>4. IsHeap(k) /\ Good(k, root_dir)
    BY <1>1, <1>3, <2>1, <2>3, GrownGood
  <2>5. k = [x \in DOMAIN heap \cup {e} |->
               CASE x = e -> node [] x = d -> With(d, Last(path), e) [] OTHER -> heap[x]]
    BY <2>3 DEF Grown, With
  <2>6. ASSUME heap' = k, Answers(op, path, "0", {})
        PROVE  MakesOne(op, path, node)
    BY <1>3, <2>1, <2>3, <2>6 DEF MakesOne
  <2>7. ASSUME heap' \in {[heap EXCEPT ![d] = With(d, Last(path), e)], heap},
               Tears(op, path, "-ENOMEM")
        PROVE  Torn
    <3>1. k[d] = With(d, Last(path), e) /\ d \in DOMAIN k
      BY <2>5
    <3>2. With(d, Last(path), e) \in Nodes
      <4>1. k[d] \in Nodes
        BY <2>4, <3>1 DEF IsHeap
      <4> QED
        BY <3>1, <4>1
    <3>3. IsHeap(heap')
      BY <1>1, <2>7, <3>2, NodeChanged
    <3> QED
      BY <2>7, <3>3 DEF Tears, Torn
  <2>8. ASSUME heap' = [x \in DOMAIN heap \cup {e} |->
                          CASE x = e -> node [] x = d -> heap[d] [] OTHER -> heap[x]],
               Tears(op, path, "0")
        PROVE  Torn
    <3>1. k[e] = node /\ e \in DOMAIN k
      BY <2>5
    <3>2. node \in Nodes
      <4>1. k[e] \in Nodes
        BY <2>4, <3>1 DEF IsHeap
      <4> QED
        BY <3>1, <4>1
    <3>3. /\ DOMAIN heap' = DOMAIN heap \cup {e}
          /\ \A x \in DOMAIN heap' : heap'[x] = IF x = e THEN node ELSE heap[x]
      BY <2>1, <2>8
    <3>4. IsHeap(heap')
      BY <1>1, <2>8, <3>2, <3>3 DEF IsHeap
    <3> QED
      BY <2>8, <3>4 DEF Tears, Torn
  <2> QED
    BY <1>3, <2>2, <2>5, <2>6, <2>7, <2>8
<1> QED
  BY <1>2, <1>3

\* The two handlers that make an entry leave the tree sound.
LEMMA MakesKeeps ==
  ASSUME Sound, state = "running", NEW op, NEW path \in Paths,
         NEW node \in {dfs_create_dir, dfs_create_file}, Makes(op, path, node)
  PROVE  Kept \/ Torn \/ Changed
<1>1. PICK parent : parent = dfs_find_dir(Front(path))
  OBVIOUS
<1>2. \/ Refuses(op, path, "-EEXIST")
      \/ Stops(op, path, parent, AnyError)
      \/ path # <<>> /\ MakesOne(op, path, node)
      \/ Torn
  BY <1>1, MakesDoes
<1>3. CASE path # <<>> /\ MakesOne(op, path, node)
  <2>1. PICK d, e, k :
          /\ d \in DOMAIN heap /\ e \in Entries \ DOMAIN heap
          /\ Find(heap, root_dir, Front(path)) = At(d) /\ heap[d].type = "dir"
          /\ Last(path) \notin DOMAIN heap[d].entries
          /\ k = Grown(heap, d, Last(path), e, node)
          /\ heap' = k /\ Answers(op, path, "0", {})
    BY <1>3 DEF MakesOne
  <2>2. IsHeap(heap) /\ Good(heap, root_dir)
    BY DEF Sound
  <2>3. IsHeap(k) /\ Good(k, root_dir)
    BY <1>3, <2>1, <2>2, GrownGood
  <2> QED
    BY <2>1, <2>3 DEF Answers, Changed
<1> QED
  BY <1>2, <1>3, RefusesKeeps, StopsKeeps

\* os_rmdir and os_unlink.
RemovesOne(op, path) ==
  \E d \in DOMAIN heap, c \in DOMAIN heap :
    /\ Find(heap, root_dir, Front(path)) = At(d) /\ heap[d].type = "dir"
    /\ Last(path) \in DOMAIN heap[d].entries /\ c = heap[d].entries[Last(path)]
    /\ heap[c].entries = NoNames
    /\ heap' = Shrunk(heap, d, Last(path), c)
    /\ Answers(op, path, "0", {})

\* os_rmdir and os_unlink, once past their checks, remove one entry or tear the tree.
LEMMA RemovesDoes ==
  ASSUME Sound, state = "running", NEW op, NEW path \in Paths, path # <<>>,
         NEW type \in {"dir", "file"}, NEW child, child = Target(path, type), child.status = "DFS_OK",
         heap[child.entry].entries = NoNames,
         Removes(op, path, dfs_find_dir(Front(path)).entry, child.entry)
  PROVE  RemovesOne(op, path) \/ Torn
<1>1. IsHeap(heap) /\ Good(heap, root_dir) /\ Linked(heap, root_dir)
  BY DEF Sound, Good
<1>2. child = Find(heap, root_dir, path) /\ child = At(child.entry)
  BY <1>1, TargetIs, Lookup, AsFound
<1>3. PICK d \in DOMAIN heap :
        /\ Find(heap, root_dir, Front(path)) = At(d) /\ heap[d].type = "dir"
        /\ Last(path) \in DOMAIN heap[d].entries
        /\ child = At(heap[d].entries[Last(path)])
  BY <1>1, <1>2, FoundUnder, PathsAre DEF Good
<1>4. PICK c \in DOMAIN heap : c = heap[d].entries[Last(path)] /\ c = child.entry
  BY <1>1, <1>3, AtParts DEF Linked
<1>5. dfs_find_dir(Front(path)).entry = d
  <2>1. PICK at \in Places(heap) : at = Find(heap, root_dir, Front(path))
    BY <1>1, Lookup, FrontPath
  <2>2. at.status = "DFS_OK" /\ at.entry = d
    BY <1>3, <2>1, AtParts
  <2>3. As("dir", at) = at
    BY <1>3, <2>2, AsParts
  <2> QED
    BY <1>1, <2>1, <2>2, <2>3, Lookup, FrontPath
<1>6. PICK k : k = Shrunk(heap, d, Last(path), c)
  OBVIOUS
<1>7. IsHeap(k) /\ Good(k, root_dir)
  BY <1>1, <1>3, <1>4, <1>6, ShrunkGood
<1>8. Below(c) = {c}
  BY <1>1, <1>4, BelowOne
<1>9. k = [x \in DOMAIN heap \ {c} |-> IF x = d THEN Without(d, Last(path)) ELSE heap[x]]
  BY <1>6 DEF Shrunk, Without
<1>10. \/ heap' = k /\ Answers(op, path, "0", {})
       \/ heap' = [heap EXCEPT ![d] = Without(d, Last(path))] /\ Tears(op, path, "-ENOMEM")
  BY <1>4, <1>5, <1>8, <1>9 DEF Removes
<1>11. ASSUME heap' = k, Answers(op, path, "0", {})
       PROVE  RemovesOne(op, path)
  BY <1>3, <1>4, <1>6, <1>11 DEF RemovesOne
<1>12. ASSUME heap' = [heap EXCEPT ![d] = Without(d, Last(path))], Tears(op, path, "-ENOMEM")
       PROVE  Torn
  <2>1. d # c
    BY <1>3, <1>4, NewNodes
  <2>2. k[d] = Without(d, Last(path)) /\ d \in DOMAIN k
    BY <1>9, <2>1
  <2>3. Without(d, Last(path)) \in Nodes
    <3>1. k[d] \in Nodes
      BY <1>7, <2>2 DEF IsHeap
    <3> QED
      BY <2>2, <3>1
  <2>4. IsHeap(heap')
    BY <1>1, <1>12, <2>3, NodeChanged
  <2> QED
    BY <1>12, <2>4 DEF Tears, Torn
<1> QED
  BY <1>10, <1>11, <1>12

\* os_rmdir returns early, removes one empty directory, or tears the tree.
LEMMA RmdirDoes ==
  ASSUME Sound, state = "running", NEW path \in Paths, os_rmdir(path),
         NEW child, child = Target(path, "dir")
  PROVE  \/ path = <<>> /\ Refuses("os_rmdir", path, "-EEXIST")
         \/ path # <<>> /\ Stops("os_rmdir", path, child, AnyError)
         \/ /\ path # <<>> /\ child.status = "DFS_OK" /\ heap[child.entry].entries # NoNames
            /\ Refuses("os_rmdir", path, "-ENOTEMPTY")
         \/ path # <<>> /\ child.status = "DFS_OK" /\ RemovesOne("os_rmdir", path)
         \/ Torn
<1>1. \/ path = <<>> /\ Refuses("os_rmdir", path, "-EEXIST")
      \/ path # <<>> /\ Stops("os_rmdir", path, child, AnyError)
      \/ /\ path # <<>> /\ child.status = "DFS_OK" /\ heap[child.entry].entries # NoNames
         /\ Refuses("os_rmdir", path, "-ENOTEMPTY")
      \/ /\ path # <<>> /\ child.status = "DFS_OK" /\ heap[child.entry].entries = NoNames
         /\ Removes("os_rmdir", path, dfs_find_dir(Front(path)).entry, child.entry)
  BY DEF os_rmdir
<1> QED
  BY <1>1, RemovesDoes

\* os_unlink returns early, removes one file, or tears the tree.
LEMMA UnlinkDoes ==
  ASSUME Sound, state = "running", NEW path \in Paths, os_unlink(path),
         NEW child, child = Target(path, "file")
  PROVE  \/ path = <<>> /\ Refuses("os_unlink", path, "-EEXIST")
         \/ path # <<>> /\ Stops("os_unlink", path, child, AnyError)
         \/ path # <<>> /\ child.status = "DFS_OK" /\ RemovesOne("os_unlink", path)
         \/ Torn
<1>1. \/ path = <<>> /\ Refuses("os_unlink", path, "-EEXIST")
      \/ path # <<>> /\ Stops("os_unlink", path, child, AnyError)
      \/ /\ path # <<>> /\ child.status = "DFS_OK"
         /\ Removes("os_unlink", path, dfs_find_dir(Front(path)).entry, child.entry)
  BY DEF os_unlink
<1>2. CASE /\ path # <<>> /\ child.status = "DFS_OK"
           /\ Removes("os_unlink", path, dfs_find_dir(Front(path)).entry, child.entry)
  <2>1. Good(heap, root_dir)
    BY DEF Sound
  <2>2. child.entry \in DOMAIN heap /\ heap[child.entry].type = "file"
    BY <1>2, <2>1, TargetIs, Lookup, AsFound
  <2>3. heap[child.entry].entries = NoNames
    BY <2>1, <2>2 DEF Good, Plain
  <2> QED
    BY <1>2, <2>3, RemovesDoes
<1> QED
  BY <1>1, <1>2

\* Removing one entry leaves the tree sound,
LEMMA RemovesKeeps ==
  ASSUME Sound, state = "running", NEW op, NEW path \in Paths, path # <<>>, RemovesOne(op, path)
  PROVE  Changed
<1>1. PICK d, c, k :
        /\ d \in DOMAIN heap /\ c \in DOMAIN heap
        /\ Find(heap, root_dir, Front(path)) = At(d) /\ heap[d].type = "dir"
        /\ Last(path) \in DOMAIN heap[d].entries /\ c = heap[d].entries[Last(path)]
        /\ heap[c].entries = NoNames
        /\ k = Shrunk(heap, d, Last(path), c)
        /\ heap' = k /\ Answers(op, path, "0", {})
  BY DEF RemovesOne
<1>2. IsHeap(heap) /\ Good(heap, root_dir)
  BY DEF Sound
<1>3. IsHeap(k) /\ Good(k, root_dir)
  BY <1>1, <1>2, ShrunkGood
<1> QED
  BY <1>1, <1>3 DEF Answers, Changed

\* so os_rmdir does,
LEMMA RmdirKeeps ==
  ASSUME Sound, state = "running", NEW path \in Paths, os_rmdir(path)
  PROVE  Kept \/ Torn \/ Changed
<1>1. PICK child : child = Target(path, "dir")
  OBVIOUS
<1>2. \/ Refuses("os_rmdir", path, "-EEXIST")
      \/ Stops("os_rmdir", path, child, AnyError)
      \/ Refuses("os_rmdir", path, "-ENOTEMPTY")
      \/ path # <<>> /\ RemovesOne("os_rmdir", path)
      \/ Torn
  BY <1>1, RmdirDoes
<1> QED
  BY <1>2, RefusesKeeps, StopsKeeps, RemovesKeeps

\* and os_unlink.
LEMMA UnlinkKeeps ==
  ASSUME Sound, state = "running", NEW path \in Paths, os_unlink(path)
  PROVE  Kept \/ Torn \/ Changed
<1>1. PICK child : child = Target(path, "file")
  OBVIOUS
<1>2. \/ Refuses("os_unlink", path, "-EEXIST")
      \/ Stops("os_unlink", path, child, AnyError)
      \/ path # <<>> /\ RemovesOne("os_unlink", path)
      \/ Torn
  BY <1>1, UnlinkDoes
<1> QED
  BY <1>2, RefusesKeeps, StopsKeeps, RemovesKeeps

\* A function on 1 .. m is a sequence of that length.
LEMMA IsSequence ==
  ASSUME NEW S, NEW m \in Nat, NEW f \in [1 .. m -> S]
  PROVE  f \in Seq(S) /\ Len(f) = m
OBVIOUS

\* What os_write leaves in the file: long enough, and with the buffer in it.
HasWritten(new, size, old, buff, off) ==
  /\ new \in [1 .. size -> Bytes]
  /\ \A i \in 1 .. Len(buff) : new[off + i] = buff[i]
  /\ \A i \in 1 .. Len(old) : i \notin off + 1 .. off + Len(buff) => new[i] = old[i]

\* os_write keeps what it does not overwrite, whatever realloc returns.
LEMMA Written ==
  ASSUME NEW old \in Seq(Bytes), NEW buff \in Seq(Bytes), NEW off \in Nat, NEW grown \in Nat,
         NEW size \in Nat, size = Len(old) + grown, size >= off + Len(buff),
         NEW junk \in [1 .. grown -> Bytes], NEW new, new = Overwritten(old, junk, buff, off)
  PROVE  new \in Seq(Bytes) /\ HasWritten(new, size, old, buff, off)
<1>1. Len(old) \in Nat /\ Len(buff) \in Nat /\ size >= Len(old)
  BY LenProperties
<1>2. junk \in Seq(Bytes) /\ Len(junk) = grown
  BY IsSequence
<1>3. PICK all : all = old \o junk
  OBVIOUS
<1>4. all \in Seq(Bytes) /\ Len(all) = size /\ \A i \in 1 .. Len(old) : all[i] = old[i]
  <2>1. /\ all \in Seq(Bytes) /\ Len(all) = Len(old) + Len(junk)
        /\ \A i \in 1 .. Len(old) : all[i] = old[i]
    <3>1. junk \in Seq(Bytes) /\ Len(junk) \in Nat
      BY <1>2, LenProperties
    <3>2. all \in Seq(Bytes) /\ Len(all) = Len(old) + Len(junk)
      BY <1>3, <3>1, ConcatProperties
    <3>3. \A i \in 1 .. Len(old) + Len(junk) :
            all[i] = IF i <= Len(old) THEN old[i] ELSE junk[i - Len(old)]
      BY <1>3, <3>1, ConcatProperties
    <3> QED
      BY <1>1, <3>1, <3>2, <3>3
  <2> QED
    BY <1>2, <2>1
<1>5. new = [i \in 1 .. size |-> IF i \in off + 1 .. off + Len(buff) THEN buff[i - off] ELSE all[i]]
  BY <1>2, <1>3 DEF Overwritten
<1>6. \A i \in 1 .. size : i \notin off + 1 .. off + Len(buff) => new[i] = all[i] /\ all[i] \in Bytes
  BY <1>4, <1>5, ElementOfSeq
<1>7. \A i \in 1 .. size : i \in off + 1 .. off + Len(buff) =>
        new[i] = buff[i - off] /\ buff[i - off] \in Bytes
  <2> SUFFICES ASSUME NEW i \in 1 .. size, i \in off + 1 .. off + Len(buff)
               PROVE  new[i] = buff[i - off] /\ buff[i - off] \in Bytes
    OBVIOUS
  <2>1. i - off \in 1 .. Len(buff)
    BY <1>1
  <2> QED
    BY <1>5, <2>1, ElementOfSeq
<1>8. new \in [1 .. size -> Bytes]
  BY <1>5, <1>6, <1>7
<1>9. new \in Seq(Bytes)
  BY <1>8, IsSequence
<1>10. \A i \in 1 .. Len(buff) : new[off + i] = buff[i]
  <2> TAKE i \in 1 .. Len(buff)
  <2>1. off + i \in 1 .. size /\ off + i \in off + 1 .. off + Len(buff) /\ (off + i) - off = i
    BY <1>1
  <2> QED
    BY <1>7, <2>1
<1>11. \A i \in 1 .. Len(old) : i \notin off + 1 .. off + Len(buff) => new[i] = old[i]
  BY <1>1, <1>4, <1>6
<1> QED
  BY <1>8, <1>9, <1>10, <1>11 DEF HasWritten

\* What os_truncate leaves is bytes.
LEMMA Truncated ==
  ASSUME NEW old \in Seq(Bytes), NEW off \in Nat,
         NEW new, new = [i \in 1 .. off |-> IF i <= Len(old) THEN old[i] ELSE 0]
  PROVE  new \in Seq(Bytes)
<1>1. Len(old) \in Nat /\ 0 \in Bytes
  BY LenProperties, FileSystemAssumption
<1>2. \A i \in 1 .. off : i <= Len(old) => old[i] \in Bytes
  BY <1>1, ElementOfSeq
<1>3. new \in [1 .. off -> Bytes]
  BY <1>1, <1>2
<1> QED
  BY <1>3

\* A file with new contents is one of the changes that keep the tree sound,
LEMMA HoldsChanges ==
  ASSUME Sound, state = "running", NEW e \in DOMAIN heap, heap[e].type = "file",
         NEW contents \in Seq(Bytes), Holds(e, contents), UNCHANGED <<root_dir, state>>
  PROVE  Changed
<1>1. IsHeap(heap) /\ Good(heap, root_dir)
  BY DEF Sound
<1>2. heap' = [heap EXCEPT ![e].contents = contents]
  BY DEF Holds
<1>3. IsHeap(heap') /\ Good(heap', root_dir)
  BY <1>1, <1>2, FilledGood
<1> QED
  BY <1>3 DEF Changed

\* The cases of os_write.
LEMMA WriteDoes ==
  ASSUME Sound, state = "running", NEW path \in Paths, NEW buff \in Buffers, NEW off \in Offsets,
         NEW at, at = dfs_find_file(path),
         NEW old, old = heap[at.entry].contents,
         os_write(path, buff, off)
  PROVE  \/ Stops("os_write", path, at, AnyError)
         \/ at.status = "DFS_OK" /\ off < 0 /\ Refuses("os_write", path, "-EINVAL")
         \/ /\ at.status = "DFS_OK" /\ off \in Nat
            /\ Answers("os_write", path, "0", buff)
            /\ \E new \in Seq(Bytes), size \in Nat :
                 /\ size = IF off + Len(buff) > Len(old) THEN off + Len(buff) ELSE Len(old)
                 /\ HasWritten(new, size, old, buff, off) /\ Holds(at.entry, new)
<1>1. IsHeap(heap) /\ Good(heap, root_dir)
  BY DEF Sound
<1>2. off \in Int /\ buff \in Seq(Bytes) /\ Len(buff) \in Nat
  BY FileSystemAssumption, LenProperties
<1>3. \/ Stops("os_write", path, at, AnyError)
      \/ at.status = "DFS_OK" /\ off < 0 /\ Refuses("os_write", path, "-EINVAL")
      \/ /\ at.status = "DFS_OK" /\ off >= 0 /\ Answers("os_write", path, "0", buff)
         /\ \E junk \in [1 .. Lacks(old, off + Len(buff)) -> Bytes] :
              Holds(at.entry, Overwritten(old, junk, buff, off))
  BY Zenon DEF os_write
<1>4. CASE /\ at.status = "DFS_OK" /\ off >= 0 /\ Answers("os_write", path, "0", buff)
           /\ \E junk \in [1 .. Lacks(old, off + Len(buff)) -> Bytes] :
                Holds(at.entry, Overwritten(old, junk, buff, off))
  <2>1. at.entry \in DOMAIN heap /\ off \in Nat
    BY <1>1, <1>2, <1>4, FileFound
  <2>2. old \in Seq(Bytes) /\ Len(old) \in Nat
    BY <1>1, <2>1, NodeParts, LenProperties
  <2>3. PICK o \in Nat, b \in Nat : o = Len(old) /\ b = Len(buff)
    BY <1>2, <2>2
  <2>4. PICK grown : grown = Lacks(old, off + Len(buff))
    OBVIOUS
  <2>5. grown = IF off + b > o THEN off + b - o ELSE 0
    BY <2>1, <2>3, <2>4 DEF Lacks
  <2>6. PICK size \in Nat : size = IF off + b > o THEN off + b ELSE o
    BY <2>1
  <2>7. grown \in Nat /\ size = o + grown /\ size >= off + b
    <3>1. CASE off + b > o
      BY <2>1, <2>3, <2>5, <2>6, <3>1
    <3>2. CASE ~ (off + b > o)
      BY <2>1, <2>3, <2>5, <2>6, <3>2
    <3> QED
      BY <3>1, <3>2
  <2>8. PICK junk \in [1 .. grown -> Bytes] : Holds(at.entry, Overwritten(old, junk, buff, off))
    BY <1>4, <2>4
  <2>9. PICK new : new = Overwritten(old, junk, buff, off)
    OBVIOUS
  <2>10. new \in Seq(Bytes) /\ HasWritten(new, size, old, buff, off)
    BY <1>2, <2>1, <2>2, <2>3, <2>7, <2>8, <2>9, Written
  <2> QED
    BY <1>4, <2>1, <2>3, <2>6, <2>8, <2>9, <2>10
<1> QED
  BY <1>3, <1>4

\* which os_write makes,
LEMMA WriteKeeps ==
  ASSUME Sound, state = "running", NEW path \in Paths, NEW buff \in Buffers, NEW off \in Offsets,
         os_write(path, buff, off)
  PROVE  Kept \/ Torn \/ Changed
<1>1. PICK at, old : at = dfs_find_file(path) /\ old = heap[at.entry].contents
  OBVIOUS
<1>2. \/ Stops("os_write", path, at, AnyError)
      \/ Refuses("os_write", path, "-EINVAL")
      \/ /\ at.status = "DFS_OK" /\ Answers("os_write", path, "0", buff)
         /\ \E new \in Seq(Bytes) : Holds(at.entry, new)
  BY <1>1, WriteDoes
<1>3. CASE /\ at.status = "DFS_OK" /\ Answers("os_write", path, "0", buff)
           /\ \E new \in Seq(Bytes) : Holds(at.entry, new)
  <2>1. at.entry \in DOMAIN heap /\ heap[at.entry].type = "file"
    BY <1>1, <1>3, FileFound DEF Sound
  <2>2. UNCHANGED <<root_dir, state>>
    BY <1>3 DEF Answers
  <2> QED
    BY <1>3, <2>1, <2>2, HoldsChanges
<1> QED
  BY <1>2, <1>3, StopsKeeps, RefusesKeeps

\* and os_truncate.
LEMMA TruncateKeeps ==
  ASSUME Sound, state = "running", NEW path \in Paths, NEW off, os_truncate(path, off)
  PROVE  Kept \/ Torn \/ Changed
<1>1. PICK at, old : at = dfs_find_file(path) /\ old = heap[at.entry].contents
  OBVIOUS
<1>2. PICK new : new = [i \in 1 .. off |-> IF i <= Len(old) THEN old[i] ELSE 0]
  OBVIOUS
<1>3. \/ Stops("os_truncate", path, at, AnyError \ {"DFS_E_NOT_A_DIRECTORY"})
      \/ /\ at.status = "DFS_OK" /\ off \in 0 .. MaxLength
         /\ Holds(at.entry, new)
         /\ Answers("os_truncate", path, "0", off)
  BY <1>1, <1>2, Zenon DEF os_truncate
<1>4. CASE /\ at.status = "DFS_OK" /\ off \in 0 .. MaxLength
           /\ Holds(at.entry, new)
           /\ Answers("os_truncate", path, "0", off)
  <2>1. at.entry \in DOMAIN heap /\ heap[at.entry].type = "file"
    BY <1>1, <1>4, FileFound DEF Sound
  <2>2. UNCHANGED <<root_dir, state>>
    BY <1>4 DEF Answers
  <2>3. old \in Seq(Bytes) /\ off \in Nat
    <3>1. old \in Seq(Bytes)
      BY <1>1, <2>1, NodeParts DEF Sound
    <3>2. off \in Nat
      BY <1>4, FileSystemAssumption
    <3> QED
      BY <3>1, <3>2
  <2>4. new \in Seq(Bytes)
    BY <1>2, <2>3, Truncated
  <2> QED
    BY <1>4, <2>1, <2>2, <2>4, HoldsChanges
<1> QED
  BY <1>3, <1>4, StopsKeeps

\* The other handlers change no entry.
LEMMA ReadsKeep ==
  ASSUME NEW path,
         \/ os_readdir(path) \/ os_getattr(path) \/ os_chmod(path) \/ os_chown(path)
         \/ os_utimens(path) \/ os_setxattr(path) \/ \E size, off : os_read(path, size, off)
  PROVE  Kept
<1>1. CASE os_readdir(path)
  BY <1>1, StopsKeeps, AnswersKeeps DEF os_readdir
<1>2. CASE os_getattr(path)
  BY <1>2, StopsKeeps, AnswersKeeps DEF os_getattr
<1>3. ASSUME NEW op, Sets(op, path)
      PROVE  Kept
  BY <1>3, StopsKeeps, RefusesKeeps DEF Sets
<1>4. CASE os_setxattr(path)
  BY <1>4, RefusesKeeps DEF os_setxattr
<1>5. ASSUME NEW size, NEW off, os_read(path, size, off)
      PROVE  Kept
  BY <1>5, StopsKeeps, RefusesKeeps, AnswersKeeps DEF os_read
<1> QED
  BY <1>1, <1>2, <1>3, <1>4, <1>5 DEF os_chmod, os_chown, os_utimens

\* Every handler keeps the heap, tears it, or changes it soundly.
LEMMA HandlerKeeps ==
  ASSUME Sound, state = "running", Handler
  PROVE  Kept \/ Torn \/ Changed
<1>1. PICK path \in Paths :
        \/ os_mkdir(path) \/ os_create(path) \/ os_rmdir(path) \/ os_unlink(path)
        \/ os_readdir(path) \/ os_getattr(path)
        \/ os_chmod(path) \/ os_chown(path) \/ os_utimens(path) \/ os_setxattr(path)
        \/ \E off \in ReadOffsets, size \in Sizes : os_read(path, size, off)
        \/ \E off \in Offsets :
             \/ os_truncate(path, off)
             \/ \E buff \in Buffers : os_write(path, buff, off)
  BY DEF Handler
<1>2. CASE os_mkdir(path) \/ os_create(path)
  BY <1>2, MakesKeeps DEF os_mkdir, os_create
<1>3. CASE os_rmdir(path)
  BY <1>3, RmdirKeeps
<1>4. CASE os_unlink(path)
  BY <1>4, UnlinkKeeps
<1>5. CASE \/ os_readdir(path) \/ os_getattr(path) \/ os_chmod(path) \/ os_chown(path)
           \/ os_utimens(path) \/ os_setxattr(path)
  BY <1>5, ReadsKeep
<1>6. ASSUME NEW off \in Offsets, os_truncate(path, off)
      PROVE  Kept \/ Torn \/ Changed
  BY <1>6, TruncateKeeps
<1>7. ASSUME NEW off \in ReadOffsets, NEW size \in Sizes, os_read(path, size, off)
      PROVE  Kept \/ Torn \/ Changed
  BY <1>7, ReadsKeep
<1>8. ASSUME NEW off \in Offsets, NEW buff \in Buffers, os_write(path, buff, off)
      PROVE  Kept \/ Torn \/ Changed
  BY <1>8, WriteKeeps
<1> QED
  BY <1>1, <1>2, <1>3, <1>4, <1>5, <1>6, <1>7, <1>8

\* No step leads out of the invariant.
LEMMA StepSound ==
  ASSUME Sound, [Next]_vars
  PROVE  Sound'
<1>1. CASE state = "running" /\ Handler
  BY <1>1, HandlerKeeps, SoundAfter
<1>2. CASE state = "running" /\ OutOfMemory
  BY <1>2, RefusesKeeps, SoundAfter DEF OutOfMemory
<1>3. CASE UNCHANGED <<root_dir, heap, state>>
  BY <1>3, SoundNext DEF Sound
<1> QED
  BY <1>1, <1>2, <1>3 DEF Next, Replies, vars

\* The invariant holds in every state.
THEOREM AlwaysSound == Spec => []Sound
<1>1. Init => Sound
  BY InitSound
<1>2. Sound /\ [Next]_vars => Sound'
  BY StepSound
<1> QED
  BY <1>1, <1>2, PTL DEF Spec

\* Every entry in memory is a file or a directory of entries.
THEOREM AlwaysTyped == Spec => []TypeOK
<1>1. Sound => TypeOK
  BY NodeParts DEF Sound, TypeOK, IsHeap
<1> QED
  BY <1>1, AlwaysSound, PTL

\* As long as no strdup and no resize_table of a table has failed, every handler
\* leaves a tree: no entry is lost, and none could be freed twice.
THEOREM AlwaysTree == Spec => []TreeSound
<1>1. ASSUME Sound
      PROVE  TreeSound
  <2> SUFFICES ASSUME state # "torn"
               PROVE  /\ \A link \in Links : PointsTo(link) \in DOMAIN heap \ {root_dir}
                      /\ \A l1, l2 \in Links : PointsTo(l1) = PointsTo(l2) => l1 = l2
                      /\ Below(root_dir) = DOMAIN heap
                      /\ \A e \in DOMAIN heap :
                           IF heap[e].type = "dir" THEN heap[e].contents = <<>> ELSE heap[e].entries = NoNames
    BY DEF TreeSound
  <2>1. IsHeap(heap) /\ root_dir \in DOMAIN heap /\ Linked(heap, root_dir) /\ Once(heap)
        /\ Plain(heap) /\ Reached(heap, root_dir)
    BY <1>1 DEF Sound, Good
  <2>2. \A link \in Links : /\ link[1] \in DOMAIN heap /\ link[2] \in DOMAIN heap[link[1]].entries
                            /\ link = <<link[1], link[2]>>
    BY DEF Links
  <2>3. \A link \in Links : PointsTo(link) \in DOMAIN heap \ {root_dir}
    BY <2>1, <2>2 DEF PointsTo, Linked
  <2>4. ASSUME NEW l1 \in Links, NEW l2 \in Links, PointsTo(l1) = PointsTo(l2)
        PROVE  l1 = l2
    <3>1. l1[1] = l2[1] /\ l1[2] = l2[2]
      BY <2>1, <2>2, <2>4 DEF PointsTo, Once
    <3>2. l1 = <<l1[1], l1[2]>> /\ l2 = <<l2[1], l2[2]>>
      BY <2>2
    <3> QED
      BY <3>1, <3>2
  <2>5. Below(root_dir) = DOMAIN heap
    <3>1. \A p \in Paths : /\ dfs_find_entry(root_dir, p) = Find(heap, root_dir, p)
                           /\ Find(heap, root_dir, p) \in Places(heap)
      BY <2>1, FindIs, FindShape, PathsAre
    <3>2. \A e \in DOMAIN heap : \E p \in Paths : dfs_find_entry(root_dir, p) = At(e)
      BY <2>1, <3>1 DEF Reached
    <3>3. \A p \in Paths : dfs_find_entry(root_dir, p).entry \in DOMAIN heap
      BY <3>1 DEF Places
    <3> QED
      BY <3>2, <3>3, AtParts DEF Below
  <2>6. \A e \in DOMAIN heap :
          IF heap[e].type = "dir" THEN heap[e].contents = <<>> ELSE heap[e].entries = NoNames
    <3>1. \A e \in DOMAIN heap : heap[e].type \in {"dir", "file"}
      BY <2>1, NodeParts
    <3> QED
      BY <2>1, <3>1 DEF Plain
  <2> QED
    BY <2>3, <2>4, <2>5, <2>6
<1>2. Sound => TreeSound
  BY <1>1
<1> QED
  BY <1>2, AlwaysSound, PTL

-------------------------------------------------------------------------------
(* Prefixes and children *)

\* A prefix, element by element.
LEMMA PrefixIs ==
  ASSUME NEW S, NEW p \in Seq(S), NEW q \in Seq(S)
  PROVE  IsPrefix(p, q) <=> Len(p) <= Len(q) /\ \A i \in 1 .. Len(p) : p[i] = q[i]
<1>1. Len(p) \in Nat /\ Len(q) \in Nat
  BY LenProperties
<1>2. SubSeq(p, 1, Len(p)) = p
  BY SubSeqFull
<1>3. ASSUME Len(p) <= Len(q)
      PROVE  SubSeq(q, 1, Len(p)) = p <=> \A i \in 1 .. Len(p) : p[i] = q[i]
  <2>1. PICK m \in Nat : m = Len(p)
    BY <1>1
  <2>2. \A i \in 1 .. m : q[i] \in S
    BY <1>1, <1>3, <2>1, ElementOfSeq
  <2>3. PICK front : front = SubSeq(q, 1, m)
    OBVIOUS
  <2>4. front \in Seq(S) /\ Len(front) = m /\ \A i \in 1 .. m : front[i] = q[i]
    <3>1. front = [i \in 1 .. m |-> q[i]]
      BY <2>1, <2>3
    <3> QED
      BY <2>2, <3>1
  <2>5. front = p <=> \A i \in 1 .. m : p[i] = q[i]
    <3>1. ASSUME \A i \in 1 .. m : p[i] = q[i]
          PROVE  front = p
      <4>1. \A i \in 1 .. Len(front) : front[i] = p[i]
        BY <2>4, <3>1
      <4> QED
        BY <2>1, <2>4, <4>1, SeqEqual
    <3> QED
      BY <2>4, <3>1
  <2> QED
    BY <2>1, <2>3, <2>5
<1> QED
  BY <1>2, <1>3 DEF IsPrefix

\* What comes before a path is its parent or comes before that.
LEMMA PrefixFront ==
  ASSUME NEW S, NEW p \in Seq(S), NEW q \in Seq(S), q # <<>>, NEW f, f = Front(q)
  PROVE  IsStrictPrefix(p, q) <=> p = f \/ IsStrictPrefix(p, f)
<1>1. /\ f \in Seq(S) /\ Len(q) \in Nat /\ Len(q) >= 1 /\ Len(f) = Len(q) - 1 /\ Len(p) \in Nat
      /\ \A i \in 1 .. Len(q) - 1 : f[i] = q[i]
  BY FrontLast, LenProperties
<1>2. /\ IsPrefix(p, q) <=> Len(p) <= Len(q) /\ \A i \in 1 .. Len(p) : p[i] = q[i]
      /\ IsPrefix(p, f) <=> Len(p) <= Len(f) /\ \A i \in 1 .. Len(p) : p[i] = f[i]
      /\ IsPrefix(f, f)
  BY <1>1, PrefixIs
<1>3. ASSUME IsStrictPrefix(p, q)
      PROVE  IsPrefix(p, f)
  <2>1. Len(p) <= Len(q) /\ p # q /\ \A i \in 1 .. Len(p) : p[i] = q[i]
    BY <1>2, <1>3 DEF IsStrictPrefix
  <2>2. Len(p) # Len(q)
    BY <2>1, SeqEqual
  <2>3. Len(p) <= Len(f)
    BY <1>1, <2>1, <2>2
  <2>4. \A i \in 1 .. Len(p) : p[i] = f[i]
    BY <1>1, <2>1, <2>3
  <2> QED
    BY <1>2, <2>3, <2>4
<1>4. ASSUME IsPrefix(p, f)
      PROVE  IsStrictPrefix(p, q)
  <2>1. Len(p) <= Len(f) /\ \A i \in 1 .. Len(p) : p[i] = f[i]
    BY <1>2, <1>4
  <2>2. Len(p) <= Len(q) /\ Len(p) # Len(q) /\ \A i \in 1 .. Len(p) : p[i] = q[i]
    BY <1>1, <2>1
  <2>3. p # q
    BY <2>2
  <2> QED
    BY <1>2, <2>2, <2>3 DEF IsStrictPrefix
<1>5. IsPrefix(p, f) <=> p = f \/ IsStrictPrefix(p, f)
  BY <1>2 DEF IsStrictPrefix
<1> QED
  BY <1>3, <1>4, <1>5

\* Nothing comes before the empty path.
LEMMA NoPrefix ==
  ASSUME NEW S, NEW p \in Seq(S)
  PROVE  ~ IsStrictPrefix(p, <<>>)
<1>1. <<>> \in Seq(S) /\ Len(<<>>) = 0 /\ Len(p) \in Nat
  BY EmptySeq, LenProperties
<1>2. ASSUME IsStrictPrefix(p, <<>>)
      PROVE  FALSE
  <2>1. Len(p) = 0 /\ p # <<>>
    <3>1. IsPrefix(p, <<>>) /\ p # <<>>
      BY <1>2 DEF IsStrictPrefix
    <3>2. Len(p) <= Len(<<>>)
      BY <3>1 DEF IsPrefix
    <3> QED
      BY <1>1, <3>1, <3>2
  <2> QED
    BY <2>1, EmptySeq
<1> QED
  BY <1>2

\* As many names as paths that go on by one of them.
LEMMA AppendCounts ==
  ASSUME NEW path \in Seq(Names), NEW names \in SUBSET Names, IsFiniteSet(names),
         NEW ps, \A p : p \in ps <=> \E n \in names : p = Append(path, n)
  PROVE  Cardinality(ps) = Cardinality(names)
<1>1. PICK f : f = [n \in names |-> Append(path, n)]
  OBVIOUS
<1>2. f \in [names -> ps]
  BY <1>1
<1>3. \A m, n \in names : f[m] = f[n] => m = n
  <2> SUFFICES ASSUME NEW m \in names, NEW n \in names, f[m] = f[n]
               PROVE  m = n
    OBVIOUS
  <2>1. f[m] = Append(path, m) /\ f[n] = Append(path, n)
    BY <1>1
  <2>2. PICK a \in Names, b \in Names : a = m /\ b = n
    OBVIOUS
  <2>3. PICK p : p = Append(path, a)
    OBVIOUS
  <2>4. PICK q : q = Append(path, b)
    OBVIOUS
  <2>5. Last(p) = a
    BY <2>3, FrontAppend
  <2>6. Last(q) = b
    BY <2>4, FrontAppend
  <2>7. p = q
    BY <2>1, <2>2, <2>3, <2>4
  <2> QED
    BY <2>2, <2>5, <2>6, <2>7
<1>4. \A p \in ps : \E n \in names : f[n] = p
  BY <1>1
<1>5. f \in Bijection(names, ps)
  BY <1>2, <1>3, <1>4, Fun_IsBij
<1>6. ExistsBijection(names, ps)
  BY <1>5, Fun_ExistsBij
<1> QED
  BY <1>6, FS_Bijection

-------------------------------------------------------------------------------
(* The tree that DirTree sees *)

Tree(h, r) ==
  [p \in {q \in Paths : Find(h, r, q).status = "DFS_OK"} |->
     [type |-> h[Find(h, r, p).entry].type, contents |-> h[Find(h, r, p).entry].contents]]

\* The tree of the refinement mapping is the Tree of the heap there is.
LEMMA TreeIs ==
  tree = Tree(heap, root_dir) /\ tree' = Tree(heap', root_dir')
<1>1. tree = Tree(heap, root_dir)
  BY DEF tree, Tree, Found, NodeAt, dfs_find_entry, Find, Enters, dfs_get_entry, Entered
<1>2. tree' = Tree(heap', root_dir')
  BY DEF tree, Tree, Found, NodeAt, dfs_find_entry, Find, Enters, dfs_get_entry, Entered
<1> QED
  BY <1>1, <1>2

\* A path is in the tree exactly when it is found, with the entry found there.
LEMMA TreeParts ==
  ASSUME NEW h, NEW r, Good(h, r), NEW t, t = Tree(h, r)
  PROVE  /\ \A p : p \in DOMAIN t <=> p \in Paths /\ Find(h, r, p).status = "DFS_OK"
         /\ \A p \in DOMAIN t : /\ Find(h, r, p) = At(Find(h, r, p).entry)
                                /\ Find(h, r, p).entry \in DOMAIN h
                                /\ t[p] = [type |-> h[Find(h, r, p).entry].type,
                                           contents |-> h[Find(h, r, p).entry].contents]
                                /\ t[p].type = h[Find(h, r, p).entry].type
                                /\ t[p].contents = h[Find(h, r, p).entry].contents
         /\ <<>> \in DOMAIN t
<1>1. \A p : p \in DOMAIN t <=> p \in Paths /\ Find(h, r, p).status = "DFS_OK"
  BY DEF Tree
<1>2. ASSUME NEW p \in DOMAIN t
      PROVE  /\ Find(h, r, p) = At(Find(h, r, p).entry) /\ Find(h, r, p).entry \in DOMAIN h
             /\ t[p] = [type |-> h[Find(h, r, p).entry].type,
                        contents |-> h[Find(h, r, p).entry].contents]
  <2>1. p \in Seq(Names) /\ Linked(h, r) /\ r \in DOMAIN h
    BY <1>1, PathsAre DEF Good
  <2>2. PICK at \in Places(h) : at = Find(h, r, p)
    BY <2>1, FindShape
  <2>3. at = At(at.entry) /\ at.entry \in DOMAIN h
    BY <1>1, <2>2, FoundIsAt
  <2>4. t[p] = [type |-> h[Find(h, r, p).entry].type, contents |-> h[Find(h, r, p).entry].contents]
    BY <1>1 DEF Tree
  <2> QED
    BY <2>2, <2>3, <2>4
<1>3. <<>> \in DOMAIN t
  BY <1>1, FindEmpty, PathsAre, AtParts
<1> QED
  BY <1>1, <1>2, <1>3

\* A lookup fails on a file exactly when a file comes before.
LEMMA FileBefore ==
  ASSUME NEW h, IsHeap(h), NEW r, Good(h, r), NEW t, t = Tree(h, r), NEW path \in Paths
  PROVE  Find(h, r, path).status = "DFS_E_NOT_A_DIRECTORY" <=>
           \E p \in DOMAIN t : IsStrictPrefix(p, path) /\ t[p].type = "file"
<1> DEFINE File(p) == Find(h, r, p).status = "DFS_OK" /\ h[Find(h, r, p).entry].type = "file"
           T == {q \in Seq(Names) : Find(h, r, q).status = "DFS_E_NOT_A_DIRECTORY" <=>
                                      \E p \in Seq(Names) : IsStrictPrefix(p, q) /\ File(p)}
<1>1. r \in DOMAIN h /\ Linked(h, r)
  BY DEF Good
<1>2. <<>> \in T
  <2>1. <<>> \in Seq(Names) /\ Find(h, r, <<>>).status = "DFS_OK"
    BY FindEmpty, AtParts, EmptySeq
  <2> QED
    BY <2>1, NoPrefix
<1>3. ASSUME NEW q \in Seq(Names), q # <<>>, Front(q) \in T
      PROVE  q \in T
  <2>1. PICK f \in Seq(Names) : f = Front(q)
    BY <1>3, FrontLast
  <2>2. PICK at \in Places(h) : at = Find(h, r, f)
    BY <1>1, <2>1, FindShape
  <2>3. at.entry \in DOMAIN h
    BY <2>2 DEF Places
  <2>4. h[at.entry].type # "dir" <=> h[at.entry].type = "file"
    BY <2>3, NodeParts
  <2>5. Find(h, r, q).status = "DFS_E_NOT_A_DIRECTORY" <=>
          \/ at.status = "DFS_E_NOT_A_DIRECTORY"
          \/ at.status = "DFS_OK" /\ h[at.entry].type # "dir"
    BY <1>1, <1>3, <2>1, <2>2, FoundIn
  <2>6. \A p \in Seq(Names) : IsStrictPrefix(p, q) <=> p = f \/ IsStrictPrefix(p, f)
    BY <1>3, <2>1, PrefixFront
  <2>7. at.status = "DFS_E_NOT_A_DIRECTORY" <=> \E p \in Seq(Names) : IsStrictPrefix(p, f) /\ File(p)
    BY <1>3, <2>1, <2>2
  <2>8. (\E p \in Seq(Names) : IsStrictPrefix(p, q) /\ File(p)) <=>
          \/ File(f)
          \/ \E p \in Seq(Names) : IsStrictPrefix(p, f) /\ File(p)
    BY <2>6
  <2>9. File(f) <=> at.status = "DFS_OK" /\ h[at.entry].type # "dir"
    BY <2>2, <2>4
  <2> QED
    BY <2>5, <2>7, <2>8, <2>9
<1>4. \A q \in Seq(Names) : q # <<>> /\ Front(q) \in T => q \in T
  BY <1>3
<1> HIDE DEF T
<1>5. \A q \in Seq(Names) : q \in T
  BY <1>2, <1>4, PathInduction
<1>6. path \in Seq(Names) /\ Len(path) <= MaxDepth /\ Len(path) \in Nat /\ MaxDepth \in Nat
  BY PathsAre, LenProperties, FileSystemAssumption
<1>7. \A p \in Seq(Names) : IsStrictPrefix(p, path) => p \in Paths
  <2> SUFFICES ASSUME NEW p \in Seq(Names), IsStrictPrefix(p, path)
               PROVE  p \in Paths
    OBVIOUS
  <2>1. Len(p) <= Len(path) /\ Len(p) \in Nat
    BY LenProperties DEF IsStrictPrefix, IsPrefix
  <2>2. Len(p) <= MaxDepth
    BY <1>6, <2>1
  <2> QED
    BY <2>2, PathsAre
<1>8. \A p \in Seq(Names) : IsStrictPrefix(p, path) =>
        (File(p) <=> p \in DOMAIN t /\ t[p].type = "file")
  BY <1>7, TreeParts
<1>9. \A p \in DOMAIN t : p \in Seq(Names)
  BY TreeParts, PathsAre
<1> QED
  BY <1>5, <1>6, <1>8, <1>9 DEF T

\* The errors of DirTree, and those of the lookups.
ErrorIn(t, path, types) ==
  CASE path \notin DOMAIN t ->
         IF \E p \in DOMAIN t : IsStrictPrefix(p, path) /\ t[p].type = "file"
           THEN "-ENOTDIR" ELSE "-ENOENT"
    [] path \in DOMAIN t /\ t[path].type \notin types ->
         IF t[path].type = "file" THEN "-ENOTDIR" ELSE "-EISDIR"
    [] OTHER -> "0"

\* The error that DirTree gives is ErrorIn of the tree.
LEMMA ErrorIs ==
  ASSUME NEW path, NEW types
  PROVE  Abstract!Error(path, types) = ErrorIn(tree, path, types)
BY DEF Abstract!Error, ErrorIn, Abstract!IsStrictPrefix, IsStrictPrefix, Abstract!IsPrefix, IsPrefix

\* DirTree's error for a path is the one that a lookup gives rise to.
LEMMA ErrorCases ==
  ASSUME NEW h, IsHeap(h), NEW r, Good(h, r), NEW t, t = Tree(h, r), NEW path \in Paths, NEW types,
         NEW at, at = Find(h, r, path)
  PROVE  /\ at \in Places(h)
         /\ at.status = "DFS_E_NOT_A_DIRECTORY" => ErrorIn(t, path, types) = "-ENOTDIR"
         /\ at.status = "DFS_E_ENTRY_DOES_NOT_EXIST" => ErrorIn(t, path, types) = "-ENOENT"
         /\ at.status = "DFS_OK" /\ h[at.entry].type \in types => ErrorIn(t, path, types) = "0"
         /\ at.status = "DFS_OK" /\ h[at.entry].type \notin types /\ h[at.entry].type = "file" =>
              ErrorIn(t, path, types) = "-ENOTDIR"
         /\ at.status = "DFS_OK" /\ h[at.entry].type \notin types /\ h[at.entry].type = "dir" =>
              ErrorIn(t, path, types) = "-EISDIR"
<1>1. at \in Places(h)
  BY FindShape, PathsAre DEF Good
<1>2. path \in DOMAIN t <=> at.status = "DFS_OK"
  BY TreeParts
<1>3. at.status = "DFS_OK" => t[path].type = h[at.entry].type
  BY <1>2, TreeParts
<1>4. at.status = "DFS_E_NOT_A_DIRECTORY" <=>
        \E p \in DOMAIN t : IsStrictPrefix(p, path) /\ t[p].type = "file"
  BY FileBefore
<1>5. at.status = "DFS_E_NOT_A_DIRECTORY" => ErrorIn(t, path, types) = "-ENOTDIR"
  BY <1>2, <1>4 DEF ErrorIn
<1>6. at.status = "DFS_E_ENTRY_DOES_NOT_EXIST" => ErrorIn(t, path, types) = "-ENOENT"
  BY <1>2, <1>4 DEF ErrorIn
<1>7. at.status = "DFS_OK" /\ h[at.entry].type \in types => ErrorIn(t, path, types) = "0"
  BY <1>2, <1>3 DEF ErrorIn
<1>8. at.status = "DFS_OK" /\ h[at.entry].type \notin types /\ h[at.entry].type = "file" =>
        ErrorIn(t, path, types) = "-ENOTDIR"
  BY <1>2, <1>3 DEF ErrorIn
<1>9. at.status = "DFS_OK" /\ h[at.entry].type \notin types /\ h[at.entry].type = "dir" =>
        ErrorIn(t, path, types) = "-EISDIR"
  BY <1>2, <1>3 DEF ErrorIn
<1> QED
  BY <1>1, <1>5, <1>6, <1>7, <1>8, <1>9

\* What a handler answers when the lookup of a file or a directory failed is
\* what DirTree answers.
LEMMA AsError ==
  ASSUME Sound, state = "running", NEW path \in Paths, NEW type \in {"dir", "file"},
         NEW at, at = As(type, Find(heap, root_dir, path))
  PROVE  /\ at.status # "DFS_OK" =>
              /\ Abstract!Error(path, {type}) = handleErrors(at.status)
              /\ Abstract!Error(path, {type}) # "0"
         /\ at.status = "DFS_OK" => /\ Abstract!Error(path, {type}) = "0"
                                    /\ path \in DOMAIN tree /\ tree[path].type = type
                                    /\ at = Find(heap, root_dir, path)
                                    /\ tree[path].contents = heap[at.entry].contents
<1>1. IsHeap(heap) /\ Good(heap, root_dir) /\ tree = Tree(heap, root_dir)
  BY TreeIs DEF Sound
<1>2. PICK found : found = Find(heap, root_dir, path)
  OBVIOUS
<1>3. PICK error : error = ErrorIn(tree, path, {type})
  OBVIOUS
<1>4. /\ found \in Places(heap)
      /\ found.status = "DFS_E_NOT_A_DIRECTORY" => error = "-ENOTDIR"
      /\ found.status = "DFS_E_ENTRY_DOES_NOT_EXIST" => error = "-ENOENT"
      /\ found.status = "DFS_OK" /\ heap[found.entry].type \in {type} => error = "0"
      /\ found.status = "DFS_OK" /\ heap[found.entry].type \notin {type} /\ heap[found.entry].type = "file" =>
           error = "-ENOTDIR"
      /\ found.status = "DFS_OK" /\ heap[found.entry].type \notin {type} /\ heap[found.entry].type = "dir" =>
           error = "-EISDIR"
  BY <1>1, <1>2, <1>3, ErrorCases
<1>5. Abstract!Error(path, {type}) = error
  BY <1>3, ErrorIs
<1>6. at = As(type, found)
  BY <1>2
<1>7. /\ handleErrors("DFS_E_NOT_A_DIRECTORY") = "-ENOTDIR"
      /\ handleErrors("DFS_E_ENTRY_DOES_NOT_EXIST") = "-ENOENT"
      /\ handleErrors("DFS_E_NOT_A_FILE") = "-EISDIR"
  BY DEF handleErrors
<1>8. CASE found.status # "DFS_OK"
  <2>1. at = found
    BY <1>4, <1>6, <1>8, AsParts
  <2>2. found.status \in {"DFS_E_ENTRY_DOES_NOT_EXIST", "DFS_E_NOT_A_DIRECTORY"}
    BY <1>4, <1>8 DEF Places
  <2> QED
    BY <1>4, <1>5, <1>7, <1>8, <2>1, <2>2
<1>9. CASE found.status = "DFS_OK" /\ heap[found.entry].type = type
  <2>1. at = found
    BY <1>4, <1>6, <1>9, AsParts
  <2>2. path \in DOMAIN tree /\ tree[path].type = type
        /\ tree[path].contents = heap[found.entry].contents
    BY <1>1, <1>2, <1>9, TreeParts
  <2> QED
    BY <1>2, <1>4, <1>5, <1>9, <2>1, <2>2
<1>10. CASE found.status = "DFS_OK" /\ heap[found.entry].type # type
  <2>1. found.entry \in DOMAIN heap /\ heap[found.entry].type \in {"dir", "file"}
    BY <1>1, <1>4, <1>10, FoundIsAt, NodeParts
  <2>2. CASE type = "dir"
    <3>1. at.status = "DFS_E_NOT_A_DIRECTORY"
      BY <1>4, <1>6, <1>10, <2>2, AsParts
    <3> QED
      BY <1>4, <1>5, <1>7, <1>10, <2>1, <2>2, <3>1
  <2>3. CASE type = "file"
    <3>1. at.status = "DFS_E_NOT_A_FILE"
      BY <1>4, <1>6, <1>10, <2>3, AsParts
    <3> QED
      BY <1>4, <1>5, <1>7, <1>10, <2>1, <2>3, <3>1
  <2> QED
    BY <2>2, <2>3
<1> QED
  BY <1>8, <1>9, <1>10

\* The children of a directory are as its names; a file has none.
IsChildren(children, path, entries) ==
  /\ \A p \in children : \E n \in DOMAIN entries : p = Append(path, n)
  /\ \A n \in DOMAIN entries :
       /\ Append(path, n) \in children /\ Last(Append(path, n)) = n
       /\ tree[Append(path, n)].type = heap[entries[n]].type

\* The children of a path in the tree are the names in its directory.
LEMMA ChildrenAre ==
  ASSUME Sound, state = "running", NEW path \in Paths, NEW e \in DOMAIN heap,
         Find(heap, root_dir, path) = At(e),
         NEW children, children = Abstract!Children(path)
  PROVE  IsChildren(children, path, heap[e].entries)
<1>1. IsHeap(heap) /\ Good(heap, root_dir) /\ tree = Tree(heap, root_dir)
  BY TreeIs DEF Sound
<1>2. path \in Seq(Names) /\ root_dir \in DOMAIN heap /\ Linked(heap, root_dir)
  BY <1>1, PathsAre DEF Good
<1>3. \A p : p \in children <=> p \in DOMAIN tree /\ p # <<>> /\ Front(p) = path
  BY DEF Abstract!Children, Abstract!Front, Front
<1>4. ASSUME NEW p, p \in DOMAIN tree, p # <<>>, Front(p) = path
      PROVE  \E n \in DOMAIN heap[e].entries : p = Append(path, n)
  <2>1. p \in Seq(Names) /\ Find(heap, root_dir, p).status = "DFS_OK"
    BY <1>1, <1>4, TreeParts, PathsAre
  <2>2. PICK d \in DOMAIN heap :
          /\ Find(heap, root_dir, Front(p)) = At(d) /\ heap[d].type = "dir"
          /\ Last(p) \in DOMAIN heap[d].entries
          /\ Find(heap, root_dir, p) = At(heap[d].entries[Last(p)])
    BY <1>2, <1>4, <2>1, FoundUnder
  <2>3. d = e
    BY <1>4, <2>2, AtParts
  <2>4. p = Append(path, Last(p))
    BY <1>4, <2>1, FrontLast
  <2> QED
    BY <2>2, <2>3, <2>4
<1>5. ASSUME NEW p, NEW n \in DOMAIN heap[e].entries, p = Append(path, n)
      PROVE  /\ p \in DOMAIN tree /\ p # <<>> /\ Front(p) = path /\ Last(p) = n
             /\ tree[p].type = heap[heap[e].entries[n]].type
  <2>1. n \in Names
    BY <1>1, NodeParts
  <2>2. p \in Seq(Names) /\ p # <<>> /\ Front(p) = path /\ Last(p) = n
    <3>1. PICK m \in Names : m = n
      BY <2>1
    <3>2. PICK s \in Seq(Names) : s = path
      BY <1>2
    <3>3. PICK q : q = Append(s, m)
      OBVIOUS
    <3>4. q \in Seq(Names) /\ q # <<>> /\ Front(q) = s /\ Last(q) = m
      BY <3>3, FrontAppend
    <3>5. p = q
      BY <1>5, <3>1, <3>2, <3>3
    <3> QED
      BY <3>1, <3>2, <3>4, <3>5
  <2>3. p \in Paths /\ Find(heap, root_dir, p) = At(heap[e].entries[n])
    <3> IsHeap(heap) /\ Good(heap, root_dir)
      BY <1>1
    <3>1. Find(heap, root_dir, Front(p)) = At(e) /\ Last(p) \in DOMAIN heap[e].entries
      BY <2>2
    <3>2. p \in Paths /\ Find(heap, root_dir, p) = At(heap[e].entries[Last(p)])
      BY <2>2, <3>1, ChildFound
    <3> QED
      BY <2>2, <3>2
  <2>4. p \in DOMAIN tree /\ tree[p].type = heap[heap[e].entries[n]].type
    BY <1>1, <2>3, TreeParts, AtParts
  <2> QED
    BY <2>2, <2>4
<1>6. \A p \in children : \E n \in DOMAIN heap[e].entries : p = Append(path, n)
  BY <1>3, <1>4
<1>7. \A n \in DOMAIN heap[e].entries :
        /\ Append(path, n) \in children /\ Last(Append(path, n)) = n
        /\ tree[Append(path, n)].type = heap[heap[e].entries[n]].type
  BY <1>3, <1>5
<1> QED
  BY <1>6, <1>7 DEF IsChildren

\* What a handler does to the heap, seen as a tree.
TreeWith(t, path, type) ==
  [p \in DOMAIN t \cup {path} |-> IF p = path THEN [type |-> type, contents |-> <<>>] ELSE t[p]]
TreeWithout(t, path) == [p \in DOMAIN t \ {path} |-> t[p]]
TreeFilled(t, path, contents) == [t EXCEPT ![path].contents = contents]
Filled(h, e, contents) == [h EXCEPT ![e].contents = contents]

\* Making an entry adds one path to the tree,
LEMMA GrownTree ==
  ASSUME NEW h, IsHeap(h), NEW r, Good(h, r), NEW path \in Paths, path # <<>>,
         NEW d \in DOMAIN h, Find(h, r, Front(path)) = At(d), h[d].type = "dir",
         Last(path) \notin DOMAIN h[d].entries, NEW e \in Entries \ DOMAIN h,
         NEW node \in {dfs_create_dir, dfs_create_file},
         NEW k, k = Grown(h, d, Last(path), e, node), NEW t, t = Tree(h, r)
  PROVE  path \notin DOMAIN t /\ Tree(k, r) = TreeWith(t, path, node.type)
<1>1. /\ IsHeap(k) /\ Good(k, r) /\ Find(k, r, path) = At(e)
      /\ \A p \in Seq(Names) : Find(h, r, p).status = "DFS_OK" => Find(k, r, p) = Find(h, r, p)
  BY GrownGood
<1>2. path \in Seq(Names) /\ Last(path) \in Names /\ r \in DOMAIN h /\ Linked(h, r)
  BY PathsAre, FrontLast DEF Good
<1>3. node \in Nodes /\ node.contents = <<>>
  BY NewNodes
<1>4. PICK n \in Names : n = Last(path) /\ k = Grown(h, d, n, e, node)
  BY <1>2
<1>5. IsGrown(k, h, d, n, e, node)
  BY <1>3, <1>4, GrownParts
<1>6. /\ DOMAIN k = DOMAIN h \cup {e} /\ k[e] = node
      /\ \A x \in DOMAIN h : k[x].type = h[x].type /\ k[x].contents = h[x].contents
  BY <1>5 DEF IsGrown
<1>7. path \notin DOMAIN t
  <2>1. SUFFICES ASSUME Find(h, r, path).status = "DFS_OK"
                 PROVE  FALSE
    BY TreeParts
  <2>2. PICK x \in DOMAIN h : Find(h, r, Front(path)) = At(x) /\ Last(path) \in DOMAIN h[x].entries
    BY <1>2, <2>1, FoundUnder
  <2>3. x = d
    BY <2>2, AtParts
  <2> QED
    BY <2>2, <2>3
<1>8. \A p \in Paths : Find(k, r, p).status = "DFS_OK" <=>
                         Find(h, r, p).status = "DFS_OK" \/ p = path
  <2> SUFFICES ASSUME NEW p \in Paths
               PROVE  Find(k, r, p).status = "DFS_OK" <=>
                        Find(h, r, p).status = "DFS_OK" \/ p = path
    OBVIOUS
  <2>1. p \in Seq(Names) /\ r \in DOMAIN k /\ Linked(k, r) /\ Once(k)
    BY <1>1, PathsAre DEF Good
  <2>2. ASSUME Find(k, r, p).status = "DFS_OK"
        PROVE  Find(h, r, p).status = "DFS_OK" \/ p = path
    <3>1. PICK at \in Places(k) : at = Find(k, r, p)
      BY <2>1, FindShape
    <3>2. at = At(at.entry) /\ at.entry \in DOMAIN k
      BY <2>2, <3>1, FoundIsAt
    <3>3. CASE at.entry = e
      BY <1>1, <1>2, <2>1, <2>2, <3>1, <3>3, FindOnce, AtParts
    <3>4. CASE at.entry \in DOMAIN h
      <4>1. PICK q \in Paths : Find(h, r, q) = At(at.entry)
        BY <3>4 DEF Good, Reached
      <4>2. Find(k, r, q) = At(at.entry) /\ q \in Seq(Names)
        BY <1>1, <4>1, AtParts, PathsAre
      <4>3. p = q
        BY <2>1, <2>2, <3>1, <4>2, FindOnce, AtParts
      <4> QED
        BY <4>1, <4>3, AtParts
    <3> QED
      BY <1>6, <3>2, <3>3, <3>4
  <2> QED
    BY <1>1, <2>1, <2>2, AtParts
<1>9. PICK u : u = Tree(k, r)
  OBVIOUS
<1>10. DOMAIN u = DOMAIN t \cup {path}
  <2>1. \A p : p \in DOMAIN u <=> p \in Paths /\ Find(k, r, p).status = "DFS_OK"
    BY <1>1, <1>9, TreeParts
  <2>2. \A p : p \in DOMAIN t <=> p \in Paths /\ Find(h, r, p).status = "DFS_OK"
    BY TreeParts
  <2>3. \A p : p \in DOMAIN u <=> p \in DOMAIN t \/ p = path
    BY <1>8, <2>1, <2>2
  <2> QED
    BY <2>3
<1>11. u[path] = [type |-> node.type, contents |-> <<>>]
  <2>1. path \in DOMAIN u /\ Find(k, r, path).entry = e
    BY <1>1, <1>10, AtParts
  <2>2. u[path] = [type |-> k[e].type, contents |-> k[e].contents]
    BY <1>1, <1>9, <2>1, TreeParts
  <2> QED
    BY <1>3, <1>6, <2>2
<1>12. \A p \in DOMAIN t : u[p] = t[p]
  <2> SUFFICES ASSUME NEW p \in DOMAIN t
               PROVE  u[p] = t[p]
    OBVIOUS
  <2>1. PICK x \in DOMAIN h : /\ Find(h, r, p).entry = x /\ Find(h, r, p).status = "DFS_OK"
                              /\ t[p] = [type |-> h[x].type, contents |-> h[x].contents]
    BY TreeParts
  <2>2. p \in Seq(Names) /\ p \in DOMAIN u
    BY <1>10, TreeParts, PathsAre
  <2>3. Find(k, r, p).entry = x
    BY <1>1, <2>1, <2>2
  <2>4. u[p] = [type |-> k[x].type, contents |-> k[x].contents]
    BY <1>1, <1>9, <2>2, <2>3, TreeParts
  <2> QED
    BY <1>6, <2>1, <2>4
<1>13. u = [p \in DOMAIN t \cup {path} |->
              IF p = path THEN [type |-> node.type, contents |-> <<>>] ELSE t[p]]
  <2>1. u = [p \in DOMAIN u |-> u[p]]
    BY <1>9 DEF Tree
  <2> QED
    BY <1>7, <1>10, <1>11, <1>12, <2>1
<1> QED
  BY <1>7, <1>9, <1>13 DEF TreeWith

\* removing one takes one path away,
LEMMA ShrunkTree ==
  ASSUME NEW h, IsHeap(h), NEW r, Good(h, r), NEW path \in Paths, path # <<>>,
         NEW d \in DOMAIN h, Find(h, r, Front(path)) = At(d), h[d].type = "dir",
         Last(path) \in DOMAIN h[d].entries, NEW c, c = h[d].entries[Last(path)],
         h[c].entries = NoNames,
         NEW k, k = Shrunk(h, d, Last(path), c), NEW t, t = Tree(h, r)
  PROVE  Tree(k, r) = TreeWithout(t, path)
<1>1. /\ IsHeap(k) /\ Good(k, r)
      /\ \A p \in Seq(Names) : Find(h, r, p).status = "DFS_OK" /\ Find(h, r, p).entry # c =>
                                 Find(k, r, p) = Find(h, r, p)
  BY ShrunkGood
<1>2. path \in Seq(Names) /\ r \in DOMAIN h /\ Linked(h, r) /\ Once(h) /\ Reached(h, r)
  BY PathsAre DEF Good
<1>3. r \in DOMAIN k /\ Linked(k, r) /\ Once(k)
  BY <1>1 DEF Good
<1>4. Find(h, r, path) = At(c) /\ Find(h, r, path).status = "DFS_OK" /\ Find(h, r, path).entry = c
  BY <1>2, FoundAt, AtParts
<1>5. c \in DOMAIN h /\ d # c
  <2>1. c \in DOMAIN h
    BY <1>2 DEF Linked
  <2>2. DOMAIN h[c].entries = {}
    BY NewNodes
  <2> QED
    BY <2>1, <2>2
<1>6. /\ DOMAIN k = DOMAIN h \ {c}
      /\ \A x \in DOMAIN k : k[x].type = h[x].type /\ k[x].contents = h[x].contents
  <2>1. IsShrunk(k, h, d, Last(path), c)
    BY <1>5, ShrunkParts
  <2> QED
    BY <2>1 DEF IsShrunk
<1>7. \A p \in Paths : Find(h, r, p).status = "DFS_OK" /\ p # path =>
        Find(h, r, p).entry # c /\ Find(k, r, p) = Find(h, r, p)
  BY <1>1, <1>2, <1>4, FindOnce, PathsAre
<1>8. \A p \in Paths : Find(k, r, p).status = "DFS_OK" =>
        Find(h, r, p).status = "DFS_OK" /\ p # path
  <2> SUFFICES ASSUME NEW p \in Paths, Find(k, r, p).status = "DFS_OK"
               PROVE  Find(h, r, p).status = "DFS_OK" /\ p # path
    OBVIOUS
  <2>1. PICK at \in Places(k) : at = Find(k, r, p)
    BY <1>3, FindShape, PathsAre
  <2>2. at = At(at.entry) /\ at.entry \in DOMAIN h /\ at.entry # c
    BY <1>6, <2>1, FoundIsAt
  <2>3. PICK q \in Paths : Find(h, r, q) = At(at.entry)
    BY <1>2, <2>2 DEF Reached
  <2>4. Find(k, r, q) = At(at.entry) /\ q \in Seq(Names) /\ p \in Seq(Names)
    BY <1>1, <2>2, <2>3, AtParts, PathsAre
  <2>5. p = q
    BY <1>3, <2>1, <2>4, FindOnce, AtParts
  <2> QED
    BY <1>4, <2>2, <2>3, <2>5, AtParts
<1>9. PICK u : u = Tree(k, r)
  OBVIOUS
<1>10. DOMAIN u = DOMAIN t \ {path}
  <2>1. \A p : p \in DOMAIN u <=> p \in Paths /\ Find(k, r, p).status = "DFS_OK"
    BY <1>1, <1>9, TreeParts
  <2>2. \A p : p \in DOMAIN t <=> p \in Paths /\ Find(h, r, p).status = "DFS_OK"
    BY TreeParts
  <2>3. \A p : p \in DOMAIN u <=> p \in DOMAIN t /\ p # path
    BY <1>7, <1>8, <2>1, <2>2
  <2> QED
    BY <2>3
<1>11. \A p \in DOMAIN u : u[p] = t[p]
  <2> SUFFICES ASSUME NEW p \in DOMAIN u
               PROVE  u[p] = t[p]
    OBVIOUS
  <2>1. p \in DOMAIN t /\ p # path
    BY <1>10
  <2>2. PICK x \in DOMAIN h : /\ Find(h, r, p).entry = x /\ Find(h, r, p).status = "DFS_OK"
                              /\ t[p] = [type |-> h[x].type, contents |-> h[x].contents]
    BY <2>1, TreeParts
  <2>3. p \in Paths
    BY <2>1, TreeParts
  <2>4. Find(k, r, p).entry = x
    BY <1>7, <2>1, <2>2, <2>3
  <2>5. x \in DOMAIN k /\ u[p] = [type |-> k[x].type, contents |-> k[x].contents]
    BY <1>1, <1>9, <2>4, TreeParts
  <2> QED
    BY <1>6, <2>2, <2>5
<1>12. u = [p \in DOMAIN t \ {path} |-> t[p]]
  <2>1. u = [p \in DOMAIN u |-> u[p]]
    BY <1>9 DEF Tree
  <2> QED
    BY <1>10, <1>11, <2>1
<1> QED
  BY <1>9, <1>12 DEF TreeWithout

\* and writing to one changes one path's contents; all others lead where they led.
LEMMA FilledTree ==
  ASSUME NEW h, IsHeap(h), NEW r, Good(h, r), NEW path \in Paths,
         NEW e \in DOMAIN h, Find(h, r, path) = At(e), h[e].type = "file",
         NEW contents \in Seq(Bytes), NEW k, k = Filled(h, e, contents),
         NEW t, t = Tree(h, r)
  PROVE  Tree(k, r) = TreeFilled(t, path, contents)
<1>1. /\ IsHeap(k) /\ Good(k, r) /\ DOMAIN k = DOMAIN h
      /\ \A x \in DOMAIN h : k[x].type = h[x].type
      /\ k[e].contents = contents
      /\ \A x \in DOMAIN h : x # e => k[x].contents = h[x].contents
      /\ \A p \in Seq(Names) : Find(k, r, p) = Find(h, r, p)
  <2>1. k = [h EXCEPT ![e].contents = contents]
    BY DEF Filled
  <2>2. IsHeap(k) /\ Good(k, r) /\ IsFilled(k, h, r, e, contents)
    BY <2>1, FilledGood
  <2> QED
    BY <2>2 DEF IsFilled
<1>2. r \in DOMAIN h /\ Linked(h, r) /\ Once(h) /\ path \in Seq(Names)
  BY PathsAre DEF Good
<1>3. PICK u : u = Tree(k, r)
  OBVIOUS
<1>4. DOMAIN u = DOMAIN t
  <2>1. \A p : p \in DOMAIN u <=> p \in Paths /\ Find(k, r, p).status = "DFS_OK"
    BY <1>1, <1>3, TreeParts
  <2>2. \A p : p \in DOMAIN t <=> p \in Paths /\ Find(h, r, p).status = "DFS_OK"
    BY TreeParts
  <2>3. \A p : p \in DOMAIN u <=> p \in DOMAIN t
    BY <1>1, <2>1, <2>2, PathsAre
  <2> QED
    BY <2>3
<1>5. ASSUME NEW p \in DOMAIN t
      PROVE  u[p] = [type |-> t[p].type, contents |-> IF p = path THEN contents ELSE t[p].contents]
  <2>1. PICK x \in DOMAIN h : /\ Find(h, r, p).entry = x /\ Find(h, r, p).status = "DFS_OK"
                              /\ t[p].type = h[x].type /\ t[p].contents = h[x].contents
    BY TreeParts
  <2>2. p \in Seq(Names)
    BY TreeParts, PathsAre
  <2>3. Find(k, r, p).entry = x
    BY <1>1, <2>1, <2>2
  <2>4. u[p] = [type |-> k[x].type, contents |-> k[x].contents]
    <3>1. p \in DOMAIN u
      BY <1>4
    <3>2. Good(k, r)
      BY <1>1
    <3>3. u[p] = [type |-> k[Find(k, r, p).entry].type, contents |-> k[Find(k, r, p).entry].contents]
      BY <1>3, <3>1 DEF Tree
    <3> QED
      BY <2>3, <3>3
  <2>5. x = e <=> p = path
    BY <1>2, <2>1, <2>2, FindOnce, AtParts
  <2>6. k[x].contents = IF p = path THEN contents ELSE t[p].contents
    BY <1>1, <2>1, <2>5
  <2> QED
    BY <1>1, <2>1, <2>4, <2>6
<1>6. \A p \in DOMAIN t : t[p] = [type |-> t[p].type, contents |-> t[p].contents]
  BY TreeParts
<1>7. t = [p \in DOMAIN t |-> t[p]] /\ u = [p \in DOMAIN u |-> u[p]]
  BY <1>3 DEF Tree
<1>8. PICK v : v = [t EXCEPT ![path].contents = contents]
  OBVIOUS
<1>9. v = [p \in DOMAIN t |-> IF p = path THEN [t[path] EXCEPT !.contents = contents] ELSE t[p]]
  BY <1>7, <1>8
<1>10. path \in DOMAIN t =>
         [t[path] EXCEPT !.contents = contents] = [type |-> t[path].type, contents |-> contents]
  BY <1>6
<1>11. \A p \in DOMAIN t : u[p] = v[p]
  BY <1>5, <1>6, <1>9, <1>10, ZenonT(60)
<1>12. u = v
  BY <1>4, <1>7, <1>9, <1>11
<1> QED
  BY <1>3, <1>8, <1>12 DEF TreeFilled

-------------------------------------------------------------------------------
(* Every handler does what DirTree says *)

\* A refusal is one of DirTree, and leaves the tree alone.
LEMMA Refused ==
  ASSUME NEW op, NEW path, NEW status, Refuses(op, path, status)
  PROVE  /\ Abstract!Refuses(op, path, status) /\ UNCHANGED tree
         /\ reply' = Abstract!Reply(op, path, status, {}) /\ reply'.op = op /\ reply'.path = path
<1>1. reply' = Reply(op, path, status, {}) /\ UNCHANGED <<root_dir, heap>>
  BY DEF Refuses, Answers
<1>2. reply' = Abstract!Reply(op, path, status, {}) /\ reply'.op = op /\ reply'.path = path
  BY <1>1 DEF Reply, Abstract!Reply
<1>3. tree' = tree
  BY <1>1, TreeIs
<1> QED
  BY <1>2, <1>3 DEF Abstract!Refuses, Abstract!Answers

\* So is an answer.
LEMMA Answered ==
  ASSUME NEW op, NEW path, NEW status, NEW data, Answers(op, path, status, data)
  PROVE  /\ Abstract!Answers(op, path, status, data) /\ reply'.op = op /\ reply'.path = path
         /\ UNCHANGED heap => UNCHANGED tree
<1>1. reply' = Reply(op, path, status, data) /\ UNCHANGED root_dir
  BY DEF Answers
<1>2. reply' = Abstract!Reply(op, path, status, data) /\ reply'.op = op /\ reply'.path = path
  BY <1>1 DEF Reply, Abstract!Reply
<1>3. UNCHANGED heap => tree' = tree
  BY <1>1, TreeIs
<1> QED
  BY <1>2, <1>3 DEF Abstract!Answers

\* A handler that stops leaves the tree alone: it answers what the lookup
\* found wrong, or the model stops.
LEMMA Stopped ==
  ASSUME NEW op, NEW path, NEW at, NEW handled, Stops(op, path, at, handled)
  PROVE  /\ at.status # "DFS_OK"
         /\ Refuses(op, path, handleErrors(at.status)) \/ UNCHANGED <<tree, reply>>
<1>1. at.status # "DFS_OK" /\ (Refuses(op, path, handleErrors(at.status)) \/ Crashes)
  BY DEF Stops
<1>2. ASSUME Crashes
      PROVE  UNCHANGED <<tree, reply>>
  BY <1>2, TreeIs DEF Crashes
<1> QED
  BY <1>1, <1>2

\* os_mkdir and os_create are DirTree's MakeEntry.
LEMMA MakesAre ==
  ASSUME Sound, state = "running", NEW op, NEW path \in Paths,
         NEW node \in {dfs_create_dir, dfs_create_file}, Makes(op, path, node)
  PROVE  \/ state' = "torn" \/ UNCHANGED <<tree, reply>>
         \/ Abstract!MakeEntry(op, node.type, path) /\ reply'.path = path
<1>1. IsHeap(heap) /\ Good(heap, root_dir) /\ tree = Tree(heap, root_dir)
  BY TreeIs DEF Sound
<1>2. PICK parent : parent = dfs_find_dir(Front(path))
  OBVIOUS
<1>3. \/ path = <<>> /\ Refuses(op, path, "-EEXIST")
      \/ path # <<>> /\ Stops(op, path, parent, AnyError)
      \/ /\ path # <<>> /\ parent.status = "DFS_OK"
         /\ Last(path) \in DOMAIN heap[parent.entry].entries
         /\ Refuses(op, path, "-EEXIST")
      \/ path # <<>> /\ MakesOne(op, path, node)
      \/ Torn
  BY <1>2, MakesDoes
<1>4. Abstract!Front(path) = Front(path)
  BY DEF Abstract!Front, Front
<1>5. PICK error : error = Abstract!Error(Front(path), {"dir"})
  OBVIOUS
<1>6. ASSUME path # <<>>
      PROVE  /\ parent.status # "DFS_OK" => error = handleErrors(parent.status) /\ error # "0"
             /\ parent.status = "DFS_OK" => error = "0"
  <2>1. Front(path) \in Paths
    BY <1>6, FrontPath
  <2>2. parent = As("dir", Find(heap, root_dir, Front(path)))
    BY <1>1, <1>2, <2>1, Lookup
  <2> QED
    BY <1>5, <2>1, <2>2, AsError
<1>7. CASE path = <<>> /\ Refuses(op, path, "-EEXIST")
  BY <1>7, Refused DEF Abstract!MakeEntry
<1>8. CASE path # <<>> /\ Stops(op, path, parent, AnyError)
  <2>1. parent.status # "DFS_OK"
        /\ (Refuses(op, path, handleErrors(parent.status)) \/ UNCHANGED <<tree, reply>>)
    BY <1>8, Stopped
  <2>2. ASSUME Refuses(op, path, handleErrors(parent.status))
        PROVE  Abstract!MakeEntry(op, node.type, path) /\ reply'.path = path
    <3>1. error # "0" /\ Abstract!Refuses(op, path, error) /\ reply'.op = op /\ reply'.path = path
      BY <1>6, <1>8, <2>1, <2>2, Refused
    <3> QED
      BY <1>4, <1>5, <1>8, <3>1 DEF Abstract!MakeEntry
  <2> QED
    BY <2>1, <2>2
<1>9. CASE /\ path # <<>> /\ parent.status = "DFS_OK"
           /\ Last(path) \in DOMAIN heap[parent.entry].entries
           /\ Refuses(op, path, "-EEXIST")
  <2>1. /\ Find(heap, root_dir, Front(path)) = At(parent.entry)
        /\ parent.entry \in DOMAIN heap /\ heap[parent.entry].type = "dir"
    BY <1>1, <1>2, <1>9, DirFound, FrontPath
  <2>2. Find(heap, root_dir, path).status = "DFS_OK"
    BY <1>9, <2>1, FoundAt, PathsAre, AtParts
  <2>3. path \in DOMAIN tree
    BY <1>1, <2>2, TreeParts
  <2> QED
    BY <1>9, <2>3, Refused DEF Abstract!MakeEntry
<1>10. CASE path # <<>> /\ MakesOne(op, path, node)
  <2>1. PICK d, e, k :
          /\ d \in DOMAIN heap /\ e \in Entries \ DOMAIN heap
          /\ Find(heap, root_dir, Front(path)) = At(d) /\ heap[d].type = "dir"
          /\ Last(path) \notin DOMAIN heap[d].entries
          /\ k = Grown(heap, d, Last(path), e, node)
          /\ heap' = k /\ Answers(op, path, "0", {})
    BY <1>10 DEF MakesOne
  <2>2. path \notin DOMAIN tree
        /\ Tree(k, root_dir) = TreeWith(tree, path, node.type)
    BY <1>1, <1>10, <2>1, GrownTree
  <2>3. tree' = Tree(k, root_dir)
    <3>1. UNCHANGED root_dir
      BY <2>1 DEF Answers
    <3> QED
      BY <2>1, <3>1, TreeIs
  <2>4. tree' = [p \in DOMAIN tree \cup {path} |->
                   IF p = path THEN Abstract!Empty(node.type) ELSE tree[p]]
    BY <2>2, <2>3 DEF Abstract!Empty, TreeWith
  <2>5. error = "0"
    <3>1. Front(path) \in Paths
      BY <1>10, FrontPath
    <3>2. PICK at \in Places(heap) : at = Find(heap, root_dir, Front(path)) /\ parent = As("dir", at)
      BY <1>1, <1>2, <3>1, Lookup
    <3>3. at.status = "DFS_OK" /\ heap[at.entry].type = "dir"
      BY <2>1, <3>2, AtParts
    <3>4. parent.status = "DFS_OK"
      BY <3>2, <3>3, AsParts
    <3> QED
      BY <1>6, <1>10, <3>4
  <2>6. Abstract!Answers(op, path, "0", {}) /\ reply'.op = op /\ reply'.path = path
    BY <2>1, Answered
  <2> QED
    BY <1>4, <1>5, <2>2, <2>4, <2>5, <2>6 DEF Abstract!MakeEntry
<1>11. CASE Torn
  BY <1>11 DEF Torn
<1> QED
  BY <1>3, <1>7, <1>8, <1>9, <1>10, <1>11

\* A directory without names has no children.
LEMMA NoChildren ==
  ASSUME Sound, state = "running", NEW path \in Paths, NEW e \in DOMAIN heap,
         Find(heap, root_dir, path) = At(e)
  PROVE  Abstract!Children(path) = {} <=> heap[e].entries = NoNames
<1>1. PICK children : children = Abstract!Children(path)
  OBVIOUS
<1>2. IsChildren(children, path, heap[e].entries)
  BY <1>1, ChildrenAre
<1>4. children = {} <=> DOMAIN heap[e].entries = {}
  <2>1. /\ \A p \in children : \E n \in DOMAIN heap[e].entries : p = Append(path, n)
        /\ \A n \in DOMAIN heap[e].entries : Append(path, n) \in children
    BY <1>2 DEF IsChildren
  <2> QED
    BY <2>1
<1>5. DOMAIN heap[e].entries = {} <=> heap[e].entries = NoNames
  <2>1. heap[e].entries = [n \in DOMAIN heap[e].entries |-> heap[e].entries[n]]
    BY NodeParts DEF Sound
  <2>2. DOMAIN heap[e].entries = {} => heap[e].entries = NoNames
    BY <2>1 DEF NoNames
  <2> QED
    BY <2>2, NewNodes
<1> QED
  BY <1>1, <1>4, <1>5

\* Removing one entry is DirTree's RemoveEntry.
LEMMA RemovedOne ==
  ASSUME Sound, state = "running", NEW op, NEW path \in Paths, path # <<>>, NEW type,
         Abstract!Error(path, {type}) = "0", RemovesOne(op, path)
  PROVE  Abstract!RemoveEntry(op, type, path) /\ reply'.path = path
<1>1. IsHeap(heap) /\ Good(heap, root_dir) /\ tree = Tree(heap, root_dir)
  BY TreeIs DEF Sound
<1>2. PICK d, c, k :
        /\ d \in DOMAIN heap /\ c \in DOMAIN heap
        /\ Find(heap, root_dir, Front(path)) = At(d) /\ heap[d].type = "dir"
        /\ Last(path) \in DOMAIN heap[d].entries /\ c = heap[d].entries[Last(path)]
        /\ heap[c].entries = NoNames
        /\ k = Shrunk(heap, d, Last(path), c)
        /\ heap' = k /\ Answers(op, path, "0", {})
  BY DEF RemovesOne
<1>3. Tree(k, root_dir) = TreeWithout(tree, path)
  BY <1>1, <1>2, ShrunkTree
<1>4. tree' = Tree(k, root_dir)
  <2>1. UNCHANGED root_dir
    BY <1>2 DEF Answers
  <2> QED
    BY <1>2, <2>1, TreeIs
<1>5. Find(heap, root_dir, path) = At(c)
  BY <1>2, FoundAt, PathsAre
<1>6. Abstract!Children(path) = {}
  BY <1>2, <1>5, NoChildren
<1>7. Abstract!Answers(op, path, "0", {}) /\ reply'.op = op /\ reply'.path = path
  BY <1>2, Answered
<1> QED
  BY <1>3, <1>4, <1>6, <1>7 DEF Abstract!RemoveEntry, TreeWithout

\* os_rmdir is RemoveEntry of a directory: it is empty exactly when the path has no children.
LEMMA RmdirIs ==
  ASSUME Sound, state = "running", NEW path \in Paths, os_rmdir(path)
  PROVE  \/ state' = "torn" \/ UNCHANGED <<tree, reply>>
         \/ Abstract!RemoveEntry("os_rmdir", "dir", path) /\ reply'.path = path
<1>1. IsHeap(heap) /\ Good(heap, root_dir)
  BY DEF Sound
<1>2. PICK child : child = Target(path, "dir")
  OBVIOUS
<1>3. \/ path = <<>> /\ Refuses("os_rmdir", path, "-EEXIST")
      \/ path # <<>> /\ Stops("os_rmdir", path, child, AnyError)
      \/ /\ path # <<>> /\ child.status = "DFS_OK" /\ heap[child.entry].entries # NoNames
         /\ Refuses("os_rmdir", path, "-ENOTEMPTY")
      \/ path # <<>> /\ child.status = "DFS_OK" /\ RemovesOne("os_rmdir", path)
      \/ Torn
  BY <1>2, RmdirDoes
<1>4. PICK error : error = Abstract!Error(path, {"dir"})
  OBVIOUS
<1>5. ASSUME path # <<>>
      PROVE  /\ child.status # "DFS_OK" => error = handleErrors(child.status) /\ error # "0"
             /\ child.status = "DFS_OK" => error = "0" /\ child = Find(heap, root_dir, path)
  <2>1. child = As("dir", Find(heap, root_dir, path))
    BY <1>1, <1>2, <1>5, TargetIs
  <2> QED
    BY <1>4, <2>1, AsError
<1>6. CASE path = <<>> /\ Refuses("os_rmdir", path, "-EEXIST")
  BY <1>6, Refused DEF Abstract!RemoveEntry
<1>7. CASE path # <<>> /\ Stops("os_rmdir", path, child, AnyError)
  <2>1. child.status # "DFS_OK"
        /\ (Refuses("os_rmdir", path, handleErrors(child.status)) \/ UNCHANGED <<tree, reply>>)
    BY <1>7, Stopped
  <2>2. ASSUME Refuses("os_rmdir", path, handleErrors(child.status))
        PROVE  Abstract!RemoveEntry("os_rmdir", "dir", path) /\ reply'.path = path
    <3>1. error # "0" /\ Abstract!Refuses("os_rmdir", path, error)
          /\ reply'.op = "os_rmdir" /\ reply'.path = path
      BY <1>5, <1>7, <2>1, <2>2, Refused
    <3> QED
      BY <1>4, <1>7, <3>1 DEF Abstract!RemoveEntry
  <2> QED
    BY <2>1, <2>2
<1>8. CASE /\ path # <<>> /\ child.status = "DFS_OK" /\ heap[child.entry].entries # NoNames
           /\ Refuses("os_rmdir", path, "-ENOTEMPTY")
  <2>1. PICK e \in DOMAIN heap : Find(heap, root_dir, path) = At(e) /\ child.entry = e
    BY <1>1, <1>5, <1>8, Lookup, FoundIsAt
  <2>2. Abstract!Children(path) # {}
    BY <1>8, <2>1, NoChildren
  <2> QED
    BY <1>4, <1>5, <1>8, <2>2, Refused DEF Abstract!RemoveEntry
<1>9. CASE path # <<>> /\ child.status = "DFS_OK" /\ RemovesOne("os_rmdir", path)
  BY <1>4, <1>5, <1>9, RemovedOne
<1>10. CASE Torn
  BY <1>10 DEF Torn
<1> QED
  BY <1>3, <1>6, <1>7, <1>8, <1>9, <1>10

\* os_unlink is RemoveEntry of a file.
LEMMA UnlinkIs ==
  ASSUME Sound, state = "running", NEW path \in Paths, os_unlink(path)
  PROVE  \/ state' = "torn" \/ UNCHANGED <<tree, reply>>
         \/ Abstract!RemoveEntry("os_unlink", "file", path) /\ reply'.path = path
<1>1. IsHeap(heap) /\ Good(heap, root_dir)
  BY DEF Sound
<1>2. PICK child : child = Target(path, "file")
  OBVIOUS
<1>3. \/ path = <<>> /\ Refuses("os_unlink", path, "-EEXIST")
      \/ path # <<>> /\ Stops("os_unlink", path, child, AnyError)
      \/ path # <<>> /\ child.status = "DFS_OK" /\ RemovesOne("os_unlink", path)
      \/ Torn
  BY <1>2, UnlinkDoes
<1>4. PICK error : error = Abstract!Error(path, {"file"})
  OBVIOUS
<1>5. ASSUME path # <<>>
      PROVE  /\ child.status # "DFS_OK" => error = handleErrors(child.status) /\ error # "0"
             /\ child.status = "DFS_OK" => error = "0"
  <2>1. child = As("file", Find(heap, root_dir, path))
    BY <1>1, <1>2, <1>5, TargetIs
  <2> QED
    BY <1>4, <2>1, AsError
<1>6. CASE path = <<>> /\ Refuses("os_unlink", path, "-EEXIST")
  BY <1>6, Refused DEF Abstract!RemoveEntry
<1>7. CASE path # <<>> /\ Stops("os_unlink", path, child, AnyError)
  <2>1. child.status # "DFS_OK"
        /\ (Refuses("os_unlink", path, handleErrors(child.status)) \/ UNCHANGED <<tree, reply>>)
    BY <1>7, Stopped
  <2>2. ASSUME Refuses("os_unlink", path, handleErrors(child.status))
        PROVE  Abstract!RemoveEntry("os_unlink", "file", path) /\ reply'.path = path
    <3>1. error # "0" /\ Abstract!Refuses("os_unlink", path, error)
          /\ reply'.op = "os_unlink" /\ reply'.path = path
      BY <1>5, <1>7, <2>1, <2>2, Refused
    <3> QED
      BY <1>4, <1>7, <3>1 DEF Abstract!RemoveEntry
  <2> QED
    BY <2>1, <2>2
<1>8. CASE path # <<>> /\ child.status = "DFS_OK" /\ RemovesOne("os_unlink", path)
  BY <1>4, <1>5, <1>8, RemovedOne
<1>9. CASE Torn
  BY <1>9 DEF Torn
<1> QED
  BY <1>3, <1>6, <1>7, <1>8, <1>9

\* A handler that stops, of those that work on what a path names.
LEMMA StoppedUse ==
  ASSUME Sound, state = "running", NEW op, NEW path \in Paths, NEW type \in {"dir", "file"},
         NEW at, at = As(type, Find(heap, root_dir, path)),
         NEW handled, Stops(op, path, at, handled)
  PROVE  \/ UNCHANGED <<tree, reply>>
         \/ /\ Abstract!Error(path, {type}) # "0"
            /\ Abstract!Refuses(op, path, Abstract!Error(path, {type}))
            /\ reply'.op = op /\ reply'.path = path
<1>1. at.status # "DFS_OK"
      /\ (Refuses(op, path, handleErrors(at.status)) \/ UNCHANGED <<tree, reply>>)
  BY Stopped
<1>2. PICK error : error = Abstract!Error(path, {type})
  OBVIOUS
<1>3. error = handleErrors(at.status) /\ error # "0"
  BY <1>1, <1>2, AsError
<1>4. ASSUME Refuses(op, path, handleErrors(at.status))
      PROVE  Abstract!Refuses(op, path, error) /\ reply'.op = op /\ reply'.path = path
  BY <1>3, <1>4, Refused
<1> QED
  BY <1>1, <1>2, <1>3, <1>4

\* What those find that do not stop.
LEMMA FoundUse ==
  ASSUME Sound, state = "running", NEW path \in Paths, NEW type \in {"dir", "file"},
         NEW at, at = As(type, Find(heap, root_dir, path)), at.status = "DFS_OK"
  PROVE  /\ Abstract!Error(path, {type}) = "0" /\ path \in DOMAIN tree
         /\ at = Find(heap, root_dir, path) /\ at = At(at.entry) /\ at.entry \in DOMAIN heap
         /\ heap[at.entry].type = type
         /\ tree[path].type = type /\ tree[path].contents = heap[at.entry].contents
<1>1. /\ Abstract!Error(path, {type}) = "0" /\ path \in DOMAIN tree
      /\ at = Find(heap, root_dir, path)
      /\ tree[path].type = type /\ tree[path].contents = heap[at.entry].contents
  BY AsError
<1>2. at = At(at.entry) /\ at.entry \in DOMAIN heap /\ heap[at.entry].type = type
  BY Lookup, AsFound DEF Sound
<1> QED
  BY <1>1, <1>2

\* os_readdir lists the children of the path.
LEMMA ReaddirIs ==
  ASSUME Sound, state = "running", NEW path \in Paths, os_readdir(path)
  PROVE  \/ UNCHANGED <<tree, reply>>
         \/ Abstract!Readdir(path) /\ reply'.path = path
<1>1. PICK at : at = dfs_find_dir(path) /\ at = As("dir", Find(heap, root_dir, path))
  BY Lookup DEF Sound
<1>2. \/ Stops("os_readdir", path, at, AnyError)
      \/ /\ at.status = "DFS_OK"
         /\ Answers("os_readdir", path, "0", DOMAIN heap[at.entry].entries)
         /\ UNCHANGED heap
  BY <1>1 DEF os_readdir
<1>3. CASE Stops("os_readdir", path, at, AnyError)
  BY <1>1, <1>3, StoppedUse DEF Abstract!Readdir, Abstract!Uses
<1>4. CASE /\ at.status = "DFS_OK"
           /\ Answers("os_readdir", path, "0", DOMAIN heap[at.entry].entries)
           /\ UNCHANGED heap
  <2>1. PICK e \in DOMAIN heap : e = at.entry /\ Find(heap, root_dir, path) = At(e)
    BY <1>1, <1>4, FoundUse
  <2>2. PICK children, names : children = Abstract!Children(path) /\ names = DOMAIN heap[e].entries
    OBVIOUS
  <2>3. IsChildren(children, path, heap[e].entries)
    BY <2>1, <2>2, ChildrenAre
  <2>4. {Abstract!Last(p) : p \in children} = names
    <3>1. \A p : Abstract!Last(p) = Last(p)
      BY DEF Abstract!Last, Last
    <3>2. /\ \A p \in children : \E n \in names : p = Append(path, n)
          /\ \A n \in names : Append(path, n) \in children /\ Last(Append(path, n)) = n
      BY <2>2, <2>3 DEF IsChildren
    <3> QED
      BY <3>1, <3>2
  <2>5. /\ Abstract!Answers("os_readdir", path, "0", names)
        /\ reply'.op = "os_readdir" /\ reply'.path = path /\ UNCHANGED tree
    BY <1>4, <2>1, <2>2, Answered
  <2>6. Abstract!Error(path, {"dir"}) = "0"
    BY <1>1, <1>4, FoundUse
  <2> QED
    BY <2>2, <2>4, <2>5, <2>6 DEF Abstract!Readdir, Abstract!Uses
<1> QED
  BY <1>2, <1>3, <1>4

\* Handlers that take what a path names whatever its type.
LEMMA AnyUse ==
  ASSUME Sound, state = "running", NEW path \in Paths,
         NEW at, at = dfs_find_entry(root_dir, path)
  PROVE  /\ at.status = "DFS_E_ENTRY_DOES_NOT_EXIST" =>
              Abstract!Error(path, {"dir", "file"}) = handleErrors(at.status)
         /\ at.status = "DFS_OK" =>
              /\ Abstract!Error(path, {"dir", "file"}) = "0" /\ at.entry \in DOMAIN heap
              /\ Find(heap, root_dir, path) = At(at.entry)
              /\ tree[path].type = heap[at.entry].type
              /\ tree[path].contents = heap[at.entry].contents
<1>1. IsHeap(heap) /\ Good(heap, root_dir) /\ tree = Tree(heap, root_dir)
  BY TreeIs DEF Sound
<1>2. at = Find(heap, root_dir, path)
  BY <1>1, Lookup
<1>3. PICK error, types : error = ErrorIn(tree, path, types) /\ types = {"dir", "file"}
  OBVIOUS
<1>4. /\ at \in Places(heap)
      /\ at.status = "DFS_E_ENTRY_DOES_NOT_EXIST" => error = "-ENOENT"
      /\ at.status = "DFS_OK" /\ heap[at.entry].type \in types => error = "0"
  BY <1>1, <1>2, <1>3, ErrorCases
<1>5. Abstract!Error(path, {"dir", "file"}) = error
  BY <1>3, ErrorIs
<1>6. CASE at.status = "DFS_E_ENTRY_DOES_NOT_EXIST"
  BY <1>4, <1>5, <1>6 DEF handleErrors
<1>7. CASE at.status = "DFS_OK"
  <2>1. at = At(at.entry) /\ at.entry \in DOMAIN heap
    BY <1>4, <1>7, FoundIsAt
  <2>2. heap[at.entry].type \in {"dir", "file"}
    BY <1>1, <2>1, NodeParts
  <2>3. error = "0"
    BY <1>3, <1>4, <1>7, <2>2
  <2>4. path \in DOMAIN tree
    BY <1>1, <1>2, <1>7, TreeParts
  <2>5. tree[path].type = heap[at.entry].type /\ tree[path].contents = heap[at.entry].contents
    BY <1>1, <1>2, <2>4, TreeParts
  <2> QED
    BY <1>2, <1>5, <1>7, <2>1, <2>3, <2>5
<1> QED
  BY <1>6, <1>7

\* A handler that takes any entry refuses as DirTree does, or works on an unset pointer.
LEMMA StoppedAny ==
  ASSUME Sound, state = "running", NEW op, NEW path \in Paths,
         NEW at, at = dfs_find_entry(root_dir, path),
         Stops(op, path, at, {"DFS_E_ENTRY_DOES_NOT_EXIST"})
  PROVE  \/ UNCHANGED <<tree, reply>>
         \/ /\ Abstract!Error(path, {"dir", "file"}) # "0"
            /\ Abstract!Refuses(op, path, Abstract!Error(path, {"dir", "file"}))
            /\ reply'.op = op /\ reply'.path = path
<1>1. PICK error : error = Abstract!Error(path, {"dir", "file"})
  OBVIOUS
<1>2. CASE at.status = "DFS_E_ENTRY_DOES_NOT_EXIST" /\ Refuses(op, path, handleErrors(at.status))
  <2>1. error = handleErrors(at.status) /\ error # "0"
    BY <1>1, <1>2, AnyUse DEF handleErrors
  <2>2. Abstract!Refuses(op, path, error) /\ reply'.op = op /\ reply'.path = path
    BY <1>2, <2>1, Refused
  <2> QED
    BY <1>1, <2>1, <2>2
<1>3. CASE Crashes
  BY <1>3, TreeIs DEF Crashes
<1> QED
  BY <1>2, <1>3 DEF Stops

\* What os_getattr counts are the children and those that are directories.
LEMMA Counts ==
  ASSUME Sound, state = "running", NEW path \in Paths, NEW e \in DOMAIN heap,
         Find(heap, root_dir, path) = At(e),
         NEW children, children = Abstract!Children(path)
  PROVE  /\ Cardinality(children) = Cardinality(DOMAIN heap[e].entries)
         /\ Cardinality({p \in children : tree[p].type = "dir"}) = os_count_subdirs(heap[e].entries)
<1>1. PICK entries : entries = heap[e].entries
  OBVIOUS
<1>2. /\ \A p \in children : \E n \in DOMAIN entries : p = Append(path, n)
      /\ \A n \in DOMAIN entries :
           /\ Append(path, n) \in children
           /\ tree[Append(path, n)].type = heap[entries[n]].type
  BY <1>1, ChildrenAre DEF IsChildren
<1>3. path \in Seq(Names) /\ DOMAIN entries \in SUBSET Names /\ IsFiniteSet(DOMAIN entries)
  <2>1. IsHeap(heap) /\ Plain(heap)
    BY DEF Sound, Good
  <2>2. path \in Seq(Names) /\ DOMAIN entries \in SUBSET Names
    BY <1>1, <2>1, PathsAre, NodeParts
  <2>3. IsFiniteSet(DOMAIN entries)
    BY <1>1, <2>1 DEF Plain
  <2> QED
    BY <2>2, <2>3
<1>4. Cardinality(children) = Cardinality(DOMAIN entries)
  <2>1. \A p : p \in children <=> \E n \in DOMAIN entries : p = Append(path, n)
    BY <1>2
  <2> QED
    BY <1>3, <2>1, AppendCounts
<1>5. PICK dirs : dirs = {n \in DOMAIN entries : heap[entries[n]].type = "dir"}
  OBVIOUS
<1>6. PICK subdirs : subdirs = {p \in children : tree[p].type = "dir"}
  OBVIOUS
<1>7. Cardinality(subdirs) = Cardinality(dirs)
  <2>1. \A p : p \in subdirs <=> \E n \in dirs : p = Append(path, n)
    BY <1>2, <1>5, <1>6
  <2>2. dirs \in SUBSET Names /\ IsFiniteSet(dirs)
    <3>1. dirs \subseteq DOMAIN entries
      BY <1>5
    <3> QED
      BY <1>3, <3>1, FS_Subset
  <2> QED
    BY <1>3, <2>1, <2>2, AppendCounts
<1> QED
  BY <1>1, <1>4, <1>5, <1>6, <1>7 DEF os_count_subdirs

\* os_getattr tells type, length and the number of directories inside as DirTree does.
LEMMA GetattrIs ==
  ASSUME Sound, state = "running", NEW path \in Paths, os_getattr(path)
  PROVE  \/ UNCHANGED <<tree, reply>>
         \/ Abstract!Getattr(path) /\ reply'.path = path
<1>1. PICK at, node : at = dfs_find_entry(root_dir, path) /\ node = heap[at.entry]
  OBVIOUS
<1>2. \/ Stops("os_getattr", path, at, {"DFS_E_ENTRY_DOES_NOT_EXIST"})
      \/ /\ at.status = "DFS_OK"
         /\ Answers("os_getattr", path, "0",
              IF node.type = "file" THEN <<"file", 1, Len(node.contents)>>
              ELSE <<"dir", os_count_subdirs(node.entries) + 1,
                     Cardinality(DOMAIN node.entries) * 32>>)
         /\ UNCHANGED heap
  BY <1>1 DEF os_getattr
<1>3. CASE Stops("os_getattr", path, at, {"DFS_E_ENTRY_DOES_NOT_EXIST"})
  BY <1>1, <1>3, StoppedAny DEF Abstract!Getattr, Abstract!Uses
<1>4. CASE /\ at.status = "DFS_OK"
           /\ Answers("os_getattr", path, "0",
                IF node.type = "file" THEN <<"file", 1, Len(node.contents)>>
                ELSE <<"dir", os_count_subdirs(node.entries) + 1,
                       Cardinality(DOMAIN node.entries) * 32>>)
           /\ UNCHANGED heap
  <2>1. /\ Abstract!Error(path, {"dir", "file"}) = "0" /\ at.entry \in DOMAIN heap
        /\ Find(heap, root_dir, path) = At(at.entry)
        /\ tree[path].type = node.type /\ tree[path].contents = node.contents
    BY <1>1, <1>4, AnyUse
  <2>2. PICK children, subdirs : /\ children = Abstract!Children(path)
                                 /\ subdirs = {p \in children : tree[p].type = "dir"}
    OBVIOUS
  <2>3. Cardinality(children) = Cardinality(DOMAIN node.entries)
        /\ Cardinality(subdirs) = os_count_subdirs(node.entries)
    BY <1>1, <2>1, <2>2, Counts
  <2>4. PICK data : data = IF tree[path].type = "file" THEN <<"file", 1, Len(tree[path].contents)>>
                           ELSE <<"dir", Cardinality(subdirs) + 1, Cardinality(children) * 32>>
    OBVIOUS
  <2>5. Answers("os_getattr", path, "0", data)
    BY <1>4, <2>1, <2>3, <2>4
  <2>6. /\ Abstract!Answers("os_getattr", path, "0", data)
        /\ reply'.op = "os_getattr" /\ reply'.path = path /\ UNCHANGED tree
    BY <1>4, <2>5, Answered
  <2>7. data = IF tree[path].type = "file" THEN <<"file", 1, Len(tree[path].contents)>>
               ELSE <<"dir", Cardinality({p \in Abstract!Children(path) : tree[p].type = "dir"}) + 1,
                      Cardinality(Abstract!Children(path)) * 32>>
    BY <2>2, <2>4
  <2>10. \A S : Abstract!Cardinality(S) = Cardinality(S)
    BY DEF Abstract!Cardinality, Cardinality
  <2>8. Abstract!Answers("os_getattr", path, "0",
          IF tree[path].type = "file" THEN <<"file", 1, Len(tree[path].contents)>>
          ELSE <<"dir", Abstract!Cardinality({p \in Abstract!Children(path) : tree[p].type = "dir"}) + 1,
                 Abstract!Cardinality(Abstract!Children(path)) * 32>>)
    BY <2>6, <2>7, <2>10
  <2>9. Abstract!Error(path, {"dir", "file"}) = "0"
    BY <2>1
  <2> QED
    BY <2>6, <2>8, <2>9 DEF Abstract!Getattr, Abstract!Uses
<1> QED
  BY <1>2, <1>3, <1>4

\* os_chmod, os_chown and os_utimens answer as DirTree does.
LEMMA SetsIs ==
  ASSUME Sound, state = "running", NEW op, NEW path \in Paths, Sets(op, path)
  PROVE  \/ UNCHANGED <<tree, reply>>
         \/ Abstract!SetFields(op, path) /\ reply'.path = path
<1>1. PICK at : at = dfs_find_entry(root_dir, path)
  OBVIOUS
<1>2. \/ Stops(op, path, at, {"DFS_E_ENTRY_DOES_NOT_EXIST"})
      \/ at.status = "DFS_OK" /\ Refuses(op, path, "0")
  BY <1>1 DEF Sets
<1>3. CASE Stops(op, path, at, {"DFS_E_ENTRY_DOES_NOT_EXIST"})
  BY <1>1, <1>3, StoppedAny DEF Abstract!SetFields, Abstract!Uses
<1>4. CASE at.status = "DFS_OK" /\ Refuses(op, path, "0")
  <2>1. Abstract!Error(path, {"dir", "file"}) = "0"
    BY <1>1, <1>4, AnyUse
  <2>2. Abstract!Refuses(op, path, "0") /\ reply'.op = op /\ reply'.path = path
    BY <1>4, Refused
  <2> QED
    BY <2>1, <2>2 DEF Abstract!SetFields, Abstract!Uses
<1> QED
  BY <1>2, <1>3, <1>4

\* What os_read copies out.
LEMMA ReadBytes ==
  ASSUME NEW c \in Seq(Bytes), NEW size \in Nat, NEW off \in Nat,
         NEW length, length = Len(c),
         NEW bytes, bytes = IF size < length - off THEN size ELSE length - off,
         NEW end, end = IF off + size < length THEN off + size ELSE length
  PROVE  SubSeq(c, off + 1, end) = IF off >= length THEN <<>> ELSE SubSeq(c, off + 1, off + bytes)
<1>1. length \in Nat
  BY LenProperties
<1>2. CASE off >= length
  <2>1. end = length /\ end < off + 1 /\ off + 1 \in Int /\ end \in Int
    BY <1>1, <1>2
  <2>2. SubSeq(c, off + 1, end) = <<>>
    BY <2>1, SubSeqEmpty
  <2> QED
    BY <1>2, <2>2
<1>3. CASE off < length
  <2>1. end = off + bytes
    BY <1>1, <1>3
  <2> QED
    BY <1>1, <1>3, <2>1
<1> QED
  BY <1>1, <1>2, <1>3

\* os_read returns the bytes that DirTree says.
LEMMA ReadIs ==
  ASSUME Sound, state = "running", NEW path \in Paths, NEW size \in Sizes, NEW off \in ReadOffsets,
         ReadOffsets \subseteq Nat, os_read(path, size, off)
  PROVE  \/ UNCHANGED <<tree, reply>>
         \/ Abstract!Read(path, size, off) /\ reply'.path = path
<1>1. PICK at : at = dfs_find_file(path) /\ at = As("file", Find(heap, root_dir, path))
  BY Lookup DEF Sound
<1>2. PICK c, length, bytes : /\ c = heap[at.entry].contents /\ length = Len(c)
                              /\ bytes = IF size < length - off THEN size ELSE length - off
  OBVIOUS
<1>3. PICK data : data = IF off >= length THEN <<>> ELSE SubSeq(c, off + 1, off + bytes)
  OBVIOUS
<1>4. off \in Nat /\ off >= 0 /\ ~ (off < 0)
  BY SMT
<1>5. \/ Stops("os_read", path, at, AnyError)
      \/ at.status = "DFS_OK" /\ Answers("os_read", path, "0", data) /\ UNCHANGED heap
  BY <1>1, <1>2, <1>3, <1>4, Zenon DEF os_read
<1>6. CASE Stops("os_read", path, at, AnyError)
  BY <1>1, <1>6, StoppedUse DEF Abstract!Read, Abstract!Uses
<1>7. CASE at.status = "DFS_OK" /\ Answers("os_read", path, "0", data) /\ UNCHANGED heap
  <2>1. /\ Abstract!Error(path, {"file"}) = "0" /\ tree[path].contents = c
        /\ at.entry \in DOMAIN heap
    BY <1>1, <1>2, <1>7, FoundUse
  <2>2. c \in Seq(Bytes) /\ size \in Nat /\ off \in Nat
    <3> IsHeap(heap)
      BY DEF Sound
    <3> c = heap[at.entry].contents /\ at.entry \in DOMAIN heap
      BY <1>2, <2>1
    <3>1. c \in Seq(Bytes)
      BY NodeParts
    <3> QED
      BY <1>4, <3>1, FileSystemAssumption
  <2>3. PICK end : end = IF off + size < length THEN off + size ELSE length
    OBVIOUS
  <2>4. SubSeq(c, off + 1, end) = data
    BY <1>2, <1>3, <2>2, <2>3, ReadBytes
  <2>5. /\ Abstract!Answers("os_read", path, "0", data)
        /\ reply'.op = "os_read" /\ reply'.path = path /\ UNCHANGED tree
    BY <1>7, Answered
  <2>6. end = IF off + size < Len(tree[path].contents) THEN off + size ELSE Len(tree[path].contents)
    BY <1>2, <2>1, <2>3
  <2>7. Abstract!Answers("os_read", path, "0", SubSeq(tree[path].contents, off + 1,
          IF off + size < Len(tree[path].contents) THEN off + size ELSE Len(tree[path].contents)))
    BY <2>1, <2>4, <2>5, <2>6
  <2> QED
    BY <1>4, <2>1, <2>5, <2>7 DEF Abstract!Read, Abstract!Uses
<1> QED
  BY <1>5, <1>6, <1>7

\* Other contents of a file are other contents in the tree.
LEMMA Refilled ==
  ASSUME Sound, state = "running", NEW path \in Paths,
         NEW at, at = As("file", Find(heap, root_dir, path)), at.status = "DFS_OK",
         NEW contents \in Seq(Bytes), Holds(at.entry, contents), UNCHANGED root_dir
  PROVE  tree' = TreeFilled(tree, path, contents)
<1>1. IsHeap(heap) /\ Good(heap, root_dir) /\ tree = Tree(heap, root_dir)
  BY TreeIs DEF Sound
<1>2. PICK e \in DOMAIN heap :
        e = at.entry /\ Find(heap, root_dir, path) = At(e) /\ heap[e].type = "file"
  BY FoundUse
<1>3. PICK k : k = heap' /\ k = Filled(heap, e, contents)
  BY <1>2 DEF Holds, Filled
<1>4. Tree(k, root_dir) = TreeFilled(tree, path, contents)
  <2>1. IsHeap(heap) /\ Good(heap, root_dir)
    BY <1>1
  <2>2. PICK t : t = Tree(heap, root_dir)
    OBVIOUS
  <2>3. Find(heap, root_dir, path) = At(e) /\ heap[e].type = "file"
    BY <1>2
  <2>4. k = Filled(heap, e, contents)
    BY <1>3
  <2>5. Tree(k, root_dir) = TreeFilled(t, path, contents)
    BY <2>1, <2>2, <2>3, <2>4, FilledTree
  <2> QED
    BY <1>1, <2>2, <2>5
<1> QED
  BY <1>3, <1>4, TreeIs

\* os_write leaves what DirTree allows.
LEMMA WriteIs ==
  ASSUME Sound, state = "running", NEW path \in Paths, NEW buff \in Buffers, NEW off \in Offsets,
         os_write(path, buff, off)
  PROVE  \/ UNCHANGED <<tree, reply>>
         \/ Abstract!Write(path, buff, off) /\ reply'.path = path
<1>1. PICK at, old : /\ at = dfs_find_file(path) /\ at = As("file", Find(heap, root_dir, path))
                     /\ old = heap[at.entry].contents
  BY Lookup DEF Sound
<1>2. \/ Stops("os_write", path, at, AnyError)
      \/ at.status = "DFS_OK" /\ off < 0 /\ Refuses("os_write", path, "-EINVAL")
      \/ /\ at.status = "DFS_OK" /\ off \in Nat /\ Answers("os_write", path, "0", buff)
         /\ \E new \in Seq(Bytes), size \in Nat :
              /\ size = IF off + Len(buff) > Len(old) THEN off + Len(buff) ELSE Len(old)
              /\ HasWritten(new, size, old, buff, off) /\ Holds(at.entry, new)
  BY <1>1, WriteDoes, ZenonT(60)
<1>3. CASE Stops("os_write", path, at, AnyError)
  BY <1>1, <1>3, StoppedUse DEF Abstract!Write, Abstract!Uses
<1>4. CASE at.status = "DFS_OK" /\ off < 0 /\ Refuses("os_write", path, "-EINVAL")
  <2>1. Abstract!Error(path, {"file"}) = "0"
    BY <1>1, <1>4, FoundUse
  <2>2. /\ Abstract!Refuses("os_write", path, "-EINVAL")
        /\ reply'.op = "os_write" /\ reply'.path = path
    BY <1>4, Refused
  <2> QED
    BY <1>4, <2>1, <2>2 DEF Abstract!Write, Abstract!Uses
<1>5. CASE /\ at.status = "DFS_OK" /\ off \in Nat /\ Answers("os_write", path, "0", buff)
           /\ \E new \in Seq(Bytes), size \in Nat :
                /\ size = IF off + Len(buff) > Len(old) THEN off + Len(buff) ELSE Len(old)
                /\ HasWritten(new, size, old, buff, off) /\ Holds(at.entry, new)
  <2>1. PICK new \in Seq(Bytes), size \in Nat :
          /\ size = IF off + Len(buff) > Len(old) THEN off + Len(buff) ELSE Len(old)
          /\ HasWritten(new, size, old, buff, off) /\ Holds(at.entry, new)
    BY <1>5
  <2>2. Abstract!Error(path, {"file"}) = "0" /\ tree[path].contents = old
    BY <1>1, <1>5, FoundUse
  <2>3. tree' = TreeFilled(tree, path, new)
    <3>1. UNCHANGED root_dir
      BY <1>5 DEF Answers
    <3> QED
      BY <1>1, <1>5, <2>1, <3>1, Refilled
  <2>4. new \in [1 .. size -> Bytes] /\ Abstract!Overlays(new, tree[path].contents, buff, off)
    BY <2>1, <2>2 DEF HasWritten, Abstract!Overlays
  <2>5. size = IF off + Len(buff) > Len(tree[path].contents) THEN off + Len(buff)
               ELSE Len(tree[path].contents)
    BY <2>1, <2>2
  <2>6. /\ Abstract!Answers("os_write", path, "0", buff)
        /\ reply'.op = "os_write" /\ reply'.path = path
    BY <1>5, Answered
  <2>7. \E c \in [1 .. IF off + Len(buff) > Len(tree[path].contents) THEN off + Len(buff)
                       ELSE Len(tree[path].contents) -> Bytes] :
          /\ Abstract!Overlays(c, tree[path].contents, buff, off)
          /\ tree' = [tree EXCEPT ![path].contents = c]
    BY <2>3, <2>4, <2>5 DEF TreeFilled
  <2>8. off >= 0 /\ Abstract!Error(path, {"file"}) = "0"
    BY <1>5, <2>2
  <2> QED
    BY <2>6, <2>7, <2>8 DEF Abstract!Write, Abstract!Uses
<1> QED
  BY <1>2, <1>3, <1>4, <1>5

\* os_truncate leaves what DirTree allows.
LEMMA TruncateIs ==
  ASSUME Sound, state = "running", NEW path \in Paths, NEW off, os_truncate(path, off)
  PROVE  \/ UNCHANGED <<tree, reply>>
         \/ Abstract!Truncate(path, off) /\ reply'.path = path
<1>1. PICK at, old : /\ at = dfs_find_file(path) /\ at = As("file", Find(heap, root_dir, path))
                     /\ old = heap[at.entry].contents
  BY Lookup DEF Sound
<1>2. PICK new : new = [i \in 1 .. off |-> IF i <= Len(old) THEN old[i] ELSE 0]
  OBVIOUS
<1>3. \/ Stops("os_truncate", path, at, AnyError \ {"DFS_E_NOT_A_DIRECTORY"})
      \/ /\ at.status = "DFS_OK" /\ off \in 0 .. MaxLength
         /\ Holds(at.entry, new)
         /\ Answers("os_truncate", path, "0", off)
  BY <1>1, <1>2, Zenon DEF os_truncate
<1>4. CASE Stops("os_truncate", path, at, AnyError \ {"DFS_E_NOT_A_DIRECTORY"})
  BY <1>1, <1>4, StoppedUse DEF Abstract!Truncate, Abstract!Uses
<1>5. CASE /\ at.status = "DFS_OK" /\ off \in 0 .. MaxLength
           /\ Holds(at.entry, new)
           /\ Answers("os_truncate", path, "0", off)
  <2>1. /\ Abstract!Error(path, {"file"}) = "0" /\ tree[path].contents = old
        /\ path \in DOMAIN tree /\ at.entry \in DOMAIN heap
    BY <1>1, <1>5, FoundUse
  <2>2. new \in Seq(Bytes)
    <3> IsHeap(heap)
      BY DEF Sound
    <3> at.entry \in DOMAIN heap
      BY <2>1
    <3>1. old \in Seq(Bytes)
      BY <1>1, NodeParts
    <3>2. off \in Nat
      BY <1>5, FileSystemAssumption
    <3> QED
      BY <1>2, <3>1, <3>2, Truncated
  <2>3. tree' = TreeFilled(tree, path, new)
    <3>1. UNCHANGED root_dir
      BY <1>5 DEF Answers
    <3> QED
      BY <1>1, <1>5, <2>2, <3>1, Refilled
  <2>4. tree' = [tree EXCEPT ![path].contents =
                   [i \in 1 .. off |-> IF i <= Len(@) THEN @[i] ELSE 0]]
    BY <1>2, <2>1, <2>3 DEF TreeFilled
  <2>5. /\ Abstract!Answers("os_truncate", path, "0", off)
        /\ reply'.op = "os_truncate" /\ reply'.path = path
    BY <1>5, Answered
  <2> QED
    BY <2>1, <2>4, <2>5 DEF Abstract!Truncate, Abstract!Uses
<1> QED
  BY <1>3, <1>4, <1>5

\* Every handler is a step of DirTree, a stutter, or tears the tree.
LEMMA HandlerIs ==
  ASSUME Sound, state = "running", ReadOffsets \subseteq Nat, Handler
  PROVE  state' = "torn" \/ Abstract!Next \/ UNCHANGED <<tree, reply>>
<1>1. PICK path \in Paths :
        \/ os_mkdir(path) \/ os_create(path) \/ os_rmdir(path) \/ os_unlink(path)
        \/ os_readdir(path) \/ os_getattr(path)
        \/ os_chmod(path) \/ os_chown(path) \/ os_utimens(path) \/ os_setxattr(path)
        \/ \E off \in ReadOffsets, size \in Sizes : os_read(path, size, off)
        \/ \E off \in Offsets :
             \/ os_truncate(path, off)
             \/ \E buff \in Buffers : os_write(path, buff, off)
  BY DEF Handler
<1>2. CASE os_mkdir(path)
  <2>1. Makes("os_mkdir", path, dfs_create_dir) /\ dfs_create_dir.type = "dir"
    BY <1>2, NewNodes DEF os_mkdir
  <2>2. \/ state' = "torn" \/ UNCHANGED <<tree, reply>>
        \/ Abstract!MakeEntry("os_mkdir", dfs_create_dir.type, path) /\ reply'.path = path
    BY <2>1, MakesAre
  <2> QED
    BY <2>1, <2>2 DEF Abstract!Next
<1>3. CASE os_create(path)
  <2>1. Makes("os_create", path, dfs_create_file) /\ dfs_create_file.type = "file"
    BY <1>3, NewNodes DEF os_create
  <2>2. \/ state' = "torn" \/ UNCHANGED <<tree, reply>>
        \/ Abstract!MakeEntry("os_create", dfs_create_file.type, path) /\ reply'.path = path
    BY <2>1, MakesAre
  <2> QED
    BY <2>1, <2>2 DEF Abstract!Next
<1>4. CASE os_rmdir(path)
  BY <1>4, RmdirIs DEF Abstract!Next
<1>5. CASE os_unlink(path)
  BY <1>5, UnlinkIs DEF Abstract!Next
<1>6. CASE os_readdir(path)
  BY <1>6, ReaddirIs DEF Abstract!Next
<1>7. CASE os_getattr(path)
  BY <1>7, GetattrIs DEF Abstract!Next
<1>8. ASSUME NEW op \in {"os_chmod", "os_chown", "os_utimens"}, Sets(op, path)
      PROVE  Abstract!Next \/ UNCHANGED <<tree, reply>>
  BY <1>8, SetsIs DEF Abstract!Next
<1>9. CASE os_chmod(path) \/ os_chown(path) \/ os_utimens(path)
  BY <1>8, <1>9 DEF os_chmod, os_chown, os_utimens
<1>10. CASE os_setxattr(path)
  <2>1. Abstract!Setxattr(path) /\ reply'.path = path
    BY <1>10, Refused DEF os_setxattr, Abstract!Setxattr
  <2> QED
    BY <2>1 DEF Abstract!Next
<1>11. ASSUME NEW off \in Offsets, os_truncate(path, off)
       PROVE  Abstract!Next \/ UNCHANGED <<tree, reply>>
  BY <1>11, TruncateIs DEF Abstract!Next
<1>12. ASSUME NEW off \in ReadOffsets, NEW size \in Sizes, os_read(path, size, off)
       PROVE  Abstract!Next \/ UNCHANGED <<tree, reply>>
  BY <1>12, ReadIs DEF Abstract!Next
<1>13. ASSUME NEW off \in Offsets, NEW buff \in Buffers, os_write(path, buff, off)
       PROVE  Abstract!Next \/ UNCHANGED <<tree, reply>>
  BY <1>13, WriteIs DEF Abstract!Next
<1> QED
  BY <1>1, <1>2, <1>3, <1>4, <1>5, <1>6, <1>7, <1>9, <1>10, <1>11, <1>12, <1>13

\* The tree that create_dfs builds has a root, which is all that DirTree asks of its start.
LEMMA StartsAs ==
  ASSUME Init
  PROVE  Abstract!Init
<1>1. Sound /\ state = "running" /\ reply = NoReply
  BY InitSound, Zenon DEF Init
<1>2. <<>> \in DOMAIN tree
  BY <1>1, TreeIs, TreeParts DEF Sound
<1> QED
  BY <1>1, <1>2 DEF Abstract!Init, NoReply, Abstract!NoReply, Reply, Abstract!Reply

\* So is every step of the specification.
LEMMA StepIs ==
  ASSUME Sound, ReadOffsets \subseteq Nat, [Next]_vars
  PROVE  state' = "torn" \/ Abstract!Next \/ UNCHANGED <<tree, reply>>
<1>1. CASE state = "running" /\ Handler
  BY <1>1, HandlerIs
<1>2. CASE OutOfMemory
  <2>1. Abstract!OutOfMemory
    BY <1>2, Refused DEF OutOfMemory, Abstract!OutOfMemory
  <2> QED
    BY <2>1 DEF Abstract!Next
<1>3. CASE Replies
  <2>1. tree' = tree
    BY <1>3, TreeIs DEF Replies
  <2>2. Abstract!Replies
    BY <1>3, <2>1 DEF Replies, Abstract!Replies, NoReply, Abstract!NoReply, Reply, Abstract!Reply
  <2> QED
    BY <2>2 DEF Abstract!Next
<1>4. CASE UNCHANGED vars
  BY <1>4, TreeIs DEF vars
<1> QED
  BY <1>1, <1>2, <1>3, <1>4 DEF Next

\* The handlers, which walk from entry to entry and change the maps of
\* directories, do to the tree of path names what DirTree says and answer what
\* it says, whatever the tree: until a strdup or a resize_table of a table fails
\* or a handler uses a pointer that was never set.  Reads start where the kernel
\* lets them, at zero or behind it: before that os_read's answer is wrong.
THEOREM Implements ==
  ASSUME ReadOffsets \subseteq Nat
  PROVE  Spec => ImplementsDirTree
<1>1. Init => Abstract!Init
  BY StartsAs
<1>2. Sound /\ [Next]_vars => [state' = "torn" \/ Abstract!Next]_(Abstract!vars)
  BY StepIs DEF Abstract!vars
<1> QED
  BY <1>1, <1>2, AlwaysSound, PTL DEF Spec, ImplementsDirTree
================================================================================
