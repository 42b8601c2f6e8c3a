----------------------------- MODULE DfsPathProofs -----------------------------
(***************************************************************************)
(* What holds of DfsPath for any strings, when one handler runs at a time: *)
(* first of strtok on one string, then of the handlers' steps.  With two   *)
(* handlers it does not hold: see path_race.cfg.                           *)
(***************************************************************************)
EXTENDS DfsPath, FiniteSetTheorems, SequenceTheorems, WellFoundedInduction, TLAPS

-------------------------------------------------------------------------------
(* Least numbers, and places in a string *)

Bytes == Chars \cup {NUL}

\* Every non-empty set of natural numbers has a least element.
LEMMA LeastNumber ==
  ASSUME NEW T, T \subseteq Nat, T # {}
  PROVE  \E x \in T : \A y \in T : x <= y
<1> DEFINE R == OpToRel(<, Nat)
<1>1. IsWellFoundedOn(R, Nat)
  BY NatLessThanWellFounded, Zenon
<1> HIDE DEF R
<1>2. PICK x \in T : \A y \in T : ~ (<<y, x>> \in R)
  BY <1>1, WFMin
<1>3. \A y \in T : y < x => <<y, x>> \in R
  BY DEF R, OpToRel
<1>4. \A y \in T : ~ (y < x)
  BY <1>2, <1>3
<1>5. \A y \in T : y \in Nat
  OBVIOUS
<1>6. \A y \in T : x <= y
  BY <1>4, <1>5
<1> QED
  BY <1>6

\* Min is that element, and no other number is.
LEMMA MinIs ==
  ASSUME NEW T, T \subseteq Nat, T # {}
  PROVE  /\ Min(T) \in T /\ \A y \in T : Min(T) <= y
         /\ \A x \in T : (\A y \in T : x <= y) => Min(T) = x
<1>1. \E x \in T : \A y \in T : x <= y
  BY LeastNumber
<1>2. Min(T) \in T /\ \A y \in T : Min(T) <= y
  BY <1>1 DEF Min
<1>3. ASSUME NEW x \in T, \A y \in T : x <= y
      PROVE  Min(T) = x
  <2>1. Min(T) <= x /\ x <= Min(T) /\ x \in Nat /\ Min(T) \in Nat
    BY <1>2, <1>3
  <2> HIDE DEF Min
  <2> QED
    BY <2>1
<1> QED
  BY <1>2, <1>3

\* Seek finds the first place with one of the characters, or the end.
LEMMA SeekIs ==
  ASSUME NEW s \in Seq(Bytes), NEW i \in 1 .. Len(s) + 1, NEW chars
  PROVE  /\ Seek(s, i, chars) \in i .. Len(s) + 1
         /\ CharAt(s, Seek(s, i, chars)) \in chars \cup {NUL}
         /\ \A k \in i .. Seek(s, i, chars) - 1 : CharAt(s, k) \notin chars \cup {NUL}
         /\ \A e \in i .. Len(s) + 1 :
              /\ CharAt(s, e) \in chars \cup {NUL}
              /\ \A k \in i .. e - 1 : CharAt(s, k) \notin chars \cup {NUL}
              => Seek(s, i, chars) = e
<1> DEFINE T == {j \in i .. Len(s) + 1 : CharAt(s, j) \in chars \cup {NUL}}
<1>1. Len(s) \in Nat /\ Len(s) + 1 \in i .. Len(s) + 1 /\ ~ (Len(s) + 1 <= Len(s))
  OBVIOUS
<1>2. Len(s) + 1 \in T /\ T \subseteq Nat /\ T # {}
  BY <1>1 DEF CharAt
<1>3. Seek(s, i, chars) = Min(T)
  BY DEF Seek
<1>4. \A j : j \in T <=> j \in i .. Len(s) + 1 /\ CharAt(s, j) \in chars \cup {NUL}
  OBVIOUS
<1> HIDE DEF T
<1>5. /\ Min(T) \in T /\ \A y \in T : Min(T) <= y
      /\ \A x \in T : (\A y \in T : x <= y) => Min(T) = x
  BY <1>2, MinIs
<1>6. ASSUME NEW k \in i .. Min(T) - 1
      PROVE  CharAt(s, k) \notin chars \cup {NUL}
  <2>1. Min(T) \in i .. Len(s) + 1
    BY <1>4, <1>5
  <2>2. k \in i .. Len(s) + 1 /\ ~ (Min(T) <= k)
    BY <1>1, <2>1
  <2> QED
    BY <1>4, <1>5, <2>2
<1>7. ASSUME NEW e \in i .. Len(s) + 1, CharAt(s, e) \in chars \cup {NUL},
             \A k \in i .. e - 1 : CharAt(s, k) \notin chars \cup {NUL}
      PROVE  Min(T) = e
  <2>1. e \in T
    BY <1>4, <1>7
  <2>2. ASSUME NEW y \in T
        PROVE  e <= y
    <3>1. y \in i .. Len(s) + 1 /\ CharAt(s, y) \in chars \cup {NUL}
      BY <1>4
    <3>2. y \notin i .. e - 1
      BY <1>7, <3>1
    <3> QED
      BY <1>1, <3>1, <3>2
  <2> QED
    BY <1>5, <2>1, <2>2
<1> QED
  BY <1>3, <1>4, <1>5, <1>6, <1>7

\* Skip finds the first place that has no slash.
LEMMA SkipIs ==
  ASSUME NEW s \in Seq(Bytes), NEW i \in 1 .. Len(s) + 1
  PROVE  /\ Skip(s, i) \in i .. Len(s) + 1
         /\ CharAt(s, Skip(s, i)) # "/"
         /\ \A k \in i .. Skip(s, i) - 1 : CharAt(s, k) = "/"
<1> DEFINE T == {j \in i .. Len(s) + 1 : CharAt(s, j) # "/"}
<1>1. Len(s) \in Nat /\ Len(s) + 1 \in i .. Len(s) + 1 /\ ~ (Len(s) + 1 <= Len(s))
  OBVIOUS
<1>2. Len(s) + 1 \in T /\ T \subseteq Nat /\ T # {}
  BY <1>1, DfsPathAssumption DEF CharAt
<1>3. Skip(s, i) = Min(T)
  BY DEF Skip
<1>4. \A j : j \in T <=> j \in i .. Len(s) + 1 /\ CharAt(s, j) # "/"
  OBVIOUS
<1> HIDE DEF T
<1>5. Min(T) \in T /\ \A y \in T : Min(T) <= y
  BY <1>2, MinIs
<1>6. ASSUME NEW k \in i .. Min(T) - 1
      PROVE  CharAt(s, k) = "/"
  <2>1. Min(T) \in i .. Len(s) + 1
    BY <1>4, <1>5
  <2>2. k \in i .. Len(s) + 1 /\ ~ (Min(T) <= k)
    BY <1>1, <2>1
  <2> QED
    BY <1>4, <1>5, <2>2
<1> QED
  BY <1>3, <1>4, <1>5, <1>6

\* StrLen is the last place without a slash.
LEMMA StrLenIs ==
  ASSUME NEW s \in Seq(Bytes)
  PROVE  /\ StrLen(s) \in 0 .. Len(s)
         /\ StrLen(s) = 0 \/ s[StrLen(s)] # "/"
         /\ \A k \in StrLen(s) + 1 .. Len(s) : s[k] = "/"
<1> DEFINE L == Len(s)
           T == {0} \cup {i \in 1 .. L : s[i] # "/"}
           U == {n \in 0 .. L : L - n \in T}
<1>1. L \in Nat
  OBVIOUS
<1> HIDE DEF L
<1>2. L \in U /\ U \subseteq Nat /\ T \subseteq 0 .. L
  BY <1>1
<1>3. PICK x \in U : \A y \in U : x <= y
  BY <1>2, LeastNumber
<1>4. L - x \in T /\ \A j \in T : L - x >= j
  <2> SUFFICES ASSUME NEW j \in T
               PROVE  L - x >= j
    BY <1>3
  <2>1. L - j \in U
    BY <1>1, <1>2
  <2> QED
    BY <1>1, <1>2, <1>3, <2>1
<1>5. Max(T) \in T /\ \A j \in T : Max(T) >= j
  BY <1>4 DEF Max
<1>6. StrLen(s) = Max(T)
  BY DEF StrLen, L
<1>7. ASSUME NEW k \in Max(T) + 1 .. L
      PROVE  s[k] = "/"
  BY <1>1, <1>2, <1>5, <1>7
<1>8. Max(T) \in 0 .. L /\ (Max(T) = 0 \/ s[Max(T)] # "/")
  BY <1>2, <1>5
<1> HIDE DEF T
<1> QED
  BY <1>6, <1>7, <1>8 DEF L

-------------------------------------------------------------------------------
(* Names in a text *)

\* A name ends at the first slash, or with the string.
LEMMA NameEnds ==
  ASSUME NEW s \in Seq(Bytes), NEW p \in 1 .. Len(s), NEW e \in p .. Len(s) + 1,
         e = Len(s) + 1 \/ s[e] = "/", \A k \in p .. e - 1 : s[k] # "/"
  PROVE  NameAt(s, p) = SubSeq(s, p, e - 1)
<1> DEFINE T == {j \in p .. Len(s) + 1 : j = Len(s) + 1 \/ s[j] = "/"}
<1>1. Len(s) \in Nat /\ T \subseteq Nat /\ e \in T
  OBVIOUS
<1>2. ASSUME NEW y \in T
      PROVE  e <= y
  <2>1. y \in p .. Len(s) + 1 /\ (y = Len(s) + 1 \/ s[y] = "/")
    OBVIOUS
  <2>2. y \notin p .. e - 1
    BY <1>1, <2>1
  <2> QED
    BY <1>1, <2>1, <2>2
<1> HIDE DEF T
<1>3. Min(T) = e
  BY <1>1, <1>2, MinIs
<1> QED
  BY <1>3 DEF NameAt, T

\* And it ends somewhere.
LEMMA NameHasEnd ==
  ASSUME NEW s \in Seq(Bytes), NEW p \in 1 .. Len(s)
  PROVE  \E e \in p .. Len(s) + 1 : /\ e = Len(s) + 1 \/ s[e] = "/"
                                    /\ \A k \in p .. e - 1 : s[k] # "/"
<1> DEFINE T == {j \in p .. Len(s) + 1 : j = Len(s) + 1 \/ s[j] = "/"}
<1>1. Len(s) \in Nat /\ T \subseteq Nat /\ Len(s) + 1 \in T
  OBVIOUS
<1>2. PICK e \in T : \A y \in T : e <= y
  BY <1>1, LeastNumber
<1>3. ASSUME NEW k \in p .. e - 1
      PROVE  s[k] # "/"
  <2>1. k \in p .. Len(s) + 1 /\ ~ (e <= k)
    BY <1>1
  <2> QED
    BY <1>2, <2>1
<1> QED
  BY <1>3

\* How names are counted.
LEMMA CountIs ==
  ASSUME NEW s \in Seq(Bytes), NEW n \in Int
  PROVE  /\ IsFiniteSet({i \in NameStarts(s) : i <= n})
         /\ NamesUpTo(s, n) \in Nat
         /\ n = 0 => NamesUpTo(s, n) = 0
<1>1. {i \in NameStarts(s) : i <= n} \subseteq 1 .. Len(s) /\ Len(s) \in Nat
  BY DEF NameStarts
<1>2. IsFiniteSet({i \in NameStarts(s) : i <= n})
  <2>1. IsFiniteSet(1 .. Len(s))
    BY <1>1, FS_Interval
  <2> QED
    BY <1>1, <2>1, FS_Subset
<1>3. n = 0 => {i \in NameStarts(s) : i <= n} = {}
  BY <1>1
<1> QED
  BY <1>2, <1>3, FS_CardinalityType, FS_EmptySet DEF NamesUpTo

\* The count stays where no name begins.
LEMMA CountStays ==
  ASSUME NEW s \in Seq(Bytes), NEW a \in Int, NEW b \in Int, a <= b,
         \A k \in a + 1 .. b : k \notin NameStarts(s)
  PROVE  NamesUpTo(s, a) = NamesUpTo(s, b)
<1>1. \A i \in NameStarts(s) : i \in Int
  BY DEF NameStarts
<1>2. ASSUME NEW i \in NameStarts(s)
      PROVE  i <= a <=> i <= b
  BY <1>1
<1>3. {i \in NameStarts(s) : i <= a} = {i \in NameStarts(s) : i <= b}
  BY <1>2
<1> QED
  BY <1>3 DEF NamesUpTo

\* It grows by one where one does.
LEMMA CountGrows ==
  ASSUME NEW s \in Seq(Bytes), NEW a \in Int, NEW b \in Int, a <= b,
         NEW p \in a + 1 .. b, p \in NameStarts(s),
         \A k \in a + 1 .. b : k = p \/ k \notin NameStarts(s)
  PROVE  NamesUpTo(s, b) = NamesUpTo(s, a) + 1
<1> DEFINE T == {i \in NameStarts(s) : i <= a}
<1>1. \A i \in NameStarts(s) : i \in Int
  BY DEF NameStarts
<1>2. ASSUME NEW i \in NameStarts(s)
      PROVE  i <= b <=> i <= a \/ i = p
  BY <1>1
<1>3. {i \in NameStarts(s) : i <= b} = T \cup {p}
  BY <1>2
<1>4. p \notin T /\ IsFiniteSet(T)
  BY CountIs
<1> HIDE DEF T
<1>5. Cardinality(T \cup {p}) = Cardinality(T) + 1
  BY <1>4, FS_AddElement
<1> QED
  BY <1>3, <1>5 DEF NamesUpTo, T

\* And it never falls.
LEMMA CountOrder ==
  ASSUME NEW s \in Seq(Bytes), NEW a \in Int, NEW b \in Int, a <= b
  PROVE  NamesUpTo(s, a) <= NamesUpTo(s, b)
<1>1. {i \in NameStarts(s) : i <= a} \subseteq {i \in NameStarts(s) : i <= b}
  BY DEF NameStarts
<1>2. IsFiniteSet({i \in NameStarts(s) : i <= b})
  BY CountIs
<1> QED
  BY <1>1, <1>2, FS_Subset DEF NamesUpTo

\* The name that begins at p is counted from there on, and has a number of its
\* own.
LEMMA StartCounts ==
  ASSUME NEW s \in Seq(Bytes), NEW p \in NameStarts(s)
  PROVE  /\ p \in 1 .. Len(s)
         /\ NamesUpTo(s, p) = NamesUpTo(s, p - 1) + 1
         /\ NamesUpTo(s, p) \in Nat \ {0} /\ NamesUpTo(s, Len(s)) \in Nat
         /\ NamesUpTo(s, p) <= NamesUpTo(s, Len(s))
<1>1. p \in 1 .. Len(s) /\ Len(s) \in Nat
  BY DEF NameStarts
<1>2. /\ p - 1 \in Int /\ p \in Int /\ p - 1 <= p /\ p \in (p - 1) + 1 .. p /\ (p - 1) + 1 .. p = {p}
      /\ Len(s) \in Int /\ p <= Len(s)
  BY <1>1
<1>3. NamesUpTo(s, p) = NamesUpTo(s, p - 1) + 1
  BY <1>2, CountGrows
<1>4. NamesUpTo(s, p - 1) \in Nat /\ NamesUpTo(s, Len(s)) \in Nat
  BY <1>2, CountIs
<1>5. NamesUpTo(s, p) <= NamesUpTo(s, Len(s))
  BY <1>2, CountOrder
<1> QED
  BY <1>1, <1>3, <1>4, <1>5

\* Two names have different numbers.
LEMMA StartsDiffer ==
  ASSUME NEW s \in Seq(Bytes), NEW p \in NameStarts(s), NEW r \in NameStarts(s),
         NamesUpTo(s, p) = NamesUpTo(s, r)
  PROVE  p = r
<1>1. /\ p \in 1 .. Len(s) /\ NamesUpTo(s, p) = NamesUpTo(s, p - 1) + 1 /\ NamesUpTo(s, p) \in Nat
      /\ r \in 1 .. Len(s) /\ NamesUpTo(s, r) = NamesUpTo(s, r - 1) + 1
  BY StartCounts
<1>2. p - 1 \in Int /\ r - 1 \in Int /\ p \in Int /\ r \in Int
  BY <1>1
<1>3. NamesUpTo(s, p - 1) \in Nat /\ NamesUpTo(s, r - 1) \in Nat
  BY <1>2, CountIs
<1>4. ASSUME p < r
      PROVE  FALSE
  <2>1. p <= r - 1
    BY <1>2, <1>4
  <2>2. NamesUpTo(s, p) <= NamesUpTo(s, r - 1)
    BY <1>2, <2>1, CountOrder
  <2>3. NamesUpTo(s, p) = NamesUpTo(s, r - 1) + 1
    BY <1>1
  <2> QED
    BY <1>3, <2>2, <2>3
<1>5. ASSUME r < p
      PROVE  FALSE
  <2>1. r <= p - 1
    BY <1>2, <1>5
  <2>2. NamesUpTo(s, r) <= NamesUpTo(s, p - 1)
    BY <1>2, <2>1, CountOrder
  <2>3. NamesUpTo(s, r) = NamesUpTo(s, p - 1) + 1
    BY <1>1
  <2> QED
    BY <1>3, <2>2, <2>3
<1> QED
  BY <1>2, <1>4, <1>5

-------------------------------------------------------------------------------
(* The inductive invariant *)

\* s is a copy of the text in which some slashes are overwritten, none of those
\* that the names from the place q on are separated by; and no name goes on at q.
IsCopy(text, s) ==
  /\ s \in Seq(Bytes) /\ Len(s) = Len(text)
  /\ \A k \in 1 .. Len(text) : s[k] = text[k] \/ (text[k] = "/" /\ s[k] = NUL)
Placed(text, s, q) ==
  /\ IsCopy(text, s)
  /\ \A k \in q .. StrLen(text) : s[k] = text[k]
  /\ q \in 1 .. Len(text) + 1
  /\ q = 1 \/ q > StrLen(text) \/ text[q - 1] = "/"

\* A token of s is a name of the text.
IsToken(text, s, p) ==
  /\ p \in NameStarts(text)
  /\ SubSeq(s, p, Seek(s, p, {}) - 1) = NameAt(text, p)

\* The first n names of the text are the first n components.
Holds(components, text, n) ==
  /\ \A p \in NameStarts(text) :
       NamesUpTo(text, p) <= n => components[NamesUpTo(text, p)] = NameAt(text, p)
  /\ \A j \in 1 .. n : components[j] # NULL

Components(t, n) == {<<t, "component", j>> : j \in 1 .. n}

\* What is allocated at every step of a handler.
Allocated(t, h) ==
  {<<t, "path">>}
    \cup (IF h.pc \in {"parsed", "find"} THEN {} ELSE {<<t, "str">>})
    \cup (IF h.array THEN {<<t, "components">>} ELSE {})
    \cup Components(t, IF h.pc = "parsed" THEN h.num
                       ELSE IF h.pc = "find" THEN h.num + 1 ELSE h.i)

Handlers ==
  [pc : {"idle", "count", "counting", "copy", "copying", "copied", "parsed", "find", "returned"},
   op : {"none", "find", "pop"}, path : Seq(Chars), num : Nat, array : BOOLEAN,
   components : Seq(Seq(Chars) \cup {NULL}), tok : (Threads \X Nat) \cup {NULL}, i : Nat,
   name : (Threads \X {"component"} \X Nat) \cup {NULL}, failed : BOOLEAN]

\* A handler that tokenizes its copy of the text: where it is in it, how many
\* names it has counted, and how many copied.
Counting(t, h, text, place, s) ==
  /\ text # <<>> /\ h.i = 0 /\ ~ h.array /\ h.name = NULL
  /\ h.pc = "count" => h.num = 0 /\ Placed(text, s, 1)
  /\ h.pc = "counting" =>
       /\ place \in {t} \X Nat /\ Placed(text, s, place[2])
       /\ h.tok # NULL => h.num + 1 = NamesUpTo(text, place[2] - 1)
       /\ h.tok = NULL => h.num = NamesUpTo(text, Len(text))

Copying(t, h, text, place, s) ==
  /\ text # <<>> /\ h.array /\ h.name = NULL
  /\ h.num = NamesUpTo(text, Len(text)) /\ Len(h.components) = h.num
  /\ h.i <= h.num /\ Holds(h.components, text, h.i)
  /\ h.pc = "copy" => h.i = 0 /\ Placed(text, s, 1)
  /\ h.pc \in {"copying", "copied"} =>
       place \in {t} \X Nat /\ Placed(text, s, place[2])
  /\ h.pc = "copying" =>
       /\ h.tok # NULL => /\ h.tok[1] = t /\ IsToken(text, s, h.tok[2])
                          /\ NamesUpTo(text, h.tok[2]) = h.i + 1
                          /\ NamesUpTo(text, place[2] - 1) = h.i + 1
       /\ h.tok = NULL => h.i = h.num
  /\ h.pc = "copied" => NamesUpTo(text, place[2] - 1) = h.i

\* The names are found; of a path that is walked, without the last of them.
Parsed(t, h, text) ==
  /\ Len(h.components) = NamesUpTo(text, Len(text))
  /\ Holds(h.components, text, NamesUpTo(text, Len(text)))
  /\ h.pc = "parsed" =>
       /\ h.num = NamesUpTo(text, Len(text)) /\ h.name = NULL
       /\ h.num > 0 => h.array
  /\ h.pc = "find" =>
       /\ h.num + 1 = NamesUpTo(text, Len(text))
       /\ h.name = <<t, "component", h.num + 1>>

HandlerSound(t, h, place, s, l) ==
  LET text == Trimmed(h.path)
  IN  /\ h.pc \in {"count", "counting"} => Counting(t, h, text, place, s)
      /\ h.pc \in {"copy", "copying", "copied"} => Copying(t, h, text, place, s)
      /\ h.pc \in {"parsed", "find"} => Parsed(t, h, text)
      /\ h.pc \notin {"idle", "returned"} => l = Allocated(t, h)
      /\ h.pc = "idle" => l = {} /\ h = Idle
      /\ h.pc = "returned" =>
           \/ l = {}
           \/ h.failed /\ (l = {<<t, "str">>} \/ (h.name # NULL /\ l = {h.name}))

Sound ==
  /\ state = "running"
  /\ str \in [Threads -> Seq(Bytes)]
  /\ handler \in [Threads -> Handlers]
  /\ \A t \in Threads : HandlerSound(t, handler[t], olds, str[t], live)

-------------------------------------------------------------------------------
(* strtok on one string *)

\* What a call of strtok does to s and to its place q: the place q2 it goes on
\* from, the string s2 it leaves, and whether p is the token that it found.
Scans(s, q, found, p, s2, q2) ==
  LET end == Seek(s, p, {"/"})
  IN  /\ p = Skip(s, q)
      /\ found <=> CharAt(s, p) # NUL
      /\ s2 = IF CharAt(s, end) = "/" THEN [s EXCEPT ![end] = NUL] ELSE s
      /\ q2 = IF CharAt(s, end) = "/" THEN end + 1 ELSE end

\* What is found: the one name that begins between the old place and the new
\* one, or that there is no further one.
Found(text, q, found, p, s2, q2) ==
  /\ Placed(text, s2, q2)
  /\ found => /\ IsToken(text, s2, p)
              /\ NamesUpTo(text, p) = NamesUpTo(text, q - 1) + 1
              /\ NamesUpTo(text, q2 - 1) = NamesUpTo(text, q - 1) + 1
  /\ ~ found => NamesUpTo(text, Len(text)) = NamesUpTo(text, q - 1)

\* strtok finds the next name of the text, also in a copy with slashes that it
\* overwrote before.
LEMMA ScansFind ==
  ASSUME NEW text \in Seq(Chars), NEW s, NEW q, Placed(text, s, q),
         NEW found \in BOOLEAN, NEW p, NEW s2, NEW q2, Scans(s, q, found, p, s2, q2)
  PROVE  Found(text, q, found, p, s2, q2)
<1> DEFINE N == Len(text)
           m == StrLen(text)
           end == Seek(s, p, {"/"})
<1>1. /\ N \in Nat /\ text \in Seq(Bytes) /\ \A k \in 1 .. N : text[k] # NUL /\ text[k] \in Bytes
  BY DfsPathAssumption DEF Bytes
<1>2. /\ m \in 0 .. N /\ m \in Int /\ (m = 0 \/ text[m] # "/")
      /\ \A k \in m + 1 .. N : text[k] = "/"
  BY <1>1, StrLenIs
<1>3. /\ s \in Seq(Bytes) /\ Len(s) = N
      /\ \A k \in 1 .. N : s[k] = text[k] \/ (text[k] = "/" /\ s[k] = NUL)
      /\ \A k \in q .. m : s[k] = text[k]
      /\ q \in 1 .. N + 1 /\ (q = 1 \/ q > m \/ text[q - 1] = "/")
  BY DEF Placed, IsCopy
<1>4. /\ p \in q .. N + 1 /\ CharAt(s, p) # "/"
      /\ \A k \in q .. p - 1 : CharAt(s, k) = "/"
  BY <1>3, SkipIs DEF Scans
<1>5. p \in 1 .. Len(s) + 1
  BY <1>1, <1>3, <1>4
<1>6. /\ end \in p .. N + 1 /\ CharAt(s, end) \in {"/", NUL}
      /\ \A k \in p .. end - 1 : CharAt(s, k) \notin {"/", NUL}
  <2>1. {"/"} \cup {NUL} = {"/", NUL}
    OBVIOUS
  <2> QED
    BY <1>3, <1>5, <2>1, SeekIs
<1>7. /\ found <=> CharAt(s, p) # NUL
      /\ s2 = IF CharAt(s, end) = "/" THEN [s EXCEPT ![end] = NUL] ELSE s
      /\ q2 = IF CharAt(s, end) = "/" THEN end + 1 ELSE end
  BY DEF Scans
<1>8. "/" # NUL /\ NUL \in Bytes
  BY DfsPathAssumption DEF Bytes
<1>9. /\ \A k \in 1 .. N : CharAt(s, k) = s[k]
      /\ CharAt(s, N + 1) = NUL
  BY <1>1, <1>3 DEF CharAt
<1> HIDE DEF N, m, end
<1>10. /\ \A k \in 1 .. N : s[k] = "/" => text[k] = "/"
       /\ \A k \in m + 1 .. N : s[k] \in {"/", NUL}
       /\ \A k \in q .. m : s[k] = text[k] /\ s[k] # NUL
  BY <1>1, <1>2, <1>3, <1>8
<1>11. found <=> p <= m
  <2>1. ASSUME p <= m
        PROVE  CharAt(s, p) # NUL
    BY <1>1, <1>2, <1>3, <1>4, <1>9, <1>10, <2>1
  <2>2. ASSUME ~ (p <= m)
        PROVE  CharAt(s, p) = NUL
    <3>1. p = N + 1 \/ p \in m + 1 .. N
      BY <1>1, <1>2, <1>3, <1>4, <2>2
    <3> QED
      BY <1>1, <1>2, <1>4, <1>9, <1>10, <3>1
  <2> QED
    BY <1>7, <2>1, <2>2
<1>12. /\ CharAt(s, end) = "/" => end \in 1 .. N /\ text[end] = "/" /\ q2 = end + 1
       /\ CharAt(s, end) # "/" => end > m /\ q2 = end
  <2>1. ASSUME CharAt(s, end) = "/"
        PROVE  end \in 1 .. N /\ text[end] = "/" /\ q2 = end + 1
    <3>1. end # N + 1
      BY <1>8, <1>9, <2>1
    <3>2. end \in 1 .. N
      BY <1>1, <1>3, <1>4, <1>6, <3>1
    <3> QED
      BY <1>7, <1>9, <1>10, <2>1, <3>2
  <2>2. ASSUME CharAt(s, end) # "/"
        PROVE  end > m /\ q2 = end
    <3>1. CharAt(s, end) = NUL
      BY <1>6, <2>2
    <3>2. ASSUME end <= m
          PROVE  FALSE
      <4>1. end \in q .. m /\ end \in 1 .. N
        BY <1>1, <1>2, <1>3, <1>4, <1>6, <3>2
      <4> QED
        BY <1>9, <1>10, <3>1, <4>1
    <3> QED
      BY <1>1, <1>2, <1>3, <1>4, <1>6, <1>7, <2>2, <3>2
  <2> QED
    BY <2>1, <2>2
<1>13. /\ s2 \in Seq(Bytes) /\ Len(s2) = N
       /\ \A k \in 1 .. N : s2[k] = IF CharAt(s, end) = "/" /\ k = end THEN NUL ELSE s[k]
  <2>1. CASE CharAt(s, end) = "/"
    <3>1. s2 = [s EXCEPT ![end] = NUL] /\ end \in 1 .. Len(s)
      BY <1>3, <1>7, <1>12, <2>1
    <3>2. /\ s2 \in Seq(Bytes) /\ Len(s2) = Len(s)
          /\ \A k \in 1 .. Len(s) : s2[k] = IF k = end THEN NUL ELSE s[k]
      BY <1>3, <1>8, <3>1, ExceptSeq
    <3> QED
      BY <1>3, <2>1, <3>2
  <2>2. CASE CharAt(s, end) # "/"
    BY <1>3, <1>7, <2>2
  <2> QED
    BY <2>1, <2>2
<1>14. Placed(text, s2, q2)
  <2>1. \A k \in 1 .. N : s2[k] = text[k] \/ (text[k] = "/" /\ s2[k] = NUL)
    BY <1>3, <1>12, <1>13
  <2>2. IsCopy(text, s2)
    BY <1>13, <2>1 DEF IsCopy, N
  <2>3. q2 \in 1 .. N + 1 /\ end \in Int /\ q2 \in Int /\ q2 >= q /\ q2 >= end
    BY <1>1, <1>3, <1>4, <1>6, <1>12
  <2>4. ASSUME NEW k \in q2 .. m
        PROVE  s2[k] = text[k]
    <3>1. k \in q .. m /\ k \in 1 .. N /\ (CharAt(s, end) = "/" => k # end)
      BY <1>1, <1>2, <1>3, <1>12, <2>3
    <3> QED
      BY <1>10, <1>13, <3>1
  <2>5. q2 > m \/ text[q2 - 1] = "/"
    <3>1. (end + 1) - 1 = end
      BY <2>3
    <3> QED
      BY <1>12, <3>1
  <2> QED
    BY <2>2, <2>3, <2>4, <2>5 DEF Placed, N, m
<1>15. ASSUME found
       PROVE  /\ IsToken(text, s2, p)
              /\ NamesUpTo(text, p) = NamesUpTo(text, q - 1) + 1
              /\ NamesUpTo(text, q2 - 1) = NamesUpTo(text, q - 1) + 1
  <2>1. /\ p \in 1 .. N /\ p \in q .. m /\ s[p] = text[p] /\ text[p] # "/" /\ p \in Int
    BY <1>1, <1>2, <1>3, <1>4, <1>9, <1>10, <1>11, <1>15
  <2>2. p = 1 \/ text[p - 1] = "/"
    <3>1. CASE p = q
      BY <1>1, <1>2, <1>3, <2>1, <3>1
    <3>2. CASE p # q
      <4>1. p - 1 \in q .. p - 1 /\ p - 1 \in 1 .. N
        BY <1>1, <1>3, <1>4, <2>1, <3>2
      <4> QED
        BY <1>4, <1>9, <1>10, <4>1
    <3> QED
      BY <3>1, <3>2
  <2>3. p \in NameStarts(text)
    BY <2>1, <2>2 DEF NameStarts, N
  <2>4. end # p /\ end \in p + 1 .. N + 1
    <3>1. CharAt(s, p) \notin {"/", NUL}
      BY <1>4, <1>7, <1>15
    <3> QED
      BY <1>1, <1>6, <2>1, <3>1
  <2>5. \A k \in p .. end - 1 : k \in 1 .. N /\ k \in q .. m /\ s[k] = text[k] /\ text[k] # "/" /\ s[k] # NUL
    <3> TAKE k \in p .. end - 1
    <3>1. k \in 1 .. N /\ k \in Int /\ k >= q
      BY <1>1, <1>3, <1>4, <1>6
    <3>2. s[k] \notin {"/", NUL}
      BY <1>6, <1>9, <3>1
    <3>3. k <= m
      BY <1>1, <1>2, <1>10, <3>1, <3>2
    <3> QED
      BY <1>2, <1>3, <1>10, <3>1, <3>2, <3>3
  <2>6. end = N + 1 \/ text[end] = "/"
    <3>1. CASE CharAt(s, end) = "/"
      BY <1>12, <3>1
    <3>2. CASE CharAt(s, end) # "/"
      BY <1>1, <1>2, <1>6, <1>12, <2>4, <3>2
    <3> QED
      BY <3>1, <3>2
  <2>7. NameAt(text, p) = SubSeq(text, p, end - 1)
    <3>1. /\ p \in 1 .. Len(text) /\ end \in p .. Len(text) + 1 /\ (end = Len(text) + 1 \/ text[end] = "/")
          /\ \A k \in p .. end - 1 : text[k] # "/"
      BY <1>6, <2>1, <2>5, <2>6 DEF N
    <3> QED
      BY <1>1, <3>1, NameEnds
  <2>8. \A k \in p .. end - 1 : s2[k] = text[k] /\ s2[k] # NUL /\ CharAt(s2, k) = s2[k]
    <3> TAKE k \in p .. end - 1
    <3>1. k # end /\ k \in 1 .. N /\ k <= N
      BY <1>1, <1>6, <2>1, <2>5
    <3> QED
      BY <1>13, <2>5, <3>1 DEF CharAt
  <2>9. CharAt(s2, end) = NUL
    <3>1. CASE CharAt(s, end) = "/"
      <4>1. end \in 1 .. N /\ end <= N
        BY <1>1, <1>12, <3>1
      <4> QED
        BY <1>13, <3>1, <4>1 DEF CharAt
    <3>2. CASE CharAt(s, end) # "/"
      BY <1>6, <1>7, <3>2
    <3> QED
      BY <3>1, <3>2
  <2>10. Seek(s2, p, {}) = end
    <3>1. p \in 1 .. Len(s2) + 1 /\ end \in p .. Len(s2) + 1
      BY <1>1, <1>6, <1>13, <2>1
    <3>2. CharAt(s2, end) \in {} \cup {NUL} /\ \A k \in p .. end - 1 : CharAt(s2, k) \notin {} \cup {NUL}
      BY <2>8, <2>9
    <3> QED
      BY <1>13, <3>1, <3>2, SeekIs
  <2>11. SubSeq(s2, p, end - 1) = SubSeq(text, p, end - 1)
    <3>1. p \in Int /\ end - 1 \in Int /\ p <= end - 1
      BY <1>1, <2>1, <2>4
    <3> DEFINE c == end - 1
    <3>2. \A k \in p .. c : s2[k] = text[k] /\ text[k] \in Bytes
      BY <1>1, <2>5, <2>8
    <3> HIDE DEF c
    <3>3. /\ SubSeq(s2, p, c) \in Seq(Bytes) /\ Len(SubSeq(s2, p, c)) = c - p + 1
          /\ \A j \in 1 .. c - p + 1 : SubSeq(s2, p, c)[j] = s2[p + j - 1]
      BY <3>1, <3>2, SubSeqProperties DEF c
    <3>4. /\ SubSeq(text, p, c) \in Seq(Bytes) /\ Len(SubSeq(text, p, c)) = c - p + 1
          /\ \A j \in 1 .. c - p + 1 : SubSeq(text, p, c)[j] = text[p + j - 1]
      BY <3>1, <3>2, SubSeqProperties DEF c
    <3>5. \A j \in 1 .. c - p + 1 : p + j - 1 \in p .. c
      BY <3>1 DEF c
    <3>6. SubSeq(s2, p, c) = SubSeq(text, p, c)
      BY <3>2, <3>3, <3>4, <3>5, SeqEqual
    <3> QED
      BY <3>6 DEF c
  <2>12. IsToken(text, s2, p)
    BY <2>3, <2>7, <2>10, <2>11 DEF IsToken
  <2>13. \A k \in q .. p - 1 : k \notin NameStarts(text)
    <3> TAKE k \in q .. p - 1
    <3>1. k \in 1 .. N
      BY <1>1, <1>3, <2>1
    <3> QED
      BY <1>4, <1>9, <1>10, <3>1 DEF NameStarts
  <2>14. \A k \in p + 1 .. q2 - 1 : k \notin NameStarts(text)
    <3> TAKE k \in p + 1 .. q2 - 1
    <3>1. CASE k \in p + 1 .. end - 1
      <4>1. k - 1 \in p .. end - 1 /\ k # 1
        BY <1>1, <1>6, <2>1, <3>1
      <4> QED
        BY <2>5, <4>1 DEF NameStarts
    <3>2. CASE k \notin p + 1 .. end - 1
      <4>1. CharAt(s, end) = "/" /\ k = end
        BY <1>1, <1>6, <1>12, <2>1, <3>2
      <4> QED
        BY <1>12, <4>1 DEF NameStarts
    <3> QED
      BY <3>1, <3>2
  <2>15. /\ q - 1 \in Int /\ q2 - 1 \in Int /\ p <= q2 - 1 /\ q - 1 <= p /\ (q - 1) + 1 = q
    BY <1>1, <1>3, <1>6, <1>12, <2>1, <2>4
  <2>16. NamesUpTo(text, p) = NamesUpTo(text, q - 1) + 1
    <3>1. p \in (q - 1) + 1 .. p /\ \A k \in (q - 1) + 1 .. p : k = p \/ k \notin NameStarts(text)
      BY <2>1, <2>13, <2>15
    <3> QED
      BY <1>1, <2>1, <2>3, <2>15, <3>1, CountGrows
  <2>17. NamesUpTo(text, p) = NamesUpTo(text, q2 - 1)
    BY <1>1, <2>1, <2>14, <2>15, CountStays
  <2> QED
    BY <2>12, <2>16, <2>17
<1>16. ASSUME ~ found
       PROVE  NamesUpTo(text, Len(text)) = NamesUpTo(text, q - 1)
  <2>1. p > m
    BY <1>1, <1>2, <1>3, <1>4, <1>11, <1>16
  <2>2. \A k \in (q - 1) + 1 .. N : k \notin NameStarts(text)
    <3> TAKE k \in (q - 1) + 1 .. N
    <3>1. k \in 1 .. N /\ (k \in q .. p - 1 \/ k \in m + 1 .. N)
      BY <1>1, <1>2, <1>3, <1>4, <2>1
    <3>2. CASE k \in q .. p - 1
      BY <1>4, <1>9, <1>10, <3>1, <3>2 DEF NameStarts
    <3>3. CASE k \in m + 1 .. N
      BY <1>2, <3>3 DEF NameStarts
    <3> QED
      BY <3>1, <3>2, <3>3
  <2>3. q - 1 \in Int /\ N \in Int /\ q - 1 <= N
    BY <1>1, <1>3
  <2>4. NamesUpTo(text, q - 1) = NamesUpTo(text, N)
    BY <1>1, <2>2, <2>3, CountStays
  <2> QED
    BY <2>4 DEF N
<1> QED
  BY <1>14, <1>15, <1>16 DEF Found

-------------------------------------------------------------------------------
(* A path and the text that it is trimmed to have the same names *)

\* The text is the path without the d slashes that it begins with.
TrimsTo(path, text) ==
  /\ text \in Seq(Chars)
  /\ text # <<>> => text[1] # "/"
  /\ \E d \in Nat :
       /\ Len(path) = d + Len(text)
       /\ \A k \in 1 .. d : path[k] = "/"
       /\ \A k \in 1 .. Len(text) : text[k] = path[d + k]

\* That is what Trimmed makes of a path.
LEMMA TrimmedIs ==
  ASSUME NEW path \in Seq(Chars)
  PROVE  TrimsTo(path, Trimmed(path))
<1> DEFINE text == Trimmed(path)
<1> DEFINE L == Len(path)
           j == Skip(path, 1)
<1>1. L \in Nat /\ path \in Seq(Bytes) /\ 1 \in 1 .. L + 1 /\ \A k \in 1 .. L : path[k] \in Chars
  BY DEF Bytes
<1>2. /\ j \in 1 .. L + 1 /\ CharAt(path, j) # "/"
      /\ \A k \in 1 .. j - 1 : CharAt(path, k) = "/"
  BY <1>1, SkipIs
<1>3. text = SubSeq(path, j, L)
  BY DEF Trimmed
<1> HIDE DEF j, L
<1>4. j - 1 \in Nat /\ j \in Int /\ L \in Int /\ L - (j - 1) \in Nat
  BY <1>1, <1>2
<1>5. \A k \in j .. L : path[k] \in Chars
  BY <1>1, <1>2
<1>6. /\ SubSeq(path, j, L) \in Seq(Chars)
      /\ Len(SubSeq(path, j, L)) = IF j <= L THEN L - j + 1 ELSE 0
      /\ \A k \in 1 .. L - j + 1 : SubSeq(path, j, L)[k] = path[j + k - 1]
  BY <1>4, <1>5, SubSeqProperties
<1>7. (IF j <= L THEN L - j + 1 ELSE 0) = L - (j - 1) /\ L - j + 1 = L - (j - 1)
  BY <1>1, <1>2
<1>8. /\ text \in Seq(Chars) /\ Len(text) = L - (j - 1)
      /\ \A k \in 1 .. L - (j - 1) : text[k] = path[j + k - 1]
  BY <1>3, <1>6, <1>7
<1>9. L = (j - 1) + Len(text)
  BY <1>1, <1>2, <1>8
<1>10. \A k \in 1 .. j - 1 : path[k] = "/"
  <2> TAKE k \in 1 .. j - 1
  <2>1. k <= L
    BY <1>1, <1>2
  <2> QED
    BY <1>2, <2>1 DEF CharAt, L
<1>11. \A k \in 1 .. Len(text) : text[k] = path[(j - 1) + k]
  <2> TAKE k \in 1 .. Len(text)
  <2>1. k \in 1 .. L - (j - 1) /\ j + k - 1 = (j - 1) + k
    BY <1>4, <1>8
  <2> QED
    BY <1>8, <2>1
<1>12. text # <<>> => text[1] # "/"
  <2> SUFFICES ASSUME text # <<>>
               PROVE  text[1] # "/"
    OBVIOUS
  <2>1. Len(text) \in Nat \ {0}
    BY <1>8, EmptySeq
  <2>2. 1 \in 1 .. Len(text) /\ (j - 1) + 1 = j /\ j <= L
    BY <1>4, <1>8, <2>1
  <2>3. text[1] = path[(j - 1) + 1]
    BY <1>11, <2>2
  <2>4. CharAt(path, j) = path[j]
    BY <2>2 DEF CharAt, L
  <2> QED
    BY <1>2, <2>2, <2>3, <2>4
<1> HIDE DEF text
<1>13. TrimsTo(path, text)
  BY <1>4, <1>8, <1>9, <1>10, <1>11, <1>12 DEF L, TrimsTo
<1> QED
  BY <1>13 DEF text

\* Its names are the names of the path, under the same numbers.
LEMMA TrimmedNames ==
  ASSUME NEW path \in Seq(Chars), NEW text, text = Trimmed(path)
  PROVE  /\ NamesUpTo(path, Len(path)) = NamesUpTo(text, Len(text))
         /\ \A i \in NameStarts(path) : \E p \in NameStarts(text) :
              NamesUpTo(path, i) = NamesUpTo(text, p) /\ NameAt(path, i) = NameAt(text, p)
<1> DEFINE N == Len(text)
           L == Len(path)
<1>0. TrimsTo(path, text)
  BY TrimmedIs
<1>1. PICK d \in Nat : /\ L = d + N
                       /\ \A k \in 1 .. d : path[k] = "/"
                       /\ \A k \in 1 .. N : text[k] = path[d + k]
  BY <1>0 DEF TrimsTo
<1>2. text \in Seq(Chars) /\ (text # <<>> => text[1] # "/")
  BY <1>0 DEF TrimsTo
<1>3. /\ N \in Nat /\ L \in Nat /\ text \in Seq(Bytes) /\ path \in Seq(Bytes)
      /\ (N >= 1 => text[1] # "/")
  BY <1>2 DEF Bytes
<1> HIDE DEF N, L
<1>4. \A p \in 1 .. N : p \in NameStarts(text) <=> d + p \in NameStarts(path)
  <2> TAKE p \in 1 .. N
  <2>1. d + p \in 1 .. L /\ text[p] = path[d + p] /\ p \in Int
    BY <1>1, <1>3
  <2>2. p = 1 => (d + p = 1 \/ path[d + p - 1] = "/") /\ text[p] # "/"
    <3> SUFFICES ASSUME p = 1
                 PROVE  d + p = 1 \/ path[d + p - 1] = "/"
      BY <1>3
    <3>1. d + p - 1 = d /\ (d = 0 \/ d \in 1 .. d)
      OBVIOUS
    <3> QED
      BY <1>1, <3>1
  <2>3. p # 1 => d + p # 1 /\ path[d + p - 1] = text[p - 1]
    <3> SUFFICES ASSUME p # 1
                 PROVE  d + p # 1 /\ path[d + p - 1] = text[p - 1]
      OBVIOUS
    <3>1. d + p # 1 /\ p - 1 \in 1 .. N /\ d + (p - 1) = d + p - 1
      BY <1>3
    <3> QED
      BY <1>1, <3>1
  <2>4. p \in NameStarts(text) <=> text[p] # "/" /\ (p = 1 \/ text[p - 1] = "/")
    BY DEF NameStarts, N
  <2>5. d + p \in NameStarts(path) <=> path[d + p] # "/" /\ (d + p = 1 \/ path[d + p - 1] = "/")
    BY <2>1 DEF NameStarts, L
  <2> QED
    BY <2>1, <2>2, <2>3, <2>4, <2>5
<1>5. \A k \in 1 .. d : k \notin NameStarts(path)
  BY <1>1 DEF NameStarts
<1>6. NamesUpTo(path, d) = 0
  <2>1. NamesUpTo(path, 0) = 0
    <3>1. 0 \in Int
      OBVIOUS
    <3> QED
      BY <1>3, <3>1, CountIs, Zenon
  <2>2. \A k \in 0 + 1 .. d : k \notin NameStarts(path)
    BY <1>5
  <2>3. NamesUpTo(path, 0) = NamesUpTo(path, d)
    BY <1>3, <2>2, CountStays
  <2> QED
    BY <2>1, <2>3
<1>7. \A n \in 0 .. N : NamesUpTo(path, d + n) = NamesUpTo(text, n)
  <2> DEFINE Differ == {n \in 0 .. N : NamesUpTo(path, d + n) # NamesUpTo(text, n)}
  <2>1. SUFFICES ASSUME Differ # {}
                 PROVE  FALSE
    OBVIOUS
  <2>2. Differ \subseteq Nat
    OBVIOUS
  <2>3. PICK n \in Differ : \A y \in Differ : n <= y
    BY <2>1, <2>2, LeastNumber
  <2>4. n # 0
    <3>1. 0 \in Int /\ d + 0 = d
      OBVIOUS
    <3>2. NamesUpTo(text, 0) = 0
      BY <1>3, <3>1, CountIs, Zenon
    <3> QED
      BY <1>6, <2>3, <3>1, <3>2
  <2>5. n \in 1 .. N /\ n - 1 \in 0 .. N /\ ~ (n <= n - 1) /\ n \in Int /\ n - 1 \in Int
    BY <1>3, <2>3, <2>4
  <2>6. NamesUpTo(path, d + (n - 1)) = NamesUpTo(text, n - 1)
    BY <2>3, <2>5
  <2>7. /\ d + (n - 1) \in Int /\ d + n \in Int /\ d + (n - 1) <= d + n /\ n - 1 <= n
        /\ (d + (n - 1)) + 1 .. d + n = {d + n} /\ (n - 1) + 1 .. n = {n}
    BY <2>5
  <2>8. CASE n \in NameStarts(text)
    <3>1. d + n \in NameStarts(path)
      BY <1>4, <2>5, <2>8
    <3>2. NamesUpTo(path, d + n) = NamesUpTo(path, d + (n - 1)) + 1
      BY <1>3, <2>7, <3>1, CountGrows
    <3>3. NamesUpTo(text, n) = NamesUpTo(text, n - 1) + 1
      BY <1>3, <2>5, <2>7, <2>8, CountGrows
    <3> QED
      BY <2>3, <2>6, <3>2, <3>3
  <2>9. CASE n \notin NameStarts(text)
    <3>1. d + n \notin NameStarts(path)
      BY <1>4, <2>5, <2>9
    <3>2. NamesUpTo(path, d + (n - 1)) = NamesUpTo(path, d + n)
      BY <1>3, <2>7, <3>1, CountStays
    <3>3. NamesUpTo(text, n - 1) = NamesUpTo(text, n)
      BY <1>3, <2>5, <2>7, <2>9, CountStays
    <3> QED
      BY <2>3, <2>6, <3>2, <3>3
  <2> QED
    BY <2>8, <2>9
<1>8. ASSUME NEW p \in NameStarts(text)
      PROVE  NameAt(path, d + p) = NameAt(text, p)
  <2>1. p \in 1 .. N
    BY DEF NameStarts, N
  <2>2. PICK e \in p .. N + 1 : (e = N + 1 \/ text[e] = "/") /\ \A k \in p .. e - 1 : text[k] # "/"
    BY <1>3, <2>1, NameHasEnd DEF N
  <2>3. NameAt(text, p) = SubSeq(text, p, e - 1)
    BY <1>3, <2>1, <2>2, NameEnds DEF N
  <2>4. NameAt(path, d + p) = SubSeq(path, d + p, (d + e) - 1)
    <3>1. d + p \in 1 .. L /\ d + e \in d + p .. L + 1 /\ (e = N + 1 => d + e = L + 1)
      BY <1>1, <1>3, <2>1
    <3>2. d + e = L + 1 \/ path[d + e] = "/"
      <4>1. CASE e = N + 1
        BY <3>1, <4>1
      <4>2. CASE e # N + 1
        <5>1. e \in 1 .. N
          BY <1>3, <2>1, <4>2
        <5> QED
          BY <1>1, <2>2, <4>2, <5>1
      <4> QED
        BY <4>1, <4>2
    <3>3. \A k \in d + p .. (d + e) - 1 : path[k] # "/"
      <4> TAKE k \in d + p .. (d + e) - 1
      <4>1. k - d \in p .. e - 1 /\ k - d \in 1 .. N /\ d + (k - d) = k
        BY <1>3, <2>1
      <4> QED
        BY <1>1, <2>2, <4>1
    <3> QED
      BY <1>3, <3>1, <3>2, <3>3, NameEnds DEF L
  <2>5. SubSeq(path, d + p, (d + e) - 1) = SubSeq(text, p, e - 1)
    <3> DEFINE u == SubSeq(path, d + p, (d + e) - 1)
               v == SubSeq(text, p, e - 1)
               c == IF p <= e - 1 THEN e - p ELSE 0
    <3>1. /\ p \in Int /\ e - 1 \in Int /\ d + p \in Int /\ (d + e) - 1 \in Int
          /\ (IF p <= e - 1 THEN (e - 1) - p + 1 ELSE 0) = c
          /\ (IF d + p <= (d + e) - 1 THEN ((d + e) - 1) - (d + p) + 1 ELSE 0) = c
          /\ ((d + e) - 1) - (d + p) + 1 = (e - 1) - p + 1
          /\ \A k \in 1 .. c : k \in 1 .. (e - 1) - p + 1 /\ p + k - 1 \in 1 .. N
                               /\ (d + p) + k - 1 = d + (p + k - 1)
      BY <1>3, <2>1
    <3>2. \A k \in p .. e - 1 : text[k] \in Bytes
      <4>1. \A k \in p .. e - 1 : k \in 1 .. N
        BY <1>3, <2>1
      <4> QED
        BY <1>3, <4>1 DEF N
    <3>3. \A k \in d + p .. (d + e) - 1 : path[k] \in Bytes
      <4>1. \A k \in d + p .. (d + e) - 1 : k \in 1 .. L
        BY <1>1, <1>3, <2>1
      <4> QED
        BY <1>3, <4>1 DEF L
    <3>4. /\ v \in Seq(Bytes) /\ Len(v) = IF p <= e - 1 THEN (e - 1) - p + 1 ELSE 0
          /\ \A k \in 1 .. (e - 1) - p + 1 : v[k] = text[p + k - 1]
      BY <3>1, <3>2, SubSeqProperties
    <3>5. /\ u \in Seq(Bytes)
          /\ Len(u) = IF d + p <= (d + e) - 1 THEN ((d + e) - 1) - (d + p) + 1 ELSE 0
          /\ \A k \in 1 .. ((d + e) - 1) - (d + p) + 1 : u[k] = path[(d + p) + k - 1]
      BY <3>1, <3>3, SubSeqProperties
    <3> HIDE DEF u, v, c
    <3>6. Len(u) = c /\ Len(v) = c
      BY <3>1, <3>4, <3>5
    <3>7. \A k \in 1 .. c : u[k] = v[k]
      <4> TAKE k \in 1 .. c
      <4>1. k \in 1 .. (e - 1) - p + 1 /\ p + k - 1 \in 1 .. N /\ (d + p) + k - 1 = d + (p + k - 1)
        BY <3>1
      <4>2. v[k] = text[p + k - 1]
        BY <3>4, <4>1
      <4>3. u[k] = path[(d + p) + k - 1]
        BY <3>1, <3>5, <4>1
      <4> QED
        BY <1>1, <4>1, <4>2, <4>3
    <3>8. u = v
      BY <3>4, <3>5, <3>6, <3>7, SeqEqual
    <3> QED
      BY <3>8 DEF u, v
  <2> QED
    BY <2>3, <2>4, <2>5
<1>9. ASSUME NEW i \in NameStarts(path)
      PROVE  \E p \in NameStarts(text) :
               NamesUpTo(path, i) = NamesUpTo(text, p) /\ NameAt(path, i) = NameAt(text, p)
  <2>1. i \in 1 .. L /\ i \notin 1 .. d
    BY <1>5 DEF NameStarts, L
  <2>2. i - d \in 1 .. N /\ i - d \in 0 .. N /\ d + (i - d) = i
    BY <1>1, <1>3, <2>1
  <2>3. i - d \in NameStarts(text)
    BY <1>4, <2>2
  <2>4. NamesUpTo(path, d + (i - d)) = NamesUpTo(text, i - d) /\ NameAt(path, d + (i - d)) = NameAt(text, i - d)
    BY <1>7, <1>8, <2>2, <2>3
  <2> QED
    BY <2>2, <2>3, <2>4
<1>10. NamesUpTo(path, L) = NamesUpTo(text, N)
  <2>1. N \in 0 .. N
    BY <1>3
  <2> QED
    BY <1>1, <1>7, <2>1
<1> QED
  BY <1>9, <1>10 DEF L, N

-------------------------------------------------------------------------------
(* The steps of a handler *)

\* A step of a handler keeps what is said of it, and there is no other.
LEMMA SoundStep ==
  ASSUME NEW t, Threads = {t}, handler \in [Threads -> Handlers],
         NEW h \in Handlers, Becomes(t, h), str' \in [Threads -> Seq(Bytes)],
         HandlerSound(t, h, olds', str'[t], live'), state' = "running"
  PROVE  Sound'
<1>1. handler' \in [Threads -> Handlers] /\ handler'[t] = h
  BY DEF Becomes
<1>2. \A u \in Threads : u = t
  OBVIOUS
<1> QED
  BY <1>1, <1>2 DEF Sound

\* A call of strtok on the handler's own string, from a place q in it.
Scannable(t, text, from, q) ==
  from[1] = t /\ from[2] = q /\ Placed(text, str[t], q) /\ <<t, "str">> \in live
StrtokDoes(t, text, q, h) ==
  \E found \in BOOLEAN, p \in Nat, q2 \in Nat, s2 \in Seq(Bytes) :
    /\ Found(text, q, found, p, s2, q2)
    /\ Becomes(t, [h EXCEPT !.tok = IF found THEN <<t, p>> ELSE NULL])
    /\ str' = [str EXCEPT ![t] = s2]
    /\ olds' = <<t, q2>>
    /\ live' = live /\ state' = state

\* Such a call does not crash, and finds the next name.
LEMMA StrtokSteps ==
  ASSUME NEW t \in Threads, str \in [Threads -> Seq(Bytes)], NEW text \in Seq(Chars),
         NEW from, NEW q, Scannable(t, text, from, q), NEW h, strtok(t, from, h)
  PROVE  StrtokDoes(t, text, q, h)
<1> DEFINE s == str[t]
           p == Skip(s, q)
           end == Seek(s, p, {"/"})
           cut == CharAt(s, end) = "/"
           found == CharAt(s, p) # NUL
           s2 == IF cut THEN [s EXCEPT ![end] = NUL] ELSE s
           q2 == IF cut THEN end + 1 ELSE end
<1>1. /\ s \in Seq(Bytes) /\ q \in 1 .. Len(s) + 1 /\ Len(s) \in Nat
      /\ from[1] = t /\ from[2] = q /\ Placed(text, s, q)
  BY DEF Scannable, Placed, IsCopy
<1>2. Readable(from)
  BY <1>1 DEF Scannable, Readable
<1>3. /\ Becomes(t, [h EXCEPT !.tok = IF found THEN <<t, p>> ELSE NULL])
      /\ str' = IF cut THEN [str EXCEPT ![t][end] = NUL] ELSE str
      /\ olds' = <<t, q2>>
      /\ live' = live /\ state' = state
  BY <1>1, <1>2 DEF strtok
<1>4. str' = [str EXCEPT ![t] = s2]
  BY <1>3
<1>5. p \in 1 .. Len(s) + 1 /\ p \in Nat
  <2>1. p \in q .. Len(s) + 1
    BY <1>1, SkipIs
  <2> QED
    BY <1>1, <2>1
<1>6. Scans(s, q, found, p, s2, q2)
  BY DEF Scans
<1> HIDE DEF p, end, cut, found, s2, q2, s
<1>7. found \in BOOLEAN
  BY DEF found
<1>8. Found(text, q, found, p, s2, q2)
  BY <1>1, <1>6, <1>7, ScansFind
<1>9. s2 \in Seq(Bytes) /\ q2 \in Nat
  BY <1>8 DEF Found, Placed, IsCopy
<1> QED
  BY <1>3, <1>4, <1>5, <1>7, <1>8, <1>9 DEF StrtokDoes

\* What Sound says of the one handler.
LEMMA Alone ==
  ASSUME Sound, NEW t, Threads = {t}
  PROVE  /\ t \in Threads /\ state = "running"
         /\ handler \in [Threads -> Handlers] /\ handler[t] \in Handlers
         /\ str \in [Threads -> Seq(Bytes)] /\ str[t] \in Seq(Bytes)
         /\ HandlerSound(t, handler[t], olds, str[t], live)
         /\ Trimmed(handler[t].path) \in Seq(Chars) /\ Trimmed(handler[t].path) \in Seq(Bytes)
<1>1. /\ t \in Threads /\ state = "running"
      /\ handler \in [Threads -> Handlers] /\ handler[t] \in Handlers
      /\ str \in [Threads -> Seq(Bytes)] /\ str[t] \in Seq(Bytes)
      /\ HandlerSound(t, handler[t], olds, str[t], live)
  BY DEF Sound
<1>2. handler[t].path \in Seq(Chars)
  BY <1>1 DEF Handlers
<1>3. Trimmed(handler[t].path) \in Seq(Chars)
  BY <1>2, TrimmedIs DEF TrimsTo
<1>4. Trimmed(handler[t].path) \in Seq(Bytes)
  BY <1>3 DEF Bytes
<1> QED
  BY <1>1, <1>3, <1>4

\* No name has begun before the first character.
LEMMA CountFirst ==
  ASSUME NEW s \in Seq(Bytes)
  PROVE  NamesUpTo(s, 1 - 1) = 0
<1>1. 1 - 1 \in Int /\ 1 - 1 = 0
  OBVIOUS
<1> QED
  BY <1>1, CountIs, Zenon

\* The first call of a pass over the string.
LEMMA StartsOverSound ==
  ASSUME Sound, NEW t, Threads = {t}, StartsOver(t)
  PROVE  Sound'
<1> DEFINE h == handler[t]
           text == Trimmed(h.path)
<1>1. /\ t \in Threads /\ state = "running"
      /\ handler \in [Threads -> Handlers] /\ h \in Handlers
      /\ str \in [Threads -> Seq(Bytes)] /\ text \in Seq(Chars) /\ text \in Seq(Bytes)
      /\ HandlerSound(t, h, olds, str[t], live)
  BY Alone
<1>2. CASE h.pc = "count" /\ strtok(t, <<t, 1>>, At(h, "counting"))
  <2>1. Counting(t, h, text, olds, str[t]) /\ live = Allocated(t, h)
    BY <1>1, <1>2 DEF HandlerSound
  <2>2. text # <<>> /\ h.i = 0 /\ ~ h.array /\ h.name = NULL /\ h.num = 0 /\ Placed(text, str[t], 1)
    BY <1>2, <2>1 DEF Counting
  <2>3. <<t, "str">> \in live
    BY <1>2, <2>1 DEF Allocated
  <2>4. StrtokDoes(t, text, 1, At(h, "counting"))
    <3>1. Scannable(t, text, <<t, 1>>, 1)
      BY <2>2, <2>3 DEF Scannable
    <3> QED
      BY <1>1, <1>2, <3>1, StrtokSteps
  <2>5. PICK found \in BOOLEAN, p \in Nat, q2 \in Nat, s2 \in Seq(Bytes) :
          /\ Found(text, 1, found, p, s2, q2)
          /\ Becomes(t, [At(h, "counting") EXCEPT !.tok = IF found THEN <<t, p>> ELSE NULL])
          /\ str' = [str EXCEPT ![t] = s2]
          /\ olds' = <<t, q2>>
          /\ live' = live /\ state' = state
    BY <2>4 DEF StrtokDoes
  <2> DEFINE h2 == [h EXCEPT !.pc = "counting", !.tok = IF found THEN <<t, p>> ELSE NULL]
  <2>6. Becomes(t, h2) /\ h2 \in Handlers
    BY <1>1, <2>5 DEF At, Handlers
  <2>7. /\ h2.pc = "counting" /\ h2.path = h.path /\ h2.num = 0 /\ h2.i = 0 /\ ~ h2.array
        /\ h2.name = NULL /\ h2.tok = IF found THEN <<t, p>> ELSE NULL
    BY <1>1, <2>2 DEF Handlers
  <2> HIDE DEF h2
  <2>8. found <=> h2.tok # NULL
    BY <1>1, <2>7, DfsPathAssumption
  <2>9. /\ olds' \in {t} \X Nat /\ olds'[2] = q2 /\ str'[t] = s2 /\ str' \in [Threads -> Seq(Bytes)]
    BY <1>1, <2>5
  <2>10. Counting(t, h2, text, olds', s2)
    BY <1>1, <2>2, <2>5, <2>7, <2>8, <2>9, CountFirst DEF Found, Counting
  <2>11. Allocated(t, h2) = Allocated(t, h)
    BY <1>2, <2>2, <2>7 DEF Allocated
  <2>12. HandlerSound(t, h2, olds', str'[t], live')
    BY <2>1, <2>5, <2>7, <2>9, <2>10, <2>11 DEF HandlerSound
  <2> QED
    BY <1>1, <2>5, <2>6, <2>9, <2>12, SoundStep
<1>3. CASE h.pc = "copy" /\ strtok(t, <<t, 1>>, At(h, "copying"))
  <2>1. Copying(t, h, text, olds, str[t]) /\ live = Allocated(t, h)
    BY <1>1, <1>3 DEF HandlerSound
  <2>2. /\ text # <<>> /\ h.i = 0 /\ h.array /\ h.name = NULL /\ Placed(text, str[t], 1)
        /\ h.num = NamesUpTo(text, Len(text)) /\ Len(h.components) = h.num
        /\ h.i <= h.num /\ Holds(h.components, text, h.i)
    BY <1>3, <2>1 DEF Copying
  <2>3. <<t, "str">> \in live
    BY <1>3, <2>1 DEF Allocated
  <2>4. StrtokDoes(t, text, 1, At(h, "copying"))
    <3>1. Scannable(t, text, <<t, 1>>, 1)
      BY <2>2, <2>3 DEF Scannable
    <3> QED
      BY <1>1, <1>3, <3>1, StrtokSteps
  <2>5. PICK found \in BOOLEAN, p \in Nat, q2 \in Nat, s2 \in Seq(Bytes) :
          /\ Found(text, 1, found, p, s2, q2)
          /\ Becomes(t, [At(h, "copying") EXCEPT !.tok = IF found THEN <<t, p>> ELSE NULL])
          /\ str' = [str EXCEPT ![t] = s2]
          /\ olds' = <<t, q2>>
          /\ live' = live /\ state' = state
    BY <2>4 DEF StrtokDoes
  <2> DEFINE h2 == [h EXCEPT !.pc = "copying", !.tok = IF found THEN <<t, p>> ELSE NULL]
  <2>6. Becomes(t, h2) /\ h2 \in Handlers
    BY <1>1, <2>5 DEF At, Handlers
  <2>7. /\ h2.pc = "copying" /\ h2.path = h.path /\ h2.num = h.num /\ h2.i = 0 /\ h2.array
        /\ h2.components = h.components
        /\ h2.name = NULL /\ h2.tok = IF found THEN <<t, p>> ELSE NULL
    BY <1>1, <2>2 DEF Handlers
  <2> HIDE DEF h2
  <2>8. (found <=> h2.tok # NULL) /\ (found => h2.tok[1] = t /\ h2.tok[2] = p)
    BY <1>1, <2>7, DfsPathAssumption
  <2>9. /\ olds' \in {t} \X Nat /\ olds'[2] = q2 /\ str'[t] = s2 /\ str' \in [Threads -> Seq(Bytes)]
    BY <1>1, <2>5
  <2>10. Copying(t, h2, text, olds', s2)
    BY <1>1, <2>2, <2>5, <2>7, <2>8, <2>9, CountFirst DEF Found, Copying
  <2>11. Allocated(t, h2) = Allocated(t, h)
    BY <1>3, <2>2, <2>7 DEF Allocated
  <2>12. HandlerSound(t, h2, olds', str'[t], live')
    BY <2>1, <2>5, <2>7, <2>9, <2>10, <2>11 DEF HandlerSound
  <2> QED
    BY <1>1, <2>5, <2>6, <2>9, <2>12, SoundStep
<1> QED
  BY <1>2, <1>3 DEF StartsOver

\* The next token is counted.
LEMMA CountsSound ==
  ASSUME Sound, NEW t, Threads = {t}, Counts(t)
  PROVE  Sound'
<1> DEFINE h == handler[t]
           text == Trimmed(h.path)
           h1 == [h EXCEPT !.num = h.num + 1]
<1>1. /\ t \in Threads /\ state = "running"
      /\ handler \in [Threads -> Handlers] /\ h \in Handlers
      /\ str \in [Threads -> Seq(Bytes)] /\ text \in Seq(Chars) /\ text \in Seq(Bytes)
      /\ HandlerSound(t, h, olds, str[t], live)
  BY Alone
<1>2. h.pc = "counting" /\ h.tok # NULL /\ strtok(t, olds, h1)
  BY DEF Counts
<1>3. Counting(t, h, text, olds, str[t]) /\ live = Allocated(t, h)
  BY <1>1, <1>2 DEF HandlerSound
<1>4. /\ text # <<>> /\ h.i = 0 /\ ~ h.array /\ h.name = NULL
      /\ olds \in {t} \X Nat /\ Placed(text, str[t], olds[2])
      /\ h.num + 1 = NamesUpTo(text, olds[2] - 1)
  BY <1>2, <1>3 DEF Counting
<1>5. StrtokDoes(t, text, olds[2], h1)
  <2>1. <<t, "str">> \in live
    BY <1>2, <1>3 DEF Allocated
  <2>2. Scannable(t, text, olds, olds[2])
    BY <1>4, <2>1 DEF Scannable
  <2> QED
    BY <1>1, <1>2, <2>2, StrtokSteps
<1>6. PICK found \in BOOLEAN, p \in Nat, q2 \in Nat, s2 \in Seq(Bytes) :
        /\ Found(text, olds[2], found, p, s2, q2)
        /\ Becomes(t, [h1 EXCEPT !.tok = IF found THEN <<t, p>> ELSE NULL])
        /\ str' = [str EXCEPT ![t] = s2]
        /\ olds' = <<t, q2>>
        /\ live' = live /\ state' = state
  BY <1>5 DEF StrtokDoes
<1> DEFINE h2 == [h1 EXCEPT !.tok = IF found THEN <<t, p>> ELSE NULL]
<1>7. Becomes(t, h2) /\ h2 \in Handlers
  <2>1. h1 \in Handlers
    <3> DEFINE n == h.num + 1
    <3>1. n \in Nat
      <4>1. h.num \in Nat
        BY <1>1 DEF Handlers
      <4> QED
        BY <4>1
    <3> HIDE DEF n
    <3>2. [h EXCEPT !.num = n] \in Handlers
      BY <1>1, <3>1 DEF Handlers
    <3> QED
      BY <3>2 DEF n
  <2>2. (IF found THEN <<t, p>> ELSE NULL) \in (Threads \X Nat) \cup {NULL}
    BY <1>1
  <2> HIDE DEF h1
  <2> QED
    BY <1>6, <2>1, <2>2 DEF Handlers
<1>8. /\ h2.pc = "counting" /\ h2.path = h.path /\ h2.num = h.num + 1 /\ h2.i = 0 /\ ~ h2.array
      /\ h2.name = NULL /\ h2.tok = IF found THEN <<t, p>> ELSE NULL
  BY <1>1, <1>2, <1>4 DEF Handlers
<1> HIDE DEF h2
<1>9. found <=> h2.tok # NULL
  BY <1>1, <1>8, DfsPathAssumption
<1>10. /\ olds' \in {t} \X Nat /\ olds'[2] = q2 /\ str'[t] = s2 /\ str' \in [Threads -> Seq(Bytes)]
  BY <1>1, <1>6
<1>11. Counting(t, h2, text, olds', s2)
  BY <1>1, <1>4, <1>6, <1>8, <1>9, <1>10 DEF Found, Counting
<1>12. Allocated(t, h2) = Allocated(t, h)
  BY <1>2, <1>4, <1>8 DEF Allocated
<1>13. HandlerSound(t, h2, olds', str'[t], live')
  BY <1>3, <1>6, <1>8, <1>10, <1>11, <1>12 DEF HandlerSound
<1> QED
  BY <1>1, <1>6, <1>7, <1>10, <1>13, SoundStep

\* The next token is looked for.
LEMMA CopiesNextSound ==
  ASSUME Sound, NEW t, Threads = {t}, CopiesNext(t)
  PROVE  Sound'
<1> DEFINE h == handler[t]
           text == Trimmed(h.path)
           h1 == At(h, "copying")
<1>1. /\ t \in Threads /\ state = "running"
      /\ handler \in [Threads -> Handlers] /\ h \in Handlers
      /\ str \in [Threads -> Seq(Bytes)] /\ text \in Seq(Chars) /\ text \in Seq(Bytes)
      /\ HandlerSound(t, h, olds, str[t], live)
  BY Alone
<1>2. h.pc = "copied" /\ strtok(t, olds, h1)
  BY DEF CopiesNext
<1>3. Copying(t, h, text, olds, str[t]) /\ live = Allocated(t, h)
  BY <1>1, <1>2 DEF HandlerSound
<1>4. /\ text # <<>> /\ h.array /\ h.name = NULL
      /\ h.num = NamesUpTo(text, Len(text)) /\ Len(h.components) = h.num
      /\ h.i <= h.num /\ Holds(h.components, text, h.i)
      /\ olds \in {t} \X Nat /\ Placed(text, str[t], olds[2])
      /\ NamesUpTo(text, olds[2] - 1) = h.i
  BY <1>2, <1>3 DEF Copying
<1>5. StrtokDoes(t, text, olds[2], h1)
  <2>1. <<t, "str">> \in live
    BY <1>2, <1>3 DEF Allocated
  <2>2. Scannable(t, text, olds, olds[2])
    BY <1>4, <2>1 DEF Scannable
  <2> QED
    BY <1>1, <1>2, <2>2, StrtokSteps
<1>6. PICK found \in BOOLEAN, p \in Nat, q2 \in Nat, s2 \in Seq(Bytes) :
        /\ Found(text, olds[2], found, p, s2, q2)
        /\ Becomes(t, [h1 EXCEPT !.tok = IF found THEN <<t, p>> ELSE NULL])
        /\ str' = [str EXCEPT ![t] = s2]
        /\ olds' = <<t, q2>>
        /\ live' = live /\ state' = state
  BY <1>5 DEF StrtokDoes
<1> DEFINE h2 == [h EXCEPT !.pc = "copying", !.tok = IF found THEN <<t, p>> ELSE NULL]
<1>7. Becomes(t, h2) /\ h2 \in Handlers
  BY <1>1, <1>6 DEF At, Handlers
<1>8. /\ h2.pc = "copying" /\ h2.path = h.path /\ h2.num = h.num /\ h2.i = h.i /\ h2.array
      /\ h2.components = h.components
      /\ h2.name = NULL /\ h2.tok = IF found THEN <<t, p>> ELSE NULL
  BY <1>1, <1>4 DEF Handlers
<1> HIDE DEF h2
<1>9. (found <=> h2.tok # NULL) /\ (found => h2.tok[1] = t /\ h2.tok[2] = p)
  BY <1>1, <1>8, DfsPathAssumption
<1>10. /\ olds' \in {t} \X Nat /\ olds'[2] = q2 /\ str'[t] = s2 /\ str' \in [Threads -> Seq(Bytes)]
  BY <1>1, <1>6
<1>11. Copying(t, h2, text, olds', s2)
  BY <1>1, <1>4, <1>6, <1>8, <1>9, <1>10 DEF Found, Copying
<1>12. Allocated(t, h2) = Allocated(t, h)
  BY <1>2, <1>4, <1>8 DEF Allocated
<1>13. HandlerSound(t, h2, olds', str'[t], live')
  BY <1>3, <1>6, <1>8, <1>10, <1>11, <1>12 DEF HandlerSound
<1> QED
  BY <1>1, <1>6, <1>7, <1>10, <1>13, SoundStep

\* A handler is called with a path.
LEMMA BeginsSound ==
  ASSUME Sound, NEW t, Threads = {t}, Begins(t)
  PROVE  Sound'
<1>1. /\ t \in Threads /\ state = "running"
      /\ handler \in [Threads -> Handlers]
      /\ str \in [Threads -> Seq(Bytes)] /\ str[t] \in Seq(Bytes)
      /\ HandlerSound(t, handler[t], olds, str[t], live)
  BY Alone
<1>2. handler[t].pc = "idle" /\ live = {}
  BY <1>1 DEF Begins, HandlerSound
<1>3. PICK op \in {"find", "pop"}, path \in Strings :
        LET h == [Idle EXCEPT !.op = op, !.path = path]
            text == Trimmed(path)
        IN  \/ FailsEarly(t, h)
            \/ /\ text = <<>>
               /\ Becomes(t, At(h, "parsed"))
               /\ live' = live \cup {<<t, "path">>}
               /\ UNCHANGED <<olds, str, state>>
            \/ /\ text # <<>>
               /\ Becomes(t, At(h, "count"))
               /\ str' = [str EXCEPT ![t] = text]
               /\ live' = live \cup {<<t, "path">>, <<t, "str">>}
               /\ UNCHANGED <<olds, state>>
  BY DEF Begins
<1> DEFINE h == [Idle EXCEPT !.op = op, !.path = path]
           text == Trimmed(path)
<1>4. /\ path \in Seq(Chars) /\ text \in Seq(Chars) /\ text \in Seq(Bytes) /\ Len(text) \in Nat
  <2>1. path \in Seq(Chars)
    BY DfsPathAssumption
  <2>2. text \in Seq(Chars)
    BY <2>1, TrimmedIs DEF TrimsTo
  <2> QED
    BY <2>1, <2>2 DEF Bytes
<1>5. /\ h \in Handlers /\ h.path = path /\ h.num = 0 /\ h.i = 0 /\ ~ h.array
      /\ h.components = <<>> /\ h.name = NULL /\ Len(h.components) = 0
  <2>1. Idle \in Handlers
    <3>1. <<>> \in Seq(Chars) /\ <<>> \in Seq(Seq(Chars) \cup {NULL})
      BY EmptySeq
    <3> QED
      BY <3>1 DEF Idle, Handlers
  <2>2. h \in Handlers
    BY <1>4, <2>1 DEF Handlers
  <2>3. h.path = path /\ h.num = 0 /\ h.i = 0 /\ ~ h.array
    BY DEF Idle
  <2>4. h.components = <<>> /\ h.name = NULL /\ Len(<<>>) = 0
    BY EmptySeq DEF Idle
  <2> QED
    BY <2>2, <2>3, <2>4
<1> HIDE DEF h, text
<1>6. CASE FailsEarly(t, h)
  <2> DEFINE h2 == [h EXCEPT !.pc = "returned", !.failed = TRUE]
  <2>1. /\ Becomes(t, h2) /\ UNCHANGED <<olds, str, live, state>>
    BY <1>6 DEF FailsEarly
  <2>2. h2 \in Handlers /\ h2.pc = "returned"
    BY <1>4, <1>5 DEF Handlers
  <2> HIDE DEF h2
  <2>3. HandlerSound(t, h2, olds', str'[t], live')
    BY <1>2, <2>1, <2>2 DEF HandlerSound
  <2> QED
    BY <1>1, <2>1, <2>2, <2>3, SoundStep
<1>7. CASE /\ text = <<>>
           /\ Becomes(t, At(h, "parsed"))
           /\ live' = live \cup {<<t, "path">>}
           /\ UNCHANGED <<olds, str, state>>
  <2> DEFINE h2 == [h EXCEPT !.pc = "parsed"]
  <2>1. Becomes(t, h2)
    BY <1>7 DEF At
  <2>2. /\ h2 \in Handlers /\ h2.pc = "parsed" /\ h2.path = path /\ h2.num = 0
        /\ h2.components = <<>> /\ h2.name = NULL /\ ~ h2.array
    BY <1>4, <1>5 DEF Handlers
  <2> HIDE DEF h2
  <2>3. NamesUpTo(text, Len(text)) = 0 /\ NameStarts(text) = {}
    <3>1. Len(text) = 0 /\ 0 \in Int
      BY <1>5, <1>7
    <3>2. NamesUpTo(text, 0) = 0
      BY <1>4, <3>1, CountIs, Zenon
    <3> QED
      BY <3>1, <3>2 DEF NameStarts
  <2>4. Parsed(t, h2, text)
    BY <1>5, <2>2, <2>3 DEF Parsed, Holds
  <2>5. Allocated(t, h2) = {<<t, "path">>}
    BY <2>2 DEF Allocated, Components
  <2>6. HandlerSound(t, h2, olds', str'[t], live')
    BY <1>2, <1>7, <2>2, <2>4, <2>5 DEF HandlerSound, text
  <2> QED
    BY <1>1, <1>7, <2>1, <2>2, <2>6, SoundStep
<1>8. CASE /\ text # <<>>
           /\ Becomes(t, At(h, "count"))
           /\ str' = [str EXCEPT ![t] = text]
           /\ live' = live \cup {<<t, "path">>, <<t, "str">>}
           /\ UNCHANGED <<olds, state>>
  <2> DEFINE h2 == [h EXCEPT !.pc = "count"]
  <2>1. Becomes(t, h2)
    BY <1>8 DEF At
  <2>2. /\ h2 \in Handlers /\ h2.pc = "count" /\ h2.path = path /\ h2.num = 0 /\ h2.i = 0
        /\ h2.name = NULL /\ ~ h2.array
    BY <1>4, <1>5 DEF Handlers
  <2> HIDE DEF h2
  <2>3. str'[t] = text /\ str' \in [Threads -> Seq(Bytes)]
    BY <1>1, <1>4, <1>8
  <2>4. Placed(text, text, 1)
    <3>1. StrLen(text) \in 0 .. Len(text)
      BY <1>4, StrLenIs
    <3> QED
      BY <1>4, <3>1 DEF Placed, IsCopy
  <2>5. Counting(t, h2, text, olds', text)
    BY <1>8, <2>2, <2>4 DEF Counting
  <2>6. Allocated(t, h2) = {<<t, "path">>, <<t, "str">>}
    BY <2>2 DEF Allocated, Components
  <2>7. HandlerSound(t, h2, olds', str'[t], live')
    BY <1>2, <1>8, <2>2, <2>3, <2>5, <2>6 DEF HandlerSound, text
  <2> QED
    BY <1>1, <1>8, <2>1, <2>2, <2>3, <2>7, SoundStep
<1> QED
  BY <1>3, <1>6, <1>7, <1>8 DEF h, text

\* What is freed with a path whose components are all copied.
LEMMA DestroysAll ==
  ASSUME NEW t, NEW h, \A j \in 1 .. h.num : h.components[j] # NULL
  PROVE  dfs_destroy_path(t, h) =
           Components(t, h.num) \cup (IF h.array THEN {<<t, "components">>} ELSE {}) \cup {<<t, "path">>}
<1>1. {j \in 1 .. h.num : h.components[j] # NULL} = 1 .. h.num
  OBVIOUS
<1> QED
  BY <1>1 DEF dfs_destroy_path, Components

\* The things that are allocated are different.
LEMMA Things ==
  ASSUME NEW t, NEW n
  PROVE  /\ <<t, "path">> # <<t, "str">> /\ <<t, "components">> # <<t, "str">>
         /\ <<t, "path">> # <<t, "components">>
         /\ <<t, "str">> \notin Components(t, n) /\ <<t, "path">> \notin Components(t, n)
         /\ <<t, "components">> \notin Components(t, n)
         /\ \A j : <<t, "component", j>> \in Components(t, n) <=> j \in 1 .. n
         /\ \A j : /\ <<t, "component", j>> # <<t, "str">> /\ <<t, "component", j>> # <<t, "path">>
                   /\ <<t, "component", j>> # <<t, "components">>
<1>1. <<t, "path">> # <<t, "str">> /\ <<t, "components">> # <<t, "str">> /\ <<t, "path">> # <<t, "components">>
  OBVIOUS
<1>2. \A j : /\ <<t, "component", j>> # <<t, "str">> /\ <<t, "component", j>> # <<t, "path">>
             /\ <<t, "component", j>> # <<t, "components">>
  OBVIOUS
<1>3. \A j, k : <<t, "component", j>> = <<t, "component", k>> => j = k
  OBVIOUS
<1> QED
  BY <1>1, <1>2, <1>3 DEF Components

\* Everything is allocated before the second pass.
LEMMA AllocatesSound ==
  ASSUME Sound, NEW t, Threads = {t}, Allocates(t)
  PROVE  Sound'
<1> DEFINE h == handler[t]
           text == Trimmed(h.path)
<1>1. /\ t \in Threads /\ state = "running"
      /\ handler \in [Threads -> Handlers] /\ h \in Handlers
      /\ str \in [Threads -> Seq(Bytes)] /\ str[t] \in Seq(Bytes)
      /\ text \in Seq(Chars) /\ text \in Seq(Bytes)
      /\ HandlerSound(t, h, olds, str[t], live)
  BY Alone
<1>2. h.pc = "counting" /\ h.tok = NULL /\ olds' = olds
  BY DEF Allocates
<1>3. Counting(t, h, text, olds, str[t]) /\ live = Allocated(t, h)
  BY <1>1, <1>2 DEF HandlerSound
<1>4. /\ text # <<>> /\ h.i = 0 /\ ~ h.array /\ h.name = NULL
      /\ Placed(text, str[t], olds[2]) /\ h.num = NamesUpTo(text, Len(text)) /\ h.num \in Nat
  BY <1>1, <1>2, <1>3 DEF Counting, Handlers
<1>5. live = {<<t, "path">>, <<t, "str">>}
  BY <1>2, <1>3, <1>4 DEF Allocated, Components
<1>6. CASE /\ Becomes(t, [h EXCEPT !.pc = "copy", !.array = TRUE,
                                  !.components = [j \in 1 .. h.num |-> NULL]])
           /\ live' = live \cup {<<t, "components">>}
           /\ str' = [str EXCEPT ![t] = [j \in DOMAIN str[t] |->
                                           IF j <= StrLen(text) THEN text[j] ELSE str[t][j]]]
           /\ state' = state
  <2> DEFINE c == [j \in 1 .. h.num |-> NULL]
             h2 == [h EXCEPT !.pc = "copy", !.array = TRUE, !.components = c]
             s2 == [j \in DOMAIN str[t] |-> IF j <= StrLen(text) THEN text[j] ELSE str[t][j]]
  <2>1. c \in Seq(Seq(Chars) \cup {NULL}) /\ Len(c) = h.num
    BY <1>4
  <2>2. Becomes(t, h2)
    BY <1>6
  <2> HIDE DEF c
  <2>3. /\ h2 \in Handlers /\ h2.pc = "copy" /\ h2.path = h.path /\ h2.num = h.num /\ h2.i = 0
        /\ h2.array /\ h2.components = c /\ h2.name = NULL
    BY <1>1, <1>4, <2>1 DEF Handlers
  <2>4. /\ StrLen(text) \in 0 .. Len(text) /\ Len(text) \in Nat /\ DOMAIN str[t] = 1 .. Len(text)
        /\ \A k \in StrLen(text) + 1 .. Len(text) : text[k] = "/"
        /\ \A k \in 1 .. Len(text) : /\ str[t][k] = text[k] \/ (text[k] = "/" /\ str[t][k] = NUL)
                                     /\ str[t][k] \in Bytes /\ text[k] \in Bytes
    <3>1. Len(str[t]) = Len(text) /\ \A k \in 1 .. Len(text) : str[t][k] = text[k] \/ (text[k] = "/" /\ str[t][k] = NUL)
      BY <1>4 DEF Placed, IsCopy
    <3>2. StrLen(text) \in 0 .. Len(text) /\ \A k \in StrLen(text) + 1 .. Len(text) : text[k] = "/"
      BY <1>1, StrLenIs
    <3>3. /\ Len(text) \in Nat /\ DOMAIN str[t] = 1 .. Len(str[t])
          /\ \A k \in 1 .. Len(text) : text[k] \in Bytes
          /\ \A k \in 1 .. Len(str[t]) : str[t][k] \in Bytes
      BY <1>1
    <3> QED
      BY <3>1, <3>2, <3>3
  <2>5. s2 \in Seq(Bytes) /\ Len(s2) = Len(text)
    BY <2>4
  <2>6. \A k \in 1 .. Len(text) : s2[k] = IF k <= StrLen(text) THEN text[k] ELSE str[t][k]
    BY <2>4
  <2>7. str'[t] = s2 /\ str' \in [Threads -> Seq(Bytes)]
    BY <1>1, <1>6, <2>5
  <2> HIDE DEF h2, s2
  <2>8. Placed(text, s2, 1)
    <3>1. IsCopy(text, s2)
      BY <2>4, <2>5, <2>6 DEF IsCopy
    <3>2. \A k \in 1 .. StrLen(text) : k \in 1 .. Len(text) /\ k <= StrLen(text)
      BY <2>4
    <3>3. 1 \in 1 .. Len(text) + 1
      BY <2>4
    <3> QED
      BY <2>6, <3>1, <3>2, <3>3 DEF Placed
  <2>9. Holds(c, text, 0)
    <3>1. \A p \in NameStarts(text) : ~ (NamesUpTo(text, p) <= 0)
      BY <1>1, StartCounts
    <3> QED
      BY <3>1 DEF Holds
  <2>10. Copying(t, h2, text, olds', s2)
    BY <1>4, <2>1, <2>3, <2>8, <2>9 DEF Copying
  <2>11. Allocated(t, h2) = {<<t, "path">>, <<t, "str">>, <<t, "components">>}
    BY <2>3 DEF Allocated, Components
  <2>12. HandlerSound(t, h2, olds', str'[t], live')
    BY <1>5, <1>6, <2>3, <2>7, <2>10, <2>11 DEF HandlerSound
  <2> QED
    BY <1>1, <1>6, <2>2, <2>3, <2>7, <2>12, SoundStep
<1>7. CASE /\ Becomes(t, [h EXCEPT !.pc = "returned", !.num = 0, !.failed = TRUE])
           /\ Frees({<<t, "path">>})
           /\ str' = str
  <2> DEFINE h2 == [h EXCEPT !.pc = "returned", !.num = 0, !.failed = TRUE]
  <2>1. live' = {<<t, "str">>} /\ state' = state
    BY <1>5, <1>7, Things DEF Frees
  <2>2. Becomes(t, h2)
    BY <1>7
  <2>3. h2 \in Handlers /\ h2.pc = "returned" /\ h2.failed
    BY <1>1 DEF Handlers
  <2> HIDE DEF h2
  <2>4. HandlerSound(t, h2, olds', str'[t], live')
    BY <2>1, <2>3 DEF HandlerSound
  <2> QED
    BY <1>1, <1>7, <2>1, <2>2, <2>3, <2>4, SoundStep
<1> QED
  BY <1>6, <1>7 DEF Allocates

\* All are copied: the copy of the string is freed.
LEMMA ParsesSound ==
  ASSUME Sound, NEW t, Threads = {t}, Parses(t)
  PROVE  Sound'
<1> DEFINE h == handler[t]
           text == Trimmed(h.path)
           h2 == [h EXCEPT !.pc = "parsed"]
<1>1. /\ t \in Threads /\ state = "running"
      /\ handler \in [Threads -> Handlers] /\ h \in Handlers
      /\ str \in [Threads -> Seq(Bytes)]
      /\ HandlerSound(t, h, olds, str[t], live)
  BY Alone
<1>2. h.pc = "copying" /\ h.tok = NULL /\ Frees({<<t, "str">>}) /\ Becomes(t, h2) /\ olds' = olds /\ str' = str
  BY DEF Parses, At
<1>3. Copying(t, h, text, olds, str[t]) /\ live = Allocated(t, h)
  BY <1>1, <1>2 DEF HandlerSound
<1>4. /\ h.array /\ h.name = NULL /\ h.num = NamesUpTo(text, Len(text)) /\ Len(h.components) = h.num
      /\ h.i = h.num /\ Holds(h.components, text, h.num)
  BY <1>2, <1>3 DEF Copying
<1>5. live = {<<t, "path">>} \cup {<<t, "str">>} \cup {<<t, "components">>} \cup Components(t, h.num)
  BY <1>2, <1>3, <1>4 DEF Allocated
<1>6. /\ live' = {<<t, "path">>} \cup {<<t, "components">>} \cup Components(t, h.num)
      /\ state' = state
  BY <1>2, <1>5, Things DEF Frees
<1>7. /\ h2 \in Handlers /\ h2.pc = "parsed" /\ h2.path = h.path /\ h2.num = h.num
      /\ h2.array /\ h2.components = h.components /\ h2.name = NULL
  BY <1>1, <1>4 DEF Handlers
<1> HIDE DEF h2
<1>8. Parsed(t, h2, text)
  BY <1>4, <1>7 DEF Parsed
<1>9. Allocated(t, h2) = {<<t, "path">>} \cup {<<t, "components">>} \cup Components(t, h.num)
  BY <1>7 DEF Allocated
<1>10. HandlerSound(t, h2, olds', str'[t], live')
  BY <1>6, <1>7, <1>8, <1>9 DEF HandlerSound
<1> QED
  BY <1>1, <1>2, <1>6, <1>7, <1>10, SoundStep

\* The next call is taken when everything is freed.
LEMMA AnswersSound ==
  ASSUME Sound, NEW t, Threads = {t}, Answers(t)
  PROVE  Sound'
<1> DEFINE h == handler[t]
<1>1. /\ t \in Threads /\ state = "running"
      /\ handler \in [Threads -> Handlers] /\ h \in Handlers
      /\ str \in [Threads -> Seq(Bytes)]
      /\ HandlerSound(t, h, olds, str[t], live)
  BY Alone
<1>2. /\ h.pc = "returned" /\ Unfreed(t) = {} /\ Becomes(t, Idle)
      /\ UNCHANGED <<olds, str, live, state>>
  BY DEF Answers
<1>3. live = {}
  <2>1. live = {} \/ live = {<<t, "str">>} \/ (h.name # NULL /\ live = {h.name})
    BY <1>1, <1>2 DEF HandlerSound
  <2>2. h.name # NULL => h.name[1] = t
    BY <1>1 DEF Handlers
  <2> QED
    BY <1>2, <2>1, <2>2 DEF Unfreed
<1>4. Idle \in Handlers /\ Idle.pc = "idle"
  <2>1. <<>> \in Seq(Chars) /\ <<>> \in Seq(Seq(Chars) \cup {NULL})
    BY EmptySeq
  <2> QED
    BY <2>1 DEF Idle, Handlers
<1>5. HandlerSound(t, Idle, olds', str'[t], live')
  BY <1>2, <1>3, <1>4 DEF HandlerSound
<1> QED
  BY <1>1, <1>2, <1>4, <1>5, SoundStep

\* A name is made of the characters of paths.
LEMMA NameIsText ==
  ASSUME NEW s \in Seq(Chars), NEW p \in NameStarts(s)
  PROVE  NameAt(s, p) \in Seq(Chars)
<1>1. s \in Seq(Bytes) /\ p \in 1 .. Len(s) /\ Len(s) \in Nat
  BY DEF Bytes, NameStarts
<1>2. PICK e \in p .. Len(s) + 1 : /\ e = Len(s) + 1 \/ s[e] = "/"
                                   /\ \A k \in p .. e - 1 : s[k] # "/"
  BY <1>1, NameHasEnd
<1>3. NameAt(s, p) = SubSeq(s, p, e - 1)
  BY <1>1, <1>2, NameEnds
<1>4. p \in Int /\ e - 1 \in Int /\ \A k \in p .. e - 1 : k \in 1 .. Len(s)
  BY <1>1
<1>5. \A k \in p .. e - 1 : s[k] \in Chars
  BY <1>4
<1>6. SubSeq(s, p, e - 1) \in Seq(Chars)
  BY <1>4, <1>5, SubSeqProperties
<1> QED
  BY <1>3, <1>6

\* The name that begins at p is copied behind those before it.
LEMMA HoldsNext ==
  ASSUME NEW text \in Seq(Chars), NEW c \in Seq(Seq(Chars) \cup {NULL}), NEW p \in NameStarts(text),
         NEW i \in Nat, i < Len(c), NamesUpTo(text, p) = i + 1, Holds(c, text, i)
  PROVE  /\ [c EXCEPT ![i + 1] = NameAt(text, p)] \in Seq(Seq(Chars) \cup {NULL})
         /\ Len([c EXCEPT ![i + 1] = NameAt(text, p)]) = Len(c)
         /\ Holds([c EXCEPT ![i + 1] = NameAt(text, p)], text, i + 1)
<1> DEFINE name == NameAt(text, p)
           c2 == [c EXCEPT ![i + 1] = name]
<1>1. name \in Seq(Chars) /\ name # NULL /\ text \in Seq(Bytes)
  BY NameIsText, DfsPathAssumption DEF Bytes
<1>2. i + 1 \in 1 .. Len(c) /\ Len(c) \in Nat
  OBVIOUS
<1> HIDE DEF name
<1>3. /\ c2 \in Seq(Seq(Chars) \cup {NULL}) /\ Len(c2) = Len(c)
      /\ \A j \in 1 .. Len(c) : c2[j] = IF j = i + 1 THEN name ELSE c[j]
  BY <1>1, <1>2, ExceptSeq
<1> HIDE DEF c2
<1>4. ASSUME NEW r \in NameStarts(text), NamesUpTo(text, r) <= i + 1
      PROVE  c2[NamesUpTo(text, r)] = NameAt(text, r)
  <2>1. NamesUpTo(text, r) \in Nat \ {0}
    BY <1>1, StartCounts
  <2>2. NamesUpTo(text, r) \in 1 .. Len(c)
    BY <1>2, <1>4, <2>1
  <2>3. CASE NamesUpTo(text, r) = i + 1
    <3>1. r = p
      BY <1>1, <2>3, StartsDiffer
    <3> QED
      BY <1>2, <1>3, <2>3, <3>1 DEF name
  <2>4. CASE NamesUpTo(text, r) # i + 1
    <3>1. NamesUpTo(text, r) <= i
      BY <1>4, <2>1, <2>4
    <3>2. c[NamesUpTo(text, r)] = NameAt(text, r)
      BY <3>1 DEF Holds
    <3> QED
      BY <1>3, <2>2, <2>4, <3>2
  <2> QED
    BY <2>3, <2>4
<1>5. ASSUME NEW j \in 1 .. i + 1
      PROVE  c2[j] # NULL
  <2>1. j \in 1 .. Len(c) /\ (j = i + 1 \/ j \in 1 .. i)
    BY <1>2
  <2>2. \A k \in 1 .. i : c[k] # NULL
    BY DEF Holds
  <2> QED
    BY <1>1, <1>3, <2>1, <2>2
<1>6. Holds(c2, text, i + 1)
  BY <1>4, <1>5 DEF Holds
<1> QED
  BY <1>3, <1>6 DEF c2, name

\* A token is copied, and it is the next name; or the copy fails, and all that
\* was copied is freed.
LEMMA CopiesSound ==
  ASSUME Sound, NEW t, Threads = {t}, Copies(t)
  PROVE  Sound'
<1> DEFINE h == handler[t]
           text == Trimmed(h.path)
           p == h.tok[2]
<1>1. /\ t \in Threads /\ state = "running"
      /\ handler \in [Threads -> Handlers] /\ h \in Handlers
      /\ str \in [Threads -> Seq(Bytes)] /\ str[t] \in Seq(Bytes)
      /\ text \in Seq(Chars) /\ text \in Seq(Bytes)
      /\ HandlerSound(t, h, olds, str[t], live)
  BY Alone
<1>2. h.pc = "copying" /\ h.tok # NULL
  BY DEF Copies
<1>3. Copying(t, h, text, olds, str[t]) /\ live = Allocated(t, h)
  BY <1>1, <1>2 DEF HandlerSound
<1>4. /\ text # <<>> /\ h.array /\ h.name = NULL
      /\ h.num = NamesUpTo(text, Len(text)) /\ Len(h.components) = h.num
      /\ Holds(h.components, text, h.i)
      /\ olds \in {t} \X Nat /\ Placed(text, str[t], olds[2])
      /\ h.tok[1] = t /\ IsToken(text, str[t], p)
      /\ NamesUpTo(text, p) = h.i + 1 /\ NamesUpTo(text, olds[2] - 1) = h.i + 1
  BY <1>2, <1>3 DEF Copying
<1>5. h.num \in Nat /\ h.i \in Nat /\ h.components \in Seq(Seq(Chars) \cup {NULL})
  BY <1>1 DEF Handlers
<1>6. p \in NameStarts(text) /\ Text(h.tok) = NameAt(text, p)
  BY <1>4 DEF IsToken, Text
<1>7. p \in 1 .. Len(text) /\ NamesUpTo(text, p) <= h.num
  BY <1>1, <1>4, <1>6, StartCounts
<1>8. h.i < h.num
  BY <1>4, <1>5, <1>7
<1>9. live = {<<t, "path">>} \cup {<<t, "str">>} \cup {<<t, "components">>} \cup Components(t, h.i)
  BY <1>2, <1>3, <1>4 DEF Allocated
<1>10. Readable(h.tok)
  <2>1. Len(str[t]) = Len(text) /\ Len(text) \in Nat
    BY <1>1, <1>4 DEF Placed, IsCopy
  <2>2. p <= Len(text) + 1
    BY <1>7, <2>1
  <2> QED
    BY <1>4, <1>9, <2>1, <2>2 DEF Readable
<1>11. ~ (h.i >= h.num \/ ~ Readable(h.tok))
  BY <1>5, <1>8, <1>10
<1> DEFINE c == [h.components EXCEPT ![h.i + 1] = NameAt(text, p)]
           rest == [h EXCEPT !.num = h.i]
<1>12. /\ \/ /\ Becomes(t, [h EXCEPT !.pc = "copied", !.i = h.i + 1, !.components = c])
             /\ live' = live \cup {<<t, "component", h.i + 1>>}
             /\ state' = state
          \/ /\ Frees(dfs_destroy_path(t, rest))
             /\ Becomes(t, [rest EXCEPT !.pc = "returned", !.failed = TRUE])
       /\ UNCHANGED <<olds, str>>
  <2>1. [h EXCEPT !.pc = "copied", !.i = h.i + 1, !.components[h.i + 1] = Text(h.tok)]
          = [h EXCEPT !.pc = "copied", !.i = h.i + 1, !.components = c]
    BY <1>1, <1>6 DEF Handlers
  <2> HIDE DEF c
  <2> QED
    BY <1>11, <2>1 DEF Copies
<1> HIDE DEF c, rest
<1>13. CASE /\ Becomes(t, [h EXCEPT !.pc = "copied", !.i = h.i + 1, !.components = c])
            /\ live' = live \cup {<<t, "component", h.i + 1>>}
            /\ state' = state
  <2> DEFINE n == h.i + 1
             h2 == [h EXCEPT !.pc = "copied", !.i = n, !.components = c]
  <2>1. /\ c \in Seq(Seq(Chars) \cup {NULL}) /\ Len(c) = h.num /\ Holds(c, text, n)
    <3> DEFINE cs == h.components
               k == h.i
    <3>1. /\ text \in Seq(Chars) /\ cs \in Seq(Seq(Chars) \cup {NULL}) /\ p \in NameStarts(text)
          /\ k \in Nat /\ k < Len(cs) /\ NamesUpTo(text, p) = k + 1 /\ Holds(cs, text, k)
      BY <1>1, <1>4, <1>5, <1>6, <1>8
    <3>2. c = [cs EXCEPT ![k + 1] = NameAt(text, p)] /\ n = k + 1 /\ Len(cs) = h.num
      BY <1>4 DEF c
    <3> HIDE DEF cs, k, n, p
    <3> QED
      BY <3>1, <3>2, HoldsNext
  <2>2. n \in Nat /\ n <= h.num
    BY <1>5, <1>8
  <2>3. Becomes(t, h2)
    BY <1>13
  <2>4. Components(t, n) = Components(t, h.i) \cup {<<t, "component", n>>}
    <3>1. 1 .. n = 1 .. h.i \cup {n}
      BY <1>5
    <3> QED
      BY <3>1 DEF Components
  <2>5. NamesUpTo(text, olds[2] - 1) = n /\ live' = live \cup {<<t, "component", n>>}
    BY <1>4, <1>13
  <2> HIDE DEF n
  <2>6. /\ h2 \in Handlers /\ h2.pc = "copied" /\ h2.path = h.path /\ h2.num = h.num /\ h2.i = n
        /\ h2.array /\ h2.components = c /\ h2.name = NULL
    BY <1>1, <1>4, <2>1, <2>2 DEF Handlers
  <2> HIDE DEF h2
  <2>7. olds' = olds /\ str' = str
    BY <1>12
  <2>8. Copying(t, h2, text, olds', str[t])
    BY <1>4, <2>1, <2>2, <2>5, <2>6, <2>7 DEF Copying
  <2>9. Allocated(t, h2) = live'
    BY <1>9, <2>4, <2>5, <2>6 DEF Allocated
  <2>10. HandlerSound(t, h2, olds', str'[t], live')
    BY <2>6, <2>7, <2>8, <2>9 DEF HandlerSound
  <2> QED
    BY <1>1, <1>13, <2>3, <2>6, <2>7, <2>10, SoundStep
<1>14. CASE /\ Frees(dfs_destroy_path(t, rest))
            /\ Becomes(t, [rest EXCEPT !.pc = "returned", !.failed = TRUE])
  <2> DEFINE h2 == [rest EXCEPT !.pc = "returned", !.failed = TRUE]
  <2>1. /\ rest \in Handlers /\ rest.num = h.i /\ rest.array /\ rest.components = h.components
    <3> DEFINE i == h.i
    <3>1. i \in Nat /\ rest = [h EXCEPT !.num = i]
      BY <1>5 DEF rest
    <3> HIDE DEF i
    <3>2. rest \in Handlers /\ rest.num = i
      BY <1>1, <3>1 DEF Handlers
    <3>3. rest.array = h.array /\ rest.components = h.components
      BY <1>1, <3>1 DEF Handlers
    <3> QED
      BY <1>4, <3>2, <3>3 DEF i
  <2>2. dfs_destroy_path(t, rest) = Components(t, h.i) \cup {<<t, "components">>} \cup {<<t, "path">>}
    <3>1. \A j \in 1 .. rest.num : rest.components[j] # NULL
      BY <1>4, <2>1 DEF Holds
    <3> QED
      BY <2>1, <3>1, DestroysAll
  <2>3. live' = {<<t, "str">>} /\ state' = state
    BY <1>9, <1>14, <2>2, Things DEF Frees
  <2>4. Becomes(t, h2) /\ h2 \in Handlers /\ h2.pc = "returned" /\ h2.failed
    BY <1>14, <2>1 DEF Handlers
  <2> HIDE DEF h2
  <2>5. olds' = olds /\ str' = str
    BY <1>12
  <2>6. HandlerSound(t, h2, olds', str'[t], live')
    BY <2>3, <2>4 DEF HandlerSound
  <2> QED
    BY <1>1, <2>3, <2>4, <2>5, <2>6, SoundStep
<1> QED
  BY <1>12, <1>13, <1>14

\* The last component is taken off; or there is none, or no memory, and what
\* the path still holds is freed.
LEMMA PopSound ==
  ASSUME Sound, NEW t, Threads = {t}, dfs_path_pop(t)
  PROVE  Sound'
<1> DEFINE h == handler[t]
           text == Trimmed(h.path)
           n == h.num - 1
           name == <<t, "component", h.num>>
           popped == [h EXCEPT !.pc = "find", !.num = n, !.name = name]
<1>1. /\ t \in Threads /\ state = "running"
      /\ handler \in [Threads -> Handlers] /\ h \in Handlers
      /\ str \in [Threads -> Seq(Bytes)]
      /\ HandlerSound(t, h, olds, str[t], live)
  BY Alone
<1>2. h.pc = "parsed" /\ olds' = olds /\ str' = str /\ h.num \in Nat
  BY <1>1 DEF dfs_path_pop, Handlers
<1>3. Parsed(t, h, text) /\ live = Allocated(t, h)
  BY <1>1, <1>2 DEF HandlerSound
<1>4. /\ h.name = NULL /\ h.num = NamesUpTo(text, Len(text)) /\ Len(h.components) = h.num
      /\ Holds(h.components, text, h.num) /\ (h.num > 0 => h.array)
  <2>1. h.num = NamesUpTo(text, Len(text)) /\ h.name = NULL /\ (h.num > 0 => h.array)
    BY <1>2, <1>3 DEF Parsed
  <2>2. /\ Len(h.components) = NamesUpTo(text, Len(text))
        /\ Holds(h.components, text, NamesUpTo(text, Len(text)))
    BY <1>3 DEF Parsed
  <2> QED
    BY <2>1, <2>2
<1>5. live = {<<t, "path">>} \cup (IF h.array THEN {<<t, "components">>} ELSE {})
               \cup Components(t, h.num)
  BY <1>2, <1>3 DEF Allocated
<1>6. \A j \in 1 .. h.num : h.components[j] # NULL
  BY <1>4 DEF Holds
<1>7. \/ h.num = 0 /\ Frees(dfs_destroy_path(t, h)) /\ Becomes(t, [h EXCEPT !.pc = "returned"])
      \/ h.num = 1 /\ Frees({<<t, "components">>}) /\ Becomes(t, [popped EXCEPT !.array = FALSE])
      \/ h.num > 1 /\ Becomes(t, popped) /\ live' = live /\ state' = state
      \/ /\ h.num > 1 /\ Frees(dfs_destroy_path(t, popped))
         /\ Becomes(t, [popped EXCEPT !.pc = "returned", !.failed = TRUE])
  BY DEF dfs_path_pop, At
<1>8. CASE h.num = 0 /\ Frees(dfs_destroy_path(t, h)) /\ Becomes(t, [h EXCEPT !.pc = "returned"])
  <2> DEFINE h2 == [h EXCEPT !.pc = "returned"]
  <2>1. dfs_destroy_path(t, h) = live
    BY <1>5, <1>6, DestroysAll
  <2>2. live' = {} /\ state' = state
    BY <1>8, <2>1 DEF Frees
  <2>3. Becomes(t, h2) /\ h2 \in Handlers /\ h2.pc = "returned"
    BY <1>1, <1>8 DEF Handlers
  <2> HIDE DEF h2
  <2>4. HandlerSound(t, h2, olds', str'[t], live')
    BY <2>2, <2>3 DEF HandlerSound
  <2> QED
    BY <1>1, <1>2, <2>2, <2>3, <2>4, SoundStep
<1>9. ASSUME h.num >= 1
      PROVE  /\ n \in Nat /\ h.num = n + 1 /\ name \in Threads \X {"component"} \X Nat
             /\ name # NULL /\ popped \in Handlers
             /\ popped.pc = "find" /\ popped.num = n /\ popped.path = h.path
             /\ popped.components = h.components /\ popped.array /\ popped.name = name
             /\ Components(t, h.num) = Components(t, n) \cup {name} /\ name \notin Components(t, n)
             /\ live = {<<t, "path">>} \cup {<<t, "components">>} \cup Components(t, h.num)
  <2>1. n \in Nat /\ h.num = n + 1 /\ h.array
    BY <1>2, <1>4, <1>9
  <2>2. name \in Threads \X {"component"} \X Nat /\ name # NULL
    BY <1>1, <1>2, DfsPathAssumption
  <2>3. Components(t, h.num) = Components(t, n) \cup {name} /\ name \notin Components(t, n)
    <3>1. 1 .. h.num = 1 .. n \cup {h.num} /\ h.num \notin 1 .. n
      BY <2>1
    <3>2. Components(t, h.num) = Components(t, n) \cup {name}
      BY <3>1 DEF Components
    <3> QED
      BY <3>1, <3>2, Things
  <2>4. live = {<<t, "path">>} \cup {<<t, "components">>} \cup Components(t, h.num)
    BY <1>5, <2>1
  <2> HIDE DEF n, name
  <2>5. popped \in Handlers
    BY <1>1, <2>1, <2>2 DEF Handlers
  <2>6. /\ popped.pc = "find" /\ popped.num = n /\ popped.path = h.path
        /\ popped.components = h.components /\ popped.array /\ popped.name = name
    BY <1>1, <2>1 DEF Handlers
  <2> QED
    BY <2>1, <2>2, <2>3, <2>4, <2>5, <2>6
<1>10. ASSUME NEW h2, h.num >= 1, h2.pc = "find", h2.num = n, h2.path = h.path,
              h2.components = h.components, h2.name = name
       PROVE  Parsed(t, h2, Trimmed(h2.path))
  <2>1. n + 1 = h.num
    BY <1>9, <1>10
  <2> QED
    BY <1>4, <1>10, <2>1 DEF Parsed
<1> HIDE DEF n, name, popped
<1>11. CASE h.num = 1 /\ Frees({<<t, "components">>}) /\ Becomes(t, [popped EXCEPT !.array = FALSE])
  <2> DEFINE h2 == [popped EXCEPT !.array = FALSE]
  <2>1. h.num >= 1
    BY <1>11
  <2>2. /\ h2 \in Handlers /\ h2.pc = "find" /\ h2.num = n /\ h2.path = h.path
        /\ h2.components = h.components /\ ~ h2.array /\ h2.name = name
    BY <1>9, <2>1 DEF Handlers
  <2>3. Becomes(t, h2)
    BY <1>11
  <2> HIDE DEF h2
  <2>4. live' = {<<t, "path">>} \cup Components(t, h.num) /\ state' = state
    <3>1. live = {<<t, "path">>} \cup {<<t, "components">>} \cup Components(t, h.num)
      BY <1>9, <2>1
    <3>2. <<t, "path">> # <<t, "components">> /\ <<t, "components">> \notin Components(t, h.num)
      BY Things
    <3> QED
      BY <1>11, <3>1, <3>2 DEF Frees
  <2>5. Allocated(t, h2) = live'
    BY <1>9, <2>1, <2>2, <2>4 DEF Allocated
  <2>6. Parsed(t, h2, Trimmed(h2.path))
    BY <1>10, <2>1, <2>2
  <2>7. HandlerSound(t, h2, olds', str'[t], live')
    BY <2>2, <2>5, <2>6 DEF HandlerSound
  <2> QED
    BY <1>1, <1>2, <2>2, <2>3, <2>4, <2>7, SoundStep
<1>12. CASE h.num > 1 /\ Becomes(t, popped) /\ live' = live /\ state' = state
  <2>1. h.num >= 1
    BY <1>2, <1>12
  <2>2. Allocated(t, popped) = live'
    BY <1>9, <1>12, <2>1 DEF Allocated
  <2>3. Parsed(t, popped, Trimmed(popped.path))
    BY <1>9, <1>10, <2>1
  <2>4. HandlerSound(t, popped, olds', str'[t], live')
    BY <1>9, <2>1, <2>2, <2>3 DEF HandlerSound
  <2> QED
    BY <1>1, <1>2, <1>9, <1>12, <2>1, <2>4, SoundStep
<1>13. CASE /\ h.num > 1 /\ Frees(dfs_destroy_path(t, popped))
            /\ Becomes(t, [popped EXCEPT !.pc = "returned", !.failed = TRUE])
  <2> DEFINE h2 == [popped EXCEPT !.pc = "returned", !.failed = TRUE]
  <2>1. h.num >= 1
    BY <1>2, <1>13
  <2>2. dfs_destroy_path(t, popped) = Components(t, n) \cup {<<t, "components">>} \cup {<<t, "path">>}
    <3>1. \A j \in 1 .. popped.num : popped.components[j] # NULL
      BY <1>6, <1>9, <2>1
    <3> QED
      BY <1>9, <2>1, <3>1, DestroysAll
  <2>3. name # <<t, "path">> /\ name # <<t, "components">>
    BY Things DEF name
  <2>4. live' = {name} /\ state' = state
    BY <1>9, <1>13, <2>1, <2>2, <2>3 DEF Frees
  <2>5. Becomes(t, h2) /\ h2 \in Handlers /\ h2.pc = "returned" /\ h2.failed /\ h2.name = name
    BY <1>9, <1>13, <2>1 DEF Handlers
  <2> HIDE DEF h2
  <2>6. HandlerSound(t, h2, olds', str'[t], live')
    BY <1>9, <2>1, <2>4, <2>5 DEF HandlerSound
  <2> QED
    BY <1>1, <1>2, <2>4, <2>5, <2>6, SoundStep
<1> QED
  BY <1>7, <1>8, <1>11, <1>12, <1>13

\* Every component that the walk comes by is there, and everything is freed.
LEMMA FindsSound ==
  ASSUME Sound, NEW t, Threads = {t}, Finds(t)
  PROVE  Sound'
<1> DEFINE h == handler[t]
           text == Trimmed(h.path)
           name == {x \in {h.name} : x # NULL /\ h.components[x[3]] # NULL}
           h2 == [h EXCEPT !.pc = "returned"]
<1>1. /\ t \in Threads /\ state = "running"
      /\ handler \in [Threads -> Handlers] /\ h \in Handlers
      /\ str \in [Threads -> Seq(Bytes)]
      /\ HandlerSound(t, h, olds, str[t], live)
  BY Alone
<1>2. h.pc \in {"parsed", "find"} /\ h.num \in Nat
  BY <1>1 DEF Finds, Handlers
<1>3. Parsed(t, h, text) /\ live = Allocated(t, h)
  BY <1>1, <1>2 DEF HandlerSound
<1>4. /\ h.pc = "parsed" => h.num = NamesUpTo(text, Len(text)) /\ h.name = NULL
      /\ h.pc = "find" => h.num + 1 = NamesUpTo(text, Len(text)) /\ h.name = <<t, "component", h.num + 1>>
      /\ \A j \in 1 .. NamesUpTo(text, Len(text)) : h.components[j] # NULL
  <2>1. Holds(h.components, text, NamesUpTo(text, Len(text)))
    BY <1>3 DEF Parsed
  <2>2. \A j \in 1 .. NamesUpTo(text, Len(text)) : h.components[j] # NULL
    BY <2>1 DEF Holds
  <2>3. /\ h.pc = "parsed" => h.num = NamesUpTo(text, Len(text)) /\ h.name = NULL
        /\ h.pc = "find" => h.num + 1 = NamesUpTo(text, Len(text)) /\ h.name = <<t, "component", h.num + 1>>
    BY <1>3 DEF Parsed
  <2> QED
    BY <2>2, <2>3
<1>5. \A j \in 1 .. h.num : h.components[j] # NULL
  BY <1>2, <1>4
<1>6. dfs_destroy_path(t, h) \cup name = live
  <2>1. dfs_destroy_path(t, h)
          = Components(t, h.num) \cup (IF h.array THEN {<<t, "components">>} ELSE {}) \cup {<<t, "path">>}
    BY <1>5, DestroysAll
  <2>2. CASE h.pc = "parsed"
    <3>1. name = {}
      BY <1>4, <2>2
    <3> QED
      BY <1>3, <2>1, <2>2, <3>1 DEF Allocated
  <2>3. CASE h.pc = "find"
    <3> DEFINE n == h.num + 1
    <3>1. h.name = <<t, "component", n>> /\ h.name # NULL /\ h.name[3] = n /\ h.components[n] # NULL
      <4>1. n \in 1 .. NamesUpTo(text, Len(text)) /\ n \in Nat
        BY <1>2, <1>4, <2>3
      <4>2. h.name = <<t, "component", n>> /\ t \in Threads /\ n \in Nat
        BY <1>1, <1>4, <2>3, <4>1
      <4> HIDE DEF n
      <4>3. h.name \in Threads \X {"component"} \X Nat
        BY <4>2
      <4> QED
        BY <1>4, <4>1, <4>2, <4>3, DfsPathAssumption
    <3>2. Components(t, n) = Components(t, h.num) \cup {<<t, "component", n>>}
      <4>1. 1 .. n = 1 .. h.num \cup {n}
        BY <1>2
      <4> QED
        BY <4>1 DEF Components
    <3>3. live = {<<t, "path">>} \cup (IF h.array THEN {<<t, "components">>} ELSE {}) \cup Components(t, n)
      BY <1>3, <2>3 DEF Allocated
    <3> HIDE DEF n
    <3>4. name = {<<t, "component", n>>}
      BY <3>1
    <3> QED
      BY <2>1, <3>2, <3>3, <3>4
  <2> QED
    BY <1>2, <2>2, <2>3
<1>7. PICK walked \in 0 .. h.num :
        IF \E j \in 1 .. walked : h.components[j] = NULL THEN Crashes
        ELSE /\ Frees(dfs_destroy_path(t, h) \cup name)
             /\ Becomes(t, h2)
             /\ UNCHANGED <<olds, str>>
  BY DEF Finds, At
<1>8. ~ \E j \in 1 .. walked : h.components[j] = NULL
  <2>1. \A j \in 1 .. walked : j \in 1 .. h.num
    BY <1>2
  <2> QED
    BY <1>5, <2>1
<1> HIDE DEF name
<1>9. live' = {} /\ state' = state /\ Becomes(t, h2) /\ olds' = olds /\ str' = str
  BY <1>6, <1>7, <1>8 DEF Frees
<1>10. h2 \in Handlers /\ h2.pc = "returned"
  BY <1>1 DEF Handlers
<1> HIDE DEF h2
<1>11. HandlerSound(t, h2, olds', str'[t], live')
  BY <1>9, <1>10 DEF HandlerSound
<1> QED
  BY <1>1, <1>9, <1>10, <1>11, SoundStep

-------------------------------------------------------------------------------
(* The theorems *)

\* Before the first call nothing is allocated.
LEMMA InitSound ==
  ASSUME NEW t, Threads = {t}, Init
  PROVE  Sound
<1>1. Idle \in Handlers /\ Idle.pc = "idle"
  <2>1. <<>> \in Seq(Chars) /\ <<>> \in Seq(Seq(Chars) \cup {NULL})
    BY EmptySeq
  <2> QED
    BY <2>1 DEF Idle, Handlers
<1>2. <<>> \in Seq(Bytes)
  BY EmptySeq
<1>3. /\ handler \in [Threads -> Handlers] /\ str \in [Threads -> Seq(Bytes)]
      /\ \A u \in Threads : handler[u] = Idle
  BY <1>1, <1>2 DEF Init
<1>4. ASSUME NEW u \in Threads
      PROVE  HandlerSound(u, handler[u], olds, str[u], live)
  BY <1>1, <1>3 DEF Init, HandlerSound
<1> QED
  BY <1>3, <1>4 DEF Init, Sound

\* Every step keeps the invariant.
LEMMA StepSound ==
  ASSUME NEW t, Threads = {t}, Sound, [Next]_vars
  PROVE  Sound'
<1>1. CASE UNCHANGED vars
  BY <1>1 DEF vars, Sound
<1>2. CASE Stopped
  BY <1>1, <1>2 DEF Stopped
<1>3. CASE Handler(t)
  <2>1. CASE Begins(t)
    BY <2>1, BeginsSound
  <2>2. CASE StartsOver(t)
    BY <2>2, StartsOverSound
  <2>3. CASE Counts(t)
    BY <2>3, CountsSound
  <2>4. CASE Allocates(t)
    BY <2>4, AllocatesSound
  <2>5. CASE Copies(t)
    BY <2>5, CopiesSound
  <2>6. CASE CopiesNext(t)
    BY <2>6, CopiesNextSound
  <2>7. CASE Parses(t)
    BY <2>7, ParsesSound
  <2>8. CASE dfs_path_pop(t)
    BY <2>8, PopSound
  <2>9. CASE Finds(t)
    BY <2>9, FindsSound
  <2>10. CASE Answers(t)
    BY <2>10, AnswersSound
  <2> QED
    BY <1>3, <2>1, <2>2, <2>3, <2>4, <2>5, <2>6, <2>7, <2>8, <2>9, <2>10 DEF Handler
<1>4. Next => Stopped \/ Handler(t)
  BY DEF Next
<1> QED
  BY <1>1, <1>2, <1>3, <1>4

\* With one handler at a time, whatever the strings and whichever allocations
\* fail: strtok's place is in the handler's own copy, behind the names that were
\* counted or copied so far; and what is allocated is what the step it is at
\* says, as in the code between the calls of dfs_parse_path, dfs_path_pop and
\* dfs_destroy_path.
THEOREM AlwaysSound ==
  ASSUME NEW t, Threads = {t}
  PROVE  Spec => []Sound
<1>1. Init => Sound
  BY InitSound
<1>2. Sound /\ [Next]_vars => Sound'
  BY StepSound
<1> QED
  BY <1>1, <1>2, PTL DEF Spec

\* So the components that dfs_parse_path returns are the names in the path it
\* was given, all of them and in their order, however many slashes there are at
\* the start, between names and at the end.
THEOREM AlwaysFindsNames ==
  ASSUME NEW t, Threads = {t}
  PROVE  Spec => []ParseFindsNames
<1>1. ASSUME Sound
      PROVE  ParseFindsNames
  <2> SUFFICES ASSUME handler[t].pc = "parsed"
               PROVE  LET path == handler[t].path
                      IN  /\ handler[t].num = NamesUpTo(path, Len(path))
                          /\ \A i \in NameStarts(path) :
                               handler[t].components[NamesUpTo(path, i)] = NameAt(path, i)
    BY DEF ParseFindsNames
  <2> DEFINE h == handler[t]
             path == h.path
             text == Trimmed(path)
  <2>1. path \in Seq(Chars) /\ text \in Seq(Bytes) /\ HandlerSound(t, h, olds, str[t], live)
    BY <1>1, Alone DEF Handlers
  <2>2. h.num = NamesUpTo(text, Len(text)) /\ Holds(h.components, text, NamesUpTo(text, Len(text)))
    <3>1. Parsed(t, h, text)
      BY <2>1 DEF HandlerSound
    <3> QED
      BY <3>1 DEF Parsed
  <2> HIDE DEF h, path, text
  <2>3. /\ NamesUpTo(path, Len(path)) = NamesUpTo(text, Len(text))
        /\ \A i \in NameStarts(path) : \E p \in NameStarts(text) :
             NamesUpTo(path, i) = NamesUpTo(text, p) /\ NameAt(path, i) = NameAt(text, p)
    BY <2>1, TrimmedNames DEF text
  <2>4. \A p \in NameStarts(text) : h.components[NamesUpTo(text, p)] = NameAt(text, p)
    <3>1. \A p \in NameStarts(text) : NamesUpTo(text, p) <= NamesUpTo(text, Len(text))
      BY <2>1, StartCounts
    <3> QED
      BY <2>2, <3>1 DEF Holds
  <2>5. ASSUME NEW i \in NameStarts(path)
        PROVE  h.components[NamesUpTo(path, i)] = NameAt(path, i)
    BY <2>3, <2>4
  <2> QED
    BY <2>2, <2>3, <2>5 DEF h, path
<1> QED
  BY <1>1, AlwaysSound, PTL

\* And no handler uses or frees memory that is not there, whichever allocation
\* fails; all it can leave behind, when one has failed, is the copied string of
\* dfs_parse_path or the name that dfs_path_pop took off.
THEOREM AlwaysFreed ==
  ASSUME NEW t, Threads = {t}
  PROVE  Spec => []PathsFreed
<1>1. ASSUME Sound
      PROVE  PathsFreed
  <2> DEFINE h == handler[t]
             text == Trimmed(h.path)
  <2>1. /\ state = "running" /\ h \in Handlers /\ h.num \in Nat /\ h.path \in Seq(Chars)
        /\ HandlerSound(t, h, olds, str[t], live)
    BY <1>1, Alone DEF Handlers
  <2>2. ASSUME h.pc = "find"
        PROVE  /\ h.num = NamesUpTo(h.path, Len(h.path)) - 1
               /\ \A j \in 1 .. h.num : <<t, "component", j>> \in live
               /\ h.name = <<t, "component", h.num + 1>> /\ h.name \in live
    <3>1. /\ h.num + 1 = NamesUpTo(text, Len(text)) /\ h.name = <<t, "component", h.num + 1>>
          /\ live = Allocated(t, h)
      BY <2>1, <2>2 DEF HandlerSound, Parsed
    <3>2. NamesUpTo(h.path, Len(h.path)) = NamesUpTo(text, Len(text))
      BY <2>1, TrimmedNames
    <3>3. \A j \in 1 .. h.num + 1 : <<t, "component", j>> \in live
      BY <2>2, <3>1 DEF Allocated, Components
    <3>4. h.num = NamesUpTo(h.path, Len(h.path)) - 1
      BY <2>1, <3>1, <3>2
    <3>5. \A j \in 1 .. h.num : j \in 1 .. h.num + 1
      BY <2>1
    <3>6. h.num + 1 \in 1 .. h.num + 1
      BY <2>1
    <3> QED
      BY <3>1, <3>3, <3>4, <3>5, <3>6
  <2>3. ASSUME h.pc \in {"idle", "returned"}
        PROVE  \/ Unfreed(t) = {}
               \/ h.failed /\ Unfreed(t) \in {{<<t, "str">>}, {h.name}}
    <3>1. \/ live = {}
          \/ h.failed /\ (live = {<<t, "str">>} \/ (h.name # NULL /\ live = {h.name}))
      BY <2>1, <2>3 DEF HandlerSound
    <3>2. h.name # NULL => h.name[1] = t
      BY <2>1 DEF Handlers
    <3>3. Unfreed(t) = live
      BY <3>1, <3>2 DEF Unfreed
    <3> QED
      BY <3>1, <3>3
  <2> HIDE DEF h
  <2>4. \A u \in Threads : u = t
    OBVIOUS
  <2> QED
    BY <2>1, <2>2, <2>3, <2>4 DEF PathsFreed, h
<1> QED
  BY <1>1, AlwaysSound, PTL

===============================================================================
