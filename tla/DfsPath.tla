-------------------------------- MODULE DfsPath --------------------------------
(***************************************************************************)
(* assignment6/dfs-path.c as the handlers use it: a path string is parsed  *)
(* to its components (dfs_parse_path), the last one may be taken off       *)
(* (dfs_path_pop), the rest is walked, and everything is freed.  Modelled  *)
(* are the memory of these calls, its failing allocations, and strtok,     *)
(* which keeps its place in one static variable for all threads that       *)
(* fuse_main runs handlers on.                                             *)
(***************************************************************************)
EXTENDS Integers, Sequences, FiniteSetsExt

CONSTANTS
  Threads,
  Chars,     \* the characters of paths, "/" among them
  NUL,       \* the character that ends a string
  Strings,   \* what handlers may be given
  MayFail,   \* whether allocations may fail
  NULL

ASSUME DfsPathAssumption ==
  /\ "/" \in Chars
  /\ NUL \notin Chars
  /\ \A s \in Strings : s \in Seq(Chars)
  /\ MayFail \in BOOLEAN
  /\ NULL \notin Seq(Chars)
  /\ NULL \notin Threads \X Nat
  /\ NULL \notin Threads \X {"component"} \X Nat

VARIABLES
  olds,     \* strtok's static variable: a thread's string and a place in it
  str,      \* the copy of the string that every thread tokenizes
  live,     \* what is allocated: <<t, "path">>, <<t, "str">>, <<t, "components">>
            \*   and, for the i-th component, <<t, "component", i>>
  handler,  \* what every thread does: see Idle
  state     \* "running", or "undefined" when memory is used that is not there

vars == <<olds, str, live, handler, state>>

\* path is the argument; num and array the fields of the DfsPath (array: whether
\* the pointer is set), components what it points to; tok and i locals of
\* dfs_parse_path; name what was popped; failed: whether an allocation has.
Idle == [pc |-> "idle", op |-> "none", path |-> <<>>, num |-> 0, array |-> FALSE,
         components |-> <<>>, tok |-> NULL, i |-> 0, name |-> NULL, failed |-> FALSE]

Init ==
  /\ olds = NULL
  /\ str = [t \in Threads |-> <<>>]
  /\ live = {}
  /\ handler = [t \in Threads |-> Idle]
  /\ state = "running"

Becomes(t, h) == handler' = [handler EXCEPT ![t] = h]
At(h, step) == [h EXCEPT !.pc = step]

Crashes ==
  /\ state' = "undefined"
  /\ UNCHANGED <<olds, str, live, handler>>

\* free, of things that must be allocated.
Frees(things) ==
  IF things \subseteq live
    THEN live' = live \ things /\ UNCHANGED state
    ELSE state' = "undefined" /\ UNCHANGED live

\* What dfs_destroy_path frees; no component that is NULL.
dfs_destroy_path(t, h) ==
  {<<t, "component", i>> : i \in {j \in 1 .. h.num : h.components[j] # NULL}}
    \cup (IF h.array THEN {<<t, "components">>} ELSE {}) \cup {<<t, "path">>}

-------------------------------------------------------------------------------
(* strtok *)

CharAt(s, i) == IF i <= Len(s) THEN s[i] ELSE NUL
\* The first place from i on that has one of the characters or ends the string;
\* and the first that has no slash.
Seek(s, i, chars) == Min({j \in i .. Len(s) + 1 : CharAt(s, j) \in chars \cup {NUL}})
Skip(s, i) == Min({j \in i .. Len(s) + 1 : CharAt(s, j) # "/"})
Readable(p) == <<p[1], "str">> \in live /\ p[2] <= Len(str[p[1]]) + 1

\* strtok from a place on: slashes are skipped, the slash behind the token is
\* overwritten, and the place after it is remembered.
strtok(t, from, h) ==
  IF ~Readable(from) THEN Crashes
  ELSE
    LET u == from[1]
        start == Skip(str[u], from[2])
        end == Seek(str[u], start, {"/"})
        found == CharAt(str[u], start) # NUL
        cut == CharAt(str[u], end) = "/"
    IN  /\ Becomes(t, [h EXCEPT !.tok = IF found THEN <<u, start>> ELSE NULL])
        /\ str' = IF cut THEN [str EXCEPT ![u][end] = NUL] ELSE str
        /\ olds' = <<u, IF cut THEN end + 1 ELSE end>>
        /\ UNCHANGED <<live, state>>

-------------------------------------------------------------------------------
(* dfs_parse_path *)

\* Without leading slashes; and the length without trailing ones as well.
Trimmed(s) == SubSeq(s, Skip(s, 1), Len(s))
StrLen(s) == Max({0} \cup {i \in 1 .. Len(s) : s[i] # "/"})

\* An allocation that fails before there is anything but the DfsPath.
FailsEarly(t, h) ==
  /\ MayFail
  /\ Becomes(t, [h EXCEPT !.pc = "returned", !.failed = TRUE])
  /\ UNCHANGED <<olds, str, live, state>>

\* A handler that only walks the path ("find"), or takes its last component
\* off first ("pop"), is called.
Begins(t) ==
  /\ handler[t].pc = "idle"
  /\ \E op \in {"find", "pop"}, path \in Strings :
       LET h == [Idle EXCEPT !.op = op, !.path = path]
           text == Trimmed(path)
       IN  \/ FailsEarly(t, h)
           \/ /\ text = <<>>
              /\ Becomes(t, At(h, "parsed"))
              /\ live' = live \cup {<<t, "path">>}
              /\ UNCHANGED <<olds, str, state>>
           \/ /\ text # <<>>
              /\ Becomes(t, At(h, "count"))
              /\ str' = [str EXCEPT ![t] = text]
              /\ live' = live \cup {<<t, "path">>, <<t, "str">>}
              /\ UNCHANGED <<olds, state>>

StartsOver(t) ==
  \/ /\ handler[t].pc = "count"
     /\ strtok(t, <<t, 1>>, At(handler[t], "counting"))
  \/ /\ handler[t].pc = "copy"
     /\ strtok(t, <<t, 1>>, At(handler[t], "copying"))

Counts(t) ==
  /\ handler[t].pc = "counting"
  /\ handler[t].tok # NULL
  /\ strtok(t, olds, [handler[t] EXCEPT !.num = @ + 1])

\* Mutant: the string is tokenized again as the first pass left it.
AllocatesOnly(t) ==
  LET h == handler[t]
  IN  /\ h.pc = "counting" /\ h.tok = NULL
      /\ Becomes(t, [h EXCEPT !.pc = "copy", !.array = TRUE,
                              !.components = [j \in 1 .. h.num |-> NULL]])
      /\ live' = live \cup {<<t, "components">>}
      /\ UNCHANGED <<olds, str, state>>

\* The string is as it was, up to its trailing slashes.  When there is no
\* memory for the components, it is not freed.
Allocates(t) ==
  LET h == handler[t]
      text == Trimmed(h.path)
  IN  /\ h.pc = "counting" /\ h.tok = NULL
      /\ \/ /\ Becomes(t, [h EXCEPT !.pc = "copy", !.array = TRUE,
                                    !.components = [j \in 1 .. h.num |-> NULL]])
            /\ live' = live \cup {<<t, "components">>}
            /\ str' = [str EXCEPT ![t] = [j \in DOMAIN @ |->
                                            IF j <= StrLen(text) THEN text[j] ELSE @[j]]]
            /\ UNCHANGED state
         \/ /\ MayFail
            /\ Becomes(t, [h EXCEPT !.pc = "returned", !.num = 0, !.failed = TRUE])
            /\ Frees({<<t, "path">>})
            /\ UNCHANGED str
      /\ UNCHANGED olds

\* What strdup copies.
Text(p) == SubSeq(str[p[1]], p[2], Seek(str[p[1]], p[2], {}) - 1)

\* A component is copied, behind the array's end if there are more than were
\* counted.  When the copy fails, the string is not freed.
Copies(t) ==
  LET h == handler[t]
  IN  /\ h.pc = "copying" /\ h.tok # NULL
      /\ IF h.i >= h.num \/ ~Readable(h.tok) THEN Crashes
         ELSE /\ \/ /\ Becomes(t, [h EXCEPT !.pc = "copied", !.i = @ + 1,
                                            !.components[h.i + 1] = Text(h.tok)])
                    /\ live' = live \cup {<<t, "component", h.i + 1>>}
                    /\ UNCHANGED state
                 \/ /\ MayFail
                    /\ LET rest == [h EXCEPT !.num = h.i]
                       IN  /\ Frees(dfs_destroy_path(t, rest))
                           /\ Becomes(t, [rest EXCEPT !.pc = "returned", !.failed = TRUE])
              /\ UNCHANGED <<olds, str>>

CopiesNext(t) ==
  /\ handler[t].pc = "copied"
  /\ strtok(t, olds, At(handler[t], "copying"))

Parses(t) ==
  /\ handler[t].pc = "copying" /\ handler[t].tok = NULL
  /\ Frees({<<t, "str">>})
  /\ Becomes(t, At(handler[t], "parsed"))
  /\ UNCHANGED <<olds, str>>

-------------------------------------------------------------------------------
(* The rest of the handler *)

\* Mutant: the pointer to the freed array is kept.
PopsKeepingPointer(t) ==
  LET h == handler[t]
  IN  /\ h.pc = "parsed" /\ h.op = "pop"
      /\ Frees(IF h.num = 0 THEN dfs_destroy_path(t, h)
               ELSE IF h.num = 1 THEN {<<t, "components">>} ELSE {})
      /\ Becomes(t, IF h.num = 0 THEN At(h, "returned")
                    ELSE [h EXCEPT !.pc = "find", !.num = @ - 1, !.name = <<t, "component", h.num>>])
      /\ UNCHANGED <<olds, str>>

\* dfs_path_pop.  Without a component the handler destroys the path and
\* returns; as it does when the array cannot be made smaller, although it has
\* the name by then.
dfs_path_pop(t) ==
  LET h == handler[t]
      popped == [h EXCEPT !.pc = "find", !.num = @ - 1, !.name = <<t, "component", h.num>>]
  IN  /\ h.pc = "parsed" /\ h.op = "pop"
      /\ \/ /\ h.num = 0
            /\ Frees(dfs_destroy_path(t, h))
            /\ Becomes(t, At(h, "returned"))
         \/ /\ h.num = 1
            /\ Frees({<<t, "components">>})
            /\ Becomes(t, [popped EXCEPT !.array = FALSE])
         \/ /\ h.num > 1
            /\ \/ /\ Becomes(t, popped)
                  /\ UNCHANGED <<live, state>>
               \/ /\ MayFail
                  /\ Frees(dfs_destroy_path(t, popped))
                  /\ Becomes(t, [popped EXCEPT !.pc = "returned", !.failed = TRUE])
      /\ UNCHANGED <<olds, str>>

\* The path is walked as far as entries are found; a component that was never
\* copied is not to be used.  Then the path is destroyed, and at the end of the
\* handler the name.
Finds(t) ==
  LET h == handler[t]
      name == {p \in {h.name} : p # NULL /\ h.components[p[3]] # NULL}
  IN  /\ \/ h.pc = "parsed" /\ h.op = "find"
         \/ h.pc = "find"
      /\ \E walked \in 0 .. h.num :
           IF \E j \in 1 .. walked : h.components[j] = NULL THEN Crashes
           ELSE /\ Frees(dfs_destroy_path(t, h) \cup name)
                /\ Becomes(t, At(h, "returned"))
                /\ UNCHANGED <<olds, str>>

\* A thread that has left nothing behind takes the next call.
Unfreed(t) == {x \in live : x[1] = t}
Answers(t) ==
  /\ handler[t].pc = "returned"
  /\ Unfreed(t) = {}
  /\ Becomes(t, Idle)
  /\ UNCHANGED <<olds, str, live, state>>

-------------------------------------------------------------------------------
Handler(t) ==
  \/ Begins(t) \/ StartsOver(t) \/ Counts(t) \/ Allocates(t) \/ Copies(t) \/ CopiesNext(t)
  \/ Parses(t) \/ dfs_path_pop(t) \/ Finds(t) \/ Answers(t)

\* Bound: the model goes no further after undefined behaviour or a leak.
Stopped ==
  /\ state = "undefined" \/ \E t \in Threads : handler[t].pc = "returned" /\ Unfreed(t) # {}
  /\ UNCHANGED vars

Next == (state = "running" /\ \E t \in Threads : Handler(t)) \/ Stopped
Spec == Init /\ [][Next]_vars

-------------------------------------------------------------------------------
(* Properties *)

\* What a path string says, by the rules that dfs-path.h:121 gives: one or more
\* slashes separate names.  Where a name begins, how many do in the first n
\* characters, and the name that begins at i.
NameStarts(s) == {i \in 1 .. Len(s) : s[i] # "/" /\ (i = 1 \/ s[i - 1] = "/")}
NamesUpTo(s, n) == Cardinality({i \in NameStarts(s) : i <= n})
NameAt(s, i) ==
  SubSeq(s, i, Min({j \in i .. Len(s) + 1 : j = Len(s) + 1 \/ s[j] = "/"}) - 1)

\* What dfs_parse_path returns is the names in the string, in their order.
ParseFindsNames ==
  \A t \in Threads :
    handler[t].pc = "parsed" =>
      LET path == handler[t].path
      IN  /\ handler[t].num = NamesUpTo(path, Len(path))
          /\ \A i \in NameStarts(path) :
               handler[t].components[NamesUpTo(path, i)] = NameAt(path, i)

\* A handler uses no memory that is not there, frees nothing twice, walks all
\* names but the one that it takes off, and leaves nothing allocated unless an
\* allocation failed; then it leaves the copied string, or the name that was
\* taken off, and no more.  That it should not leave that name either is
\* PoppedNameFreed.
PathsFreed ==
  /\ state = "running"
  /\ \A t \in Threads :
       LET h == handler[t]
       IN  /\ h.pc = "find" =>
                /\ h.num = NamesUpTo(h.path, Len(h.path)) - 1
                /\ \A j \in 1 .. h.num : <<t, "component", j>> \in live
                /\ h.name = <<t, "component", h.num + 1>> /\ h.name \in live
           /\ h.pc \in {"idle", "returned"} =>
                \/ Unfreed(t) = {}
                \/ /\ h.failed
                   /\ Unfreed(t) \in {{<<t, "str">>}, {h.name}}

\* dfs-path.h:90, of the name that dfs_path_pop hands out, "This address must
\* eventually be freed": by the end of the handler it is.
PoppedNameFreed ==
  \A t \in Threads : handler[t].pc = "returned" => handler[t].name \notin live
===============================================================================
