# A verification of the operating-systems assignments

TLA+ modules for the programs of this repository (`src/`), TLC configurations that
check them on small instances, and TLAPS proofs. The repository is a collection of
independent C programs, one or several per assignment; each is a subsystem here.

## 1. The system

| Component | Source | State | Operations | What is hard | What makes it correct |
|---|---|---|---|---|---|
| Hash table | `assignment6/hashtable.c`, `.h` | an array of slots, four counters | `ht_create`, `ht_add`, `ht_get`, `ht_rem`, `ht_rem_next`, `ht_get_next`, `ht_destroy`, `resize_table` | probe chains under removal and rehashing, counters that steer loops, allocations that fail half-way | it is a finite map; every probe ends; nothing is lost by a resize |
| DFS directories | `assignment6/dfs.c`, `.h`, `dfs-helpers.h` | a tree of entries, each directory a hash table | add, get, remove by name, remove by type, recursive destroy | a removal that is half done, ownership of an entry | an entry is in one directory or owned by one caller |
| DFS paths | `assignment6/dfs-path.c` | a vector of names | parse, append, concatenate, pop, clone, unparse, find | empty components, failing reallocations | a path is the names in its string; its memory is freed once |
| FUSE operations | `assignment6/os_assignment.c` | the tree | `os_mkdir`, `os_rmdir`, `os_create`, `os_unlink`, `os_read`, `os_write`, `os_truncate`, `os_readdir`, `os_getattr`, ... | error paths at any depth; the handlers run on several threads and nothing is locked | each does to the tree what it answers; a failing handler changes nothing |
| Buddy allocator | `assignment4/4_1.c`, `4_2.c`, `4_3.c`, `library.c` | one free list per depth, a bit per block for "split", a bit per pair of buddies for "one of the two is free" | `allocator_malloc`, `allocator_free`, the id arithmetic, the lists | the bits must agree with the lists; eager merging | allocated blocks never overlap; what is freed can be had again |
| Queue and pipeline | `assignment2/queue.c`, `2_2.c`, `util.h` | four linked lists, a barrier of three | add, remove, size; the reader, two workers and a combiner | barrier and queues together, the end marker | every number is combined once, in order; the pipeline ends |
| Quicksort | `assignment2/quicksort.c` | the array, a count of threads (never compared with anything), a child process, a pipe | serial, threaded and piped sort | threads on one array, a child that sends back its half or fails half-way | sorted permutation; threads keep to their elements; nobody waits for ever |
| Offloading | `assignment2/2_1.c` | ten thread slots | start, join | nothing: the threads share no state | at most ten threads, all joined |
| Shell | `assignment1/1_4.c` | the argument vector, the children | parse, fork, exec, wait | background children, a failed `fork` | the prompt returns after the foreground child |
| Examples | `code-examples/` | counters and notes | `milk.c`, `milk3.c`; the others are single system calls | a race and its handshake | at most one carton |

How they interact: `os_assignment.c` resolves a path (`dfs-path.c`), finds or changes
an entry in a directory (`dfs.c`), which is a call on that directory's table
(`hashtable.c`); the buddy allocator calls `library.c` for its lists; the pipeline's
threads share the queues of `queue.c`. The assignments do not call each other.

Not modelled, with the reason, in `PROJECT.json` under `components`. Every hazard we
saw is under `hazards`, at its line, with the properties that cover it.

## 2. Plan

In order, the most important behaviour first.

1. **Hash table** (modelled and proved): `KeyMap`, `Hashtable`, `MCHashtable`,
   `HashtableProofs`.
2. **Buddy allocator** (modelled and proved): `BuddyIds` and `BuddyTree`
   (the arithmetic of `4_1.c` against a reference), `BuddyAllocator` (`allocator_malloc`
   and `allocator_free`, one step per loop iteration), `AllocatorSpec` (what it promises:
   disjoint blocks, failure only when no block is free), `BlockList` (the pointer lists of
   `library.c`, living in memory that clients write) and `FreeLists` (what those promise).
3. **Queue and pipeline** (modelled and proved): `Queue` refining `FifoQueue`, and `Pipeline`.
4. **File system** (modelled and proved): the handlers of `os_assignment.c` with
   `dfs.c` and the walk of `dfs-path.c` on a small tree, refining `DirTree`; `DfsPath`,
   the parsing of paths and its memory, by one handler or two at once.
5. **Quicksort** (modelled and proved): `Quicksort`, by threads and by a child process.

Every invariant and every refinement that a passing run checks is stated by a theorem
(`PROJECT.json` lists them); the four liveness properties stay with TLC. For `DfsPath` the
theorems are about one handler at a time, since with two the properties do not hold
(`path_race`).

Where a comment of the repository says something else than the code does, the modules follow
the code, and a run of its own shows the difference: `list_pop_first`, `fs_undefined`,
`path_leak` and `path_race`. TLC must find the one property of each violated.

## 3. The hash table

### Modules

* `KeyMap` says what `hashtable.h` promises: a finite map with `Add`, `Get`, `Remove`,
  `RemoveNext`, the status and data each returns, and `Refuse` for a duplicate.
* `Hashtable` is `hashtable.c`. `entries`, `cap`, `minCap`, `numEntries` and
  `numTombstones` are the fields of `struct Hashtable`; a slot is its key and data (the
  stored hash is `Hash[key]`). Keys are opaque and `Hash` is an arbitrary function to
  the naturals, a constant: collisions, in the hash and modulo the capacity, are the
  instance's choice. `result` is what the call returns.
* `MCHashtable` gives TLC its keys, hashes and workloads.
* `HashtableProofs` holds the theorems.

### Actions and code

A call is one action up to `resize_table`: nothing else runs (for the concurrent use by FUSE
see section 8). The probe loops of `ht_add` and `locate` are the predicate `StopsAt`: the
slot at which a walk from the home first meets one of the keys that end it; a walk that
meets none is `Spin`. `resize_table`, which ends every successful insertion and removal, is
`ResizeKeeps`, `ResizeFails` or `ResizeBegins`, then `RehashSkips` or `RehashCopies` for
every slot of the old array, then `RehashInstalls`. `AddDuplicate` and `AddNew` are
`ht_add`; `RemovePresent`, `RemoveAbsent` are `ht_rem`; `RemoveNext`, `NoEntriesLeft`,
`RemoveNextOverruns` are `ht_rem_next`, whose last outcome is reading past the array.
`Destroy` happens where `dfs_destroy_dir` calls it. `ResizeFails` lets the caller go on
after any call but `ht_rem_next`, whose only caller asserts that the status is good
(`dfs.c:39`; no makefile defines `NDEBUG`): the program ends (`pc = "aborted"`). The
constants 0.666667, 0.333333 and 1.414214 are exact fractions in millionths, the truncations
integer divisions.

Allocations fail as `Faults` says: `calloc` in `ht_create` and `resize_table` (the call
reports `HT_E_MALLOC_FAILURE`, after it took effect), `strdup` in `ht_add` (a null key
is stored and counted).

### Runs

| Run | Question | Instance |
|---|---|---|
| `ht_ops` | Is the table a map, does every call return? | any calls on six keys, three colliding at the last slot and two at the first, through growth from 8 to 11 slots; and fifteen keys filled and drained: 8, 11, 15, 21, 29 slots, and 20 when nine keys are left; no faults |
| `ht_faults` | What survives failing allocations? | three keys, six removals: enough for eight slots without a null one, a search that does not end, an `ht_rem_next` that leaves its array and a destruction that aborts |

The properties, each stated above its definition in `Hashtable`: `ProbingSound` says that a
probe finds what was stored; `CountersTrusted` that the counters err on the safe side:
`num_entries` is exact, `num_tombstones` never too low (it may be too high, see below);
`SizesBounded`, `NeverStuck` and `CallsReturn` that loops end; `ResizeKeepsContents` that
resizing loses nothing; `ImplementsKeyMap` is the refinement, with `map <- Contents`, the
keys stored and their data.

**Bounds.** `Workloads`, an action constraint of `ht_ops`, admits two kinds of history:
any calls on the six colliding keys with up to two removals, which are enough to put
tombstones into a probe chain, rehash past them and store a key again behind one; and
filling the table with fifteen keys in order and draining it from either end or by
`ht_rem_next`, since shrinking needs more than eight entries in at least 29 slots, out of
reach of unrestricted calls. `ChangesTable` does not follow a history behind a lookup or
another call that left the table as it was: the calls after it are those that can be made
instead of it. `MaxTombstones` stops removals when `num_tombstones`, which
never goes down, reaches it: eight in the drain, six in `ht_faults`. `BoundedEntries`
stops counting the entries of failed `strdup`s at five; every effect of one is visible
after one.

**Deadlock** is checked except in the fault run, where the program may really stop: an
assertion fails (`"aborted"`, `"overrun"`), or a search never ends (`"spinning"`).

**Fairness.** `FairSpec` adds weak fairness of `ResizeStep`: the thread that runs a call
goes on running it. No fairness is assumed of making calls.

### Proofs

For every set of keys and data, every hash function, every capacity, and every choice of
failing allocations, `HashtableProofs` proves:

* `TypeCorrect`: the type invariant; in particular the unsigned counter `num_entries`
  never wraps below zero. It is not inductive alone: the decrement needs
  `Cardinality(Live) <= numEntries`, and that, when the new array is installed, needs
  the new array to have as many live slots as the slots scanned (`Counted`).
* `CountersCorrect` (`CountersTrusted`): `num_entries` is exact when no `strdup` fails,
  and `num_tombstones` is never below the number of tombstones.
* `ProbingCorrect`: `ProbingSound`. The argument:
  a search that ends on a null slot proves the key absent (`AbsentWhereSearchEnds`,
  from unbroken chains and `DistanceInjective`), so storing it there keeps keys unique
  and chains unbroken (`StoreKeepsProbing`); a tombstone is not null, so removal breaks
  no chain (`BuryKeepsProbing`); and what is copied comes from distinct slots, so the
  new array has no duplicates either.

* `SizesCorrect` (`SizesBounded`): no resize goes below the initial capacity, and between
  calls at most two thirds of the slots are in use, when no array allocation fails and
  the floor is at least 8. The new array must hold the live entries with room to spare:
  `LoadArithmetic` does the rounding.
* `NeverStuckCorrect`: with no failing allocation, probes meet a null slot and
  `ht_rem_next` stays in its array. Between calls this is the load; while a resize
  is under way, the array has at most one slot more in use.
* `ResizeCorrect`: no step of `resize_table` changes what the table contains.
* `Implements`: with no failing allocation, `Spec => ImplementsKeyMap`. Every step maps
  to the `KeyMap` operation it performs or to a stutter; the null slot that stops the
  search is what makes an answer "absent" the map's answer.

They rest on the assumptions of `Hashtable`: the keys differ from the two markers, the
hash is a natural number, the floor is at least 3 (8 in the code).

Only model-checked: `CallsReturn` (liveness is out of the prover's reach).

### What the runs found

* `dfs_destroy_dir` asserts that no removal fails (`dfs.c:39`), while `ht_rem_next` reports
  the failure of the resize that follows it: after a failed `calloc` the assertion ends the
  program, with the entry removed and not destroyed. `ht_faults` reaches this. The handlers
  destroy a directory only when it is empty, so that no program of the repository does.
* A failed `strdup` is counted as an entry that `ht_rem_next` then looks for behind the
  end of its array, where the assertion of `hashtable.c:227` fails (`pc = "overrun"`,
  which `ht_faults` reaches). So nothing is claimed of what a destruction frees after a
  failure: it is not completed.
* `num_tombstones` only grows, where `hashtable.h:38` says "The total number of
  invalidated entries". `CountersTrusted` shows that it errs on the safe side, and
  `SizesBounded` that loads stay low; the cost is that, once it exceeds two thirds of the
  capacity, every call rehashes the whole table.

## 4. The buddy allocator

### Modules

* `BuddyIds` is the arithmetic of `4_1.c` (repeated in `4_2.c` and `4_3.c`), operator for
  function. A loop that searches a depth is the depth at which it stops. `Pow2` is the
  table of `1 << d`, a constant so that theorems can use its two defining facts.
* `BuddyTree` walks from block to block with those operators and, side by side, halves
  and doubles an interval; its invariants compare the two.
* `BuddyAllocator` is `4_3.c` with the bit fields of `4_2.c`. `levels`, `is_split_index`,
  `merge_index` are the globals of `library.c`; pointers are distances from `base_ptr`; a
  list is the sequence of its blocks; `requested_size`, `target_depth`, `depth`, `block`,
  `block_id` are locals of the call that `pc` says is running, 0 between calls. `held` is
  what clients hold, with the sizes they may write, `answer` the size last asked for and the
  pointer returned.
* `AllocatorSpec` says what a client may rely on. Its `Fail` allows NULL only when no
  aligned block of the size is vacant: this is where eager merging is needed.
* `BlockList` is the lists with their links. A block out of the lists is a client's, who
  may write over its links (`Scribble`). `FreeLists` says that these are sequences. Its
  names differ from those of the other modules (`ListSpec`, `ListCalls`, `LinksTyped`,
  `NoBlock`), so that one module can take all three.
* `MCBuddyAllocator` runs the three side by side. They share no variable, and each is
  explored with the other two in their initial states: the order of independent steps makes
  no difference, and multiplying the state spaces would add nothing.
* `BuddyProofs` holds the theorems about the first three, `BlockListProofs` those about
  the lists.

`BuddyAllocator` uses lists as `FreeLists` promises them, pushing only blocks that are in
no list and removing only blocks that are in one; `TreeAgrees` says that it does.

### Actions and code

`MallocRefuses`, `MallocExhausted` are the two early returns; `MallocTakes` runs up to
the loop; `MallocSplits` is an iteration and `MallocReturns` the end. `FreeBegins` runs
up to the loop of `allocator_free`, `FreeMerges` is an iteration, `FreeReturns` the
push. Clients free each block they hold once, by the pointer they got; `NULL` and
pointers outside the memory are ignored. Freeing twice, or an inner pointer, is outside
the contract of `free` and not modelled.

### Runs

| Run | Question | Instance |
|---|---|---|
| `buddy` | Do bits, lists and clients agree, is every answer right, every call finite? Do ids name blocks? Do the links implement sequences? | four levels, eight leaves; requests for every size of block, beside sizes, and beyond the memory; all 15 blocks of the walk; two lists with three blocks |
| `list_pop_first` | Does `list_pop` return the first entry (`library.c:88`)? | no: of two blocks the newer |

**Bounds.** The passing run is not cut: it explores its whole state space.
Four levels (five in the code) give a block two generations above and below it, which is
what a malloc that splits twice and a free that merges twice or stops half-way need; the
arithmetic of the ids is the same at every depth, and proved for every number of levels. The
order of the lists is part of the state, so every history counts. Three blocks are a
list with a first, a middle and a last member.

**Deadlock** is checked.

**Fairness.** `FairSpec` assumes only that the thread in a call goes on (`CallStep`).

### Proofs

For every number of levels and every size of leaf, `BuddyProofs` proves the four
invariants about the walk: `IdsCorrect`, `PairsCorrect`, `RequestsCorrect`, and
`BitsCorrect`, which needs three levels. The inductive invariant `Walk` says where the
walk is in terms of the arithmetic; that a step of the walk keeps it is a lemma about
`BuddyIds` for each direction (`Children`, `Parent`, `Buddy`).

Facts about all depths (the table of powers grows, sizes divide the memory, a loop that
searches a depth finds one) need induction. `LeastElement` provides it: a set of naturals
that is not empty has a least element, so a least counterexample is refuted by its
predecessor. The rest is division: `PtrOfId`, `IdOfPtr` and `BlockAround` say that the
blocks of a depth tile the memory.

They rest on `LevelsAssumption` (at least one level, leaves of at least one byte) and
`Pow2Assumption` (the table of powers is one).

For the same levels and leaves, and every history of calls, it proves of `4_3.c`:

* `AlwaysSound`: the inductive invariant. `OneRole` says that a block that has been cut out
  of the tree is split, in a list, held by a client or in hand, and only one of these;
  `Placed` and `ListedOnce` that lists and clients hold only starts of blocks of the depth
  and size they are kept under, none twice in a list; `MergeBitsExact` that the bit of a
  pair of buddies tells whether exactly one of them is free; `BuddiesMerged` that never
  both are. `TreeAgrees` is not inductive: `allocator_free` trusts the pair's bit, not the
  lists, when it takes the buddy out of one.
* `AlwaysTyped`, `AlwaysAgrees` (`TreeAgrees`), `AlwaysMerged` (`MergingExact`) and
  `AlwaysPartitioned` (`MemoryPartitioned`): what follows from it.
* `Implements`: `Spec => ImplementsAllocator`. A returning malloc hands out a block that
  overlaps no other client's; one that answers NULL does so only when no aligned block of
  the size is vacant. For the latter, a vacant block of a depth lies in a free block of
  that depth or a lower one: a block whose halves are both vacant has been merged.

`BlockListProofs`, for any lists and blocks and whatever clients write into the blocks they
hold:

* `AlwaysSound`: the inductive invariant. For every list there is a sequence of blocks,
  none in two places, around which `next` leads from the head and back to it, and `prev`
  the other way (`IsRing`); a block is in none of them exactly when it is taken
  (`Represents`). Like that of `Queue` it is an existential, whose witness each call
  extends or shortens: `RingLinks` and `RingUnlinks` say what `list_push` and
  `list_remove` do to a ring, `RingStays` that writing to nodes outside a ring leaves it.
* `AlwaysTyped` (`TypeOK`) and `AlwaysListed` (`ListsSound`). The latter counts the steps of
  a walk along the links: it is back at the head one step after the last block of the list
  (`LoopIs`), and the walk is a recursive function, which is first shown to exist
  (`WalkExists`).
* `Implements` (`ImplementsFreeLists`): the calls do to the sequences what `FreeLists` says,
  and `block_is_in_free_list` answers what these hold.

They rest on `NodesAssumption`: no list is a block, `NULL` and junk are neither, and there
are finitely many nodes. Finiteness is needed because a loop is looked for within as many
steps as there are nodes.

Only model-checked: `CallsReturn`, which is liveness.

### What the runs found

Two comments differ from the code. `list_pop` takes the last entry, not the first
(`library.c:88`; the run `list_pop_first` pushes two blocks and gets the second). The model
pops as the code does, and no other property depends on which entry it is. And the formula
of the TODO at `library.c:130` gives half the size of the merge index. `size_merge_index`
and `size_block_is_split` are computed from the largest index, not from the number of bits;
rounding up to bytes hides the difference (`BitsFitTheArrays`) from three levels on. With
two levels `is_split_index` would have no byte for the root's bit.

## 5. The queue and the pipeline

### Modules

* `Queue` is `queue.c` with its pointers: `front`, `back`, and `next` and `val` of every
  node. `allocated` is what `malloc` has given out; memory that is not holds `Junk`.
  `mutex` names its holder. `pc`, `arg`, `node` and `i` are where a thread is in its call,
  its argument and its locals.
* `FifoQueue` is a sequence and calls that take effect at once. The mapping gives the
  point at which each does: an addition when its node is linked, a removal when `front`
  moves on, `queueSize` when it reads the `NULL` that ends its loop.
* `Pipeline` is `2_2.c`: main, the two workers, the combining thread, the four queues and
  the barrier. A call on a queue is one step, which is what `Queue` is checked to allow:
  `2_2.c` never calls `queueSize`.
* `QueueProofs` and `PipelineProofs` hold the theorems.

### Actions and code

Each locked call of `queue.c` is cut into the lock, what it does to the list, and the
unlock with the return. `SizeBegins` and `SizeCounts` are the test and an iteration of
`queueSize`, which takes no lock; it follows `next` of whatever node it has come to, freed
or not, and only from `Junk`, which is no address of a node, the model has no way on. Its
reads are taken in the order of the program, each with the value last written: C promises
less to reads without a lock. In `Pipeline` there is an action for each call on a
queue, for the barrier (`Arrives`), for the arithmetic and printing of thread 3
(`Prints`), and for main's `fgets` with the checks on the number (`MainReads`), the end
of the file (`MainMeetsEnd`) and the joins (`MainJoins`).

### Runs

| Run | Question | Instance |
|---|---|---|
| `queue_calls` | Do the calls implement a FIFO queue, with no node lost? | three threads that add, one of which also removes and counts |
| `pipeline` | Are results printed in order, each once, and does the program end? | up to three numbers and each way for the input to end |

**Bounds.** Each queue of `2_2.c` has one thread that removes from it, so has the instance;
that thread also calls `queueSize`, so that no node is freed meanwhile. `Nodes` bounds the
length of the queue at three: one node is front and back at once, two are neither alone nor
apart, three have one between. The inputs hold both ends of the range 1 to 100, a number
whose result is 0 (71, which `function_2` takes to 0: a result that must not be taken for
`EMPTY` or the end marker), and then 0, a number above 100 with another line behind it, a
negative one, or nothing. Three numbers let main run ahead of the workers by more than a
round.

**Deadlock** is checked; `Terminated` lets the program stay ended.

**Fairness.** `FairSpec` of `Pipeline` gives each of the four threads its turn as long as
it can go on: the threads are POSIX threads that the system schedules preemptively, and
the mutex inside a queue's call is held for a few instructions.

Left out: `malloc`, `pthread_create` and barrier failures (assertions or unchecked), the
text of the lines, and the half billion iterations inside `function_1` and `function_2`,
which are constants of the model.

### Proofs

`QueueProofs`, for any threads, values and finite memory (`QueueAssumption`):

* `AlwaysSound`: there is a sequence of nodes, none twice, whose links lead from `front` to
  `NULL`; `back` is its last node unless `addToQueue` is about to set it; and what is
  allocated is this sequence and the node in the hands of the thread that holds the mutex.
  The invariant is an existential: the sequence is a witness that each step extends,
  shortens or keeps. `ListWhole` alone says nothing of a list half-way through a call.
* `AlwaysTyped`, `AlwaysWhole` (`ListWhole`): what follows from it. `front` and `back`, by
  which additions and removals walk, are never junk; of the local of `queueSize` nothing is
  said, since it may stand on a node that another thread frees.
* `Implements` (`ImplementsFifoQueue`): the refinement, when all who remove or count are
  one thread, as for each queue of `2_2.c`. An addition may be linked while that thread
  counts: the count is then one of the sizes that the queue had.

`PipelineProofs`, for every input and any two worker functions:

* `AlwaysSound`: what is in a queue is exactly the stretch of lines between the place of the
  thread that adds and that of the one that removes, with the end marker behind them once
  it is sent; each thread's locals are those of its place; and who has arrived at the
  barrier is told by the threads' places. `ResultsInOrder` is not inductive: the combiner
  takes from two queues in turn, and that both heads belong to the same line needs all of
  this.
* `AlwaysTyped`, `AlwaysInOrder` (`ResultsInOrder`), `AlwaysComplete` (`CompleteOnReturn`).

Only model-checked: `EndsAfterStop`, which is liveness.

### What the runs found

`queueSize` walks the list without the mutex that `queue.h:28` says guards it. Beside
additions its answer is a size that the queue has during the call, which
`ImplementsFifoQueue` checks; beside a removal by another thread it reads a node that has
been freed, and may follow it anywhere: the instance, like the theorem `Implements`, leaves
removing and counting to one thread. No program of the repository calls `queueSize`. An
input that ends without a number outside 1 to 100 leaves the workers asking their empty
queues for ever; `EndsAfterStop` therefore speaks of inputs that do.

## 6. The file system

### Modules

* `FileSystem` is the handlers of `os_assignment.c`, one after another. `heap` is the
  entries in memory: type, contents of a file, and for a directory the names in its hash
  table with the entries they point to. `reply` is what the last handler returned, until
  libfuse has sent it. Operators have the names of the functions they stand for; each
  carries the status that the function returns.
* `DfsPath` is what every handler does to its path string: `dfs_parse_path`, then
  `dfs_path_pop` in those that need the parent, the walk, `dfs_destroy_path`, and `free` of
  the name. `live` is what is allocated, `olds` the static variable of `strtok`; a handler's
  record holds its locals. `FileSystem` starts from the names that this module finds.
* `DirTree` is what a client sees: a tree of path names, and the answer to each call. The
  mapping walks every path from the root.
* `FileSystemProofs` and `DfsPathProofs` hold the theorems.

### Actions and code

A handler is one action: the walk (`dfs_find_entry`, one step of a recursive function for
each name), its early returns, and what it does. `Makes` is shared by `os_mkdir` and
`os_create`, whose code differs in the constructor alone, `Removes` by `os_rmdir` and
`os_unlink`, `Sets` by `os_chmod`, `os_chown` and `os_utimens`, which find an entry and set
fields that the model leaves out. `OutOfMemory` is a failing allocation at a place from
which the handler recovers. `Tears` is one inside the table. When the `strdup` of `ht_add`
fails (`hashtable.c:108`), the entry is stored under a null key and `os_mkdir` or
`os_create` answers 0: it is in memory, and nobody finds it. When `resize_table` fails,
`ht_add` or `ht_rem` has changed the table, and the handler answers `-ENOMEM`. Both may
happen in one call. `calloc` may return any entry that is free, so one that was freed comes
back.

`state` stops the model in two cases. In `"torn"` what a caller was told is not what became
of the table: an entry was made that nobody finds, the directory holds a pointer to an entry
that `os_mkdir` has destroyed, or an entry that nobody can free was taken out of it. The
step into this state shows what is answered and what is in memory; nothing is claimed of it
or of what follows. In `"undefined"` a
handler has used a pointer that was never set.

In `DfsPath` each call of `strtok`, `strdup`, `calloc` and `realloc` is a step, since
another thread may run between two of them; the trimming before the first touches only
locals and the caller's string. `strtok` is modelled by its contract: it skips slashes,
overwrites the slash behind the token with a NUL, and remembers the place after it.

### Runs

| Run | Question | Instance |
|---|---|---|
| `fs_ops` | Does every handler do what `DirTree` says, with no entry lost, shared or dangling? | three entries below the root, two names, paths of three names, files of two bytes |
| `fs_undefined` | Does every handler answer (`os_assignment.c:478`)? | no: see below |
| `paths` | Is a path the names in its string, is its memory freed once? | every string of up to five characters, a slash or one of two letters, and of six with one letter; any allocation may fail |
| `path_leak` | Is the name that `dfs_path_pop` hands out freed (`dfs-path.h:90`)? | no: see below |
| `path_race` | Does that hold for two handlers at once? | no: see below |

**Bounds.** Three entries are a directory in a directory with a file in it, or a
directory and two files, and each path of three names can end below a file. Two bytes
show a gap between the end of a file and a write, zeros behind the old end, and a read
that is cut. `MaxDepth` is at least 2, since the tree that `create_dfs` builds has a file
inside a directory. `Offsets` has a negative one; `ReadOffsets` has none (see
below). Names and entries are interchangeable
(`Symmetry`). Six characters are three names with a slash before each, or fewer and longer
ones with slashes doubled, leading and trailing; two letters tell apart a name that is cut,
and two names in the wrong order.

**Deadlock** is checked; once `state` is not `"running"` the model stays as it is; so does
`DfsPath` after a leak.

Left out: mode, owner and times of an entry; the path functions that nothing calls
(`dfs_path_append`, `dfs_path_concatenate`, `dfs_clone_path`, `dfs_reset_path`,
`dfs_unparse_path`). The handlers of `DfsPath` differ from each other only in whether they
take the last name off.

### Proofs

`FileSystemProofs`, for any entries and names, any buffers, offsets and sizes, and any
`MaxDepth` from 2 (`FileSystemAssumption`):

* `AlwaysSound`: the inductive invariant `Sound`. `IsHeap` types the entries; until a
  failing `strdup` or `resize_table` has torn the tree, it is also `Good`:
  - `Linked`: what a directory holds is allocated, and not the root;
  - `Once`: an entry is in one directory, under one name;
  - `Plain`: a file holds no names, a directory no bytes;
  - `Reached`: every entry is at the end of a path from the root, of at most `MaxDepth`.

  `TreeSound` says that exactly the allocated entries are below the root; it needs all
  four. That nothing is left behind when a directory goes needs `Reached`, which makes the
  links acyclic together with `Once`; that an entry which a handler frees is not held
  elsewhere needs `Once`, for every other directory and not only for those below the root.
* A walk is a recursive function, of which the prover knows nothing until one is shown to
  exist (`WalkExists`). What a walk returns is then read from its last step (`FindLast`),
  and facts about all paths follow by the length of a path: `PathInduction` refutes a
  shortest counterexample. The first is `FindOnce`: no two paths lead to the same entry.
* Three lemmas say that `Good` survives what handlers do: `GrownGood` when an entry is
  made, `ShrunkGood` when an empty one goes, `FilledGood` when a file is written. The
  handlers are then cases of these.
* `AlwaysTyped` (`TypeOK`) and `AlwaysTree` (`TreeSound`) follow from `Sound`.
* `Implements` (`ImplementsDirTree`): every step is a step of `DirTree`, or leaves what it
  sees unchanged. `Tree(h, r)` is what `DirTree` sees of a heap `h`; `GrownTree`,
  `ShrunkTree` and `FilledTree` are the same three changes seen from there: a path is added,
  taken away, or given new bytes, and every other path leads where it led. The errors agree
  because a lookup ends at a file exactly when one lies on the path (`FileBefore`,
  `ErrorCases`); the names that `os_readdir` lists and the links that `os_getattr` counts
  agree because the children of a path are the names in its directory (`ChildrenAre`,
  `AppendCounts`). A handler that uses a pointer which was never set changes no tree, and a
  tree that is torn is outside what `DirTree` promises. The theorem assumes that no read
  starts below 0 (`ReadOffsets \subseteq Nat`): with one that does, it is false.

`DfsPathProofs`, for strings of any length over any characters, whichever allocations fail,
and one handler at a time (`Threads = {t}`; with two, `path_race` shows that the first of
the properties is false):

* `AlwaysSound`: the inductive invariant. Between two calls of `strtok`, `Placed` says that
  the copy of the string differs from the string only in slashes that were overwritten,
  that none has been overwritten from the remembered place on up to the last name, and
  that no name goes on at that place; `Counting` and `Copying` that the number of names
  that begin before that place is the number counted or copied so far. `Allocated` says
  what is allocated at each step.
* `ScansFind` is its core: one call of `strtok` on such a copy finds the one name that
  begins between the old place and the new one, or that there is none behind. The names of
  a string are told by where they begin (`NameStarts`) and numbered by how many begin up to
  there (`NamesUpTo`); `CountStays` and `CountGrows` replace induction over the string.
  Before the second pass `dfs_parse_path` puts the slashes back only up to the last name:
  `Placed` asks for no more.
* `AlwaysFindsNames` (`ParseFindsNames`) needs in addition that a path has the names that it
  has without its leading slashes (`TrimmedNames`).
* `AlwaysFreed` (`PathsFreed`): what `dfs_destroy_path` frees is what is allocated, less the
  copied string or the popped name where the code leaves these (`DestroysAll`, `Things`).

They rest on `DfsPathAssumption`: a slash is a character and NUL is none, strings are
finite, and `NULL` is no string and no pointer.

Only model-checked: nothing that the passing runs check; `path_leak`, `path_race` and
`fs_undefined` are counterexamples.

### What the run and the modelling found

* `os_getattr`, `os_truncate`, `os_chmod`, `os_chown` and `os_utimens` do not look at
  `DFS_E_NOT_A_DIRECTORY` (`fs_undefined`).
* `os_read` answers a negative offset with `EINVAL` instead of `-EINVAL`, which libfuse
  would take for 22 bytes read. `DirTree` demands `-EINVAL`: with -1 among `ReadOffsets`
  TLC finds `ImplementsDirTree` violated in one step. The run leaves it out because the
  kernel refuses a negative offset before it asks libfuse.
* A failing `strdup` in `ht_add` loses an entry behind an answer of 0 (see `Tears`);
  `TreeSound` and `ImplementsDirTree` say nothing from there on.
* `os_write` behind the end leaves the gap unset; `DirTree` promises nothing of it.
* Two handlers that parse at once share the static place of `strtok`: the run `path_race`
  ends with `/a` parsed to two names, the second of them NULL.
* `dfs_parse_path` leaks the copied string when the components cannot be allocated, and
  `dfs_path_pop` the name when the array cannot be made smaller, although its header says
  that the name must be freed: the run `path_leak`. `PathsFreed` allows these and no other
  leak.
* `dfs_path_append`, which nothing calls, writes over the last component instead of after
  it.
* The refinement could not be proved while the status that a handler answers was a `CASE`
  with overlapping guards: which arm is taken is then not determined, and TLC took the
  first. It is now decided in the order of the code.
* `os_write` and `os_truncate` do not touch `mtime`, "the datetime the entry was
  modified" (`dfs.h:70`); times are not modelled.

## 7. Quicksort

### Module

`Quicksort` is `quicksort.c`: `main` calls `quicksort_with_pipes`; `quicksort`, which uses
threads, has the same type and is called by no program; the module lets `main` call either.
`calls` holds the activations of the parallel function, named by their arguments `first` and
`last`: where each is and where its pivot went. `array` is the memory that the threads
share; the child of a `fork` has its own copy in `child`. `pipe`, `readers` and `writers`
are the pipe and its open ends, `point` and `child.next` the places in the array where
either side is. `QuicksortProofs` holds the theorems.

### Actions and code

`Begins` is a call up to the choice between serial and parallel, with the whole of
`pivot`; `SortsBoth` is its two calls of `serial_quicksort`, which no other thread can
see: `ThreadsApart` checks that the elements are nobody else's. `Counts`, `Creates` and
`Joins` are the rest of `quicksort`. `Forks`, `ParentSorts`, `ParentReads`,
`ParentStopsReading` and `ParentWaits` are the parent, `ChildSorts`, `ChildWrites` and
`ChildEnds` the child; the steps before and after each read and write are separate, since
the other process runs meanwhile. A read or write moves one integer: a transfer of more,
or of a part of one, is finished by the loops around them before anybody looks. `pivot`
and `serial_quicksort` are recursive functions: `Compared` is an iteration of the loop of
`pivot`, and `sort[t]` what the recursive call for the indices `t` makes of an array.

### Runs

| Run | Question | Instance |
|---|---|---|
| `quicksort` | Do threads keep apart, is the result the sorted array, does the program end? | arrays of up to five elements and some of seven; three values; a pipe for two integers; `pipe`, `fork`, `read` and `write` may fail |

**Bounds.** Five elements with three values have every order of equal and different
elements that two levels of partitioning tell apart. `SerialBelow` is 2, where the code has
10 and 10000, so that arrays of three elements are divided; those of seven elements
(`Halved`) have two halves that are divided again, by six threads at once. A pipe for two
integers is full before a child with three has written them.

**Deadlock** is checked; `Terminated` lets the program stay ended.

**Fairness.** `FairSpec` assumes that the system does not stop as long as some thread or
process can go on (weak fairness of `Step` as a whole). Which of them goes on is left
open: every step of any of them brings the end nearer.

Left out: `pthread_create` is assumed to succeed (it is not checked, and joining a thread
that was not created is undefined); a process killed from outside, except the child, whose
death is a failed write.

### Proofs

`QuicksortProofs`, for every array, all thresholds, a pipe of any size and any system calls
that fail (`QuicksortAssumption`):

* `SerialSortsPart`: `serial_quicksort` sorts the part it is called for, with the elements
  it had, and leaves the rest alone. A recursive definition says nothing to the prover until
  a function that satisfies it is shown to exist; both that and the sorting are by the
  length of the part, and `LeastNumber` stands in for induction: a shortest counterexample
  is refuted by its halves.
* `AlwaysSound`: the inductive invariant. Its shape:
  - `Relate`: of any two calls, one lies before the other with a pivot between them, or one
    is below the other, which has not returned before it. `HalfOf` and `HasHalves` tie a
    call to the one that created it. `ThreadsApart` is not inductive without them: what
    keeps the halves of a new call apart from all others is that the call itself is.
  - `Placed`: the elements next to a call's part are pivots of others, and no element of
    the part exceeds the one behind or is less than the one before. A half that is sorted
    by a thread keeps this (`AroundShuffled`), so a pivot never moves again.
  - `Shuffled`: the array is what was given, in some order. With the two it follows that a
    pivot is where the sorted array has it (`ShuffledInPlace`), which counts the elements
    that are less and those that are not greater.
  - `Finished`: the part of a call that has returned is sorted; a join puts two sorted
    halves around a pivot (`SortedHalves`).
  - after a fork, `Flowing` (what is in the pipe is the stretch of the child's array between
    the two places), `Holding` (whose end is open, and that without a failure everything
    comes through) and `Sharing` (whose part is sorted).
* `AlwaysTyped`, `AlwaysSplit` (`SplitsHold`), `AlwaysApart` (`ThreadsApart`),
  `AlwaysSorted` (`SortedAtEnd`): what follows from it.

Only model-checked: `Terminates`, which is liveness.

### What the modelling found

`thread_count` counts threads and limits nothing. When the child fails, the parent goes
on and `main` validates what came through: `checkFn` compares neighbours only, so that it
may accept an array that lost elements. `SortedAtEnd` promises what is true then: all that
was read, the pivot and everything behind it are in place.

## 8. Not modelled

* **Handlers at once** beyond `strtok`: `fuse_main` runs them on several threads and
  nothing is locked, so two handlers that meet in a hash table or in the contents of a file
  have a data race at every access. C promises nothing afterwards, and a model that
  interleaved whole accesses would promise too much. `path_race` shows the race that comes
  first, in parsing.
* **Offloading** (`2_1.c`): at most ten threads that share nothing, all joined.
* **Shell** (`1_4.c`): a loop of library and system calls over local variables. One thing
  to know: a failed `fork` answers -1, and `waitpid(-1)` then waits for any child.
* **Niceness** (`2_3.c`), **first programs**, **single-call examples**: measurements, input
  and output.
* **`milk*.c`**: demonstrations of races on plain variables, whose outcome is undefined.
* **Signed loader and stack exercise** (`assignment5`): about memory corruption, not a
  protocol or data structure.
* **Liveness** is out of the prover's reach: `CallsReturn` of the hash table and of the
  allocator, `EndsAfterStop` and `Terminates` stay with TLC.
