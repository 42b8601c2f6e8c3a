------------------------------- MODULE Quicksort -------------------------------
(***************************************************************************)
(* assignment2/quicksort.c: an array sorted by quicksort, which gives each *)
(* half to a thread, or by quicksort_with_pipes, which forks a child for   *)
(* the left half and reads the result back through a pipe.  main calls the *)
(* second; both have the same type.  A call is named by its arguments, the *)
(* first and the last index: no two calls of a run have the same.          *)
(***************************************************************************)
EXTENDS Integers, Sequences, FiniteSets

CONSTANTS
  MaxLength, Arrays,   \* the arrays to sort
  SerialBelow,         \* last - first from which a call works in parallel
  PipeCapacity,        \* how many integers fit into a pipe
  Faults               \* the system calls that may fail

Functions == {"quicksort", "quicksort_with_pipes"}
Ends == {"parent", "child"}

ASSUME QuicksortAssumption ==
  /\ MaxLength \in Nat
  /\ \A a \in Arrays : \E n \in 0 .. MaxLength : a \in [0 .. n - 1 -> Int]
  /\ SerialBelow \in [Functions -> Nat \ {0}]
  /\ PipeCapacity \in Nat \ {0}
  /\ Faults \subseteq {"pipe", "fork", "write", "read"}

VARIABLES
  given,            \* the array as init left it
  array,            \* the array now, in the memory of main and its threads
  function,         \* the function that main calls
  calls,            \* its calls: what each does next, and the index of its pivot
  thread_count,
  child,            \* the forked child: what it does next, its copy of the array,
                    \*   and the index of the integer it writes next
  point,            \* the index of the integer that the parent reads next
  pipe,             \* the integers in the pipe
  readers, writers, \* the processes that hold an open end of it
  failed,           \* the system calls that have failed
  verdict           \* what main's validation says

shared == <<given, function>>
transfer == <<child, point, pipe, readers, writers, failed>>
vars == <<shared, array, calls, thread_count, transfer, verdict>>

Root == <<0, Cardinality(DOMAIN given) - 1>>
Left(s) == <<s[1], calls[s].p - 1>>
Right(s) == <<calls[s].p + 1, s[2]>>
Goes(s, step) == calls' = [calls EXCEPT ![s].pc = step]

-------------------------------------------------------------------------------
(* The serial algorithm *)

swap(a, i, j) == [a EXCEPT ![i] = a[j], ![j] = a[i]]

\* The next element: if it is not greater than x, it joins those before index p.
Compared(seen, i, x) ==
  IF seen.array[i] <= x
  THEN [p |-> seen.p + 1, array |-> swap(seen.array, i, seen.p + 1)]
  ELSE seen

\* Mutant: the pivot stays where it was.
PivotUnplaced(a, first, last) ==
  LET scan[i \in first .. last] ==
        IF i = first THEN [p |-> first, array |-> a] ELSE Compared(scan[i - 1], i, a[first])
  IN  scan[last]

\* The array partitioned around its first element, and where that went.
pivot(a, first, last) ==
  LET scan[i \in first .. last] ==
        IF i = first THEN [p |-> first, array |-> a] ELSE Compared(scan[i - 1], i, a[first])
  IN  [p |-> scan[last].p, array |-> swap(scan[last].array, scan[last].p, first)]

\* sort[t] is what a call for t, two indices or the empty half next to one,
\* makes of an array.
serial_quicksort(a, s) ==
  LET length == Cardinality(DOMAIN a)
      sort[t \in (0 .. length) \X (-1 .. length - 1)] ==
        [b \in [DOMAIN a -> Int] |->
           IF t[1] >= t[2] THEN b
           ELSE LET r == pivot(b, t[1], t[2])
                IN  sort[<<r.p + 1, t[2]>>][sort[<<t[1], r.p - 1>>][r.array]]]
  IN  sort[s][a]

checkFn(a) == \A i \in DOMAIN a : i + 1 \in DOMAIN a => a[i] <= a[i + 1]

-------------------------------------------------------------------------------
Init ==
  /\ given \in Arrays
  /\ array = given
  /\ function \in Functions
  /\ calls = [s \in {Root} |-> [pc |-> "begin", p |-> 0]]
  /\ thread_count = 0
  /\ child = [pc |-> "none", array |-> given, next |-> 0]
  /\ point = 0
  /\ pipe = <<>>
  /\ readers = {}
  /\ writers = {}
  /\ failed = {}
  /\ verdict = "none"

-------------------------------------------------------------------------------
(* Both functions *)

\* A call with fewer than two elements returns; any other partitions them.
Begins(s) ==
  /\ calls[s].pc = "begin"
  /\ \/ /\ s[1] >= s[2]
        /\ Goes(s, "returned")
        /\ UNCHANGED array
     \/ /\ s[1] < s[2]
        /\ LET r == pivot(array, s[1], s[2])
               step == IF s[2] - s[1] < SerialBelow[function] THEN "serial"
                       ELSE IF function = "quicksort" THEN "count" ELSE "fork"
           IN  /\ array' = r.array
               /\ calls' = [calls EXCEPT ![s] = [pc |-> step, p |-> r.p]]
  /\ UNCHANGED <<shared, thread_count, transfer, verdict>>

SortsBoth(s) ==
  /\ calls[s].pc = "serial"
  /\ array' = serial_quicksort(serial_quicksort(array, Left(s)), Right(s))
  /\ Goes(s, "returned")
  /\ UNCHANGED <<shared, thread_count, transfer, verdict>>

\* main validates the array when the call it made has returned.
Validates ==
  /\ calls[Root].pc = "returned"
  /\ verdict = "none"
  /\ verdict' = IF checkFn(array) THEN "successful" ELSE "failed"
  /\ UNCHANGED <<shared, array, calls, thread_count, transfer>>

-------------------------------------------------------------------------------
(* quicksort *)

\* Both increments are made under the mutex.
Counts(s) ==
  /\ calls[s].pc = "count"
  /\ thread_count' = thread_count + 2
  /\ Goes(s, "create_left")
  /\ UNCHANGED <<shared, array, transfer, verdict>>

\* Mutant: the right half goes on to the index behind the last one.
CreatesPastLast(s) ==
  /\ calls[s].pc \in {"create_left", "create_right"}
  /\ LET half == IF calls[s].pc = "create_left" THEN Left(s)
                 ELSE <<calls[s].p + 1, s[2] + 1>>
         step == IF calls[s].pc = "create_left" THEN "create_right" ELSE "join_left"
     IN  calls' = [t \in DOMAIN calls \cup {half} |->
                     IF t = half THEN [pc |-> "begin", p |-> 0]
                     ELSE IF t = s THEN [calls[s] EXCEPT !.pc = step] ELSE calls[t]]
  /\ UNCHANGED <<shared, array, thread_count, transfer, verdict>>

\* pthread_create gives a half to a thread of its own.
Creates(s) ==
  /\ calls[s].pc \in {"create_left", "create_right"}
  /\ LET half == IF calls[s].pc = "create_left" THEN Left(s) ELSE Right(s)
         step == IF calls[s].pc = "create_left" THEN "create_right" ELSE "join_left"
     IN  calls' = [t \in DOMAIN calls \cup {half} |->
                     IF t = half THEN [pc |-> "begin", p |-> 0]
                     ELSE IF t = s THEN [calls[s] EXCEPT !.pc = step] ELSE calls[t]]
  /\ UNCHANGED <<shared, array, thread_count, transfer, verdict>>

\* Mutant: the second thread is not joined.
JoinsFirst(s) ==
  /\ calls[s].pc = "join_left"
  /\ calls[Left(s)].pc = "returned"
  /\ Goes(s, "returned")
  /\ UNCHANGED <<shared, array, thread_count, transfer, verdict>>

\* pthread_join waits for one thread, then for the other.
Joins(s) ==
  /\ \/ /\ calls[s].pc = "join_left"
        /\ calls[Left(s)].pc = "returned"
        /\ Goes(s, "join_right")
     \/ /\ calls[s].pc = "join_right"
        /\ calls[Right(s)].pc = "returned"
        /\ Goes(s, "returned")
  /\ UNCHANGED <<shared, array, thread_count, transfer, verdict>>

-------------------------------------------------------------------------------
(* quicksort_with_pipes: the parent *)

\* The program ends when there is no pipe or no child to be had.
Forks ==
  /\ calls[Root].pc = "fork"
  /\ \/ /\ Goes(Root, "sort")
        /\ child' = [pc |-> "sort", array |-> array, next |-> Left(Root)[1]]
        /\ point' = Left(Root)[1]
        /\ readers' = Ends
        /\ writers' = Ends
        /\ UNCHANGED failed
     \/ \E f \in Faults \cap {"pipe", "fork"} :
          /\ Goes(Root, "exited")
          /\ failed' = failed \cup {f}
          /\ UNCHANGED <<child, point, readers, writers>>
  /\ UNCHANGED <<shared, array, thread_count, pipe, verdict>>

ParentSorts ==
  /\ calls[Root].pc = "sort"
  /\ writers' = writers \ {"parent"}
  /\ array' = serial_quicksort(array, Right(Root))
  /\ Goes(Root, "read")
  /\ UNCHANGED <<shared, thread_count, child, point, pipe, readers, failed, verdict>>

\* A read waits for an integer as long as somebody holds an end for writing.
ParentReads ==
  /\ calls[Root].pc = "read"
  /\ point <= Left(Root)[2]
  /\ pipe # <<>>
  /\ array' = [array EXCEPT ![point] = Head(pipe)]
  /\ pipe' = Tail(pipe)
  /\ point' = point + 1
  /\ UNCHANGED <<shared, calls, thread_count, child, readers, writers, failed, verdict>>

\* Mutant: a read that says 0 or -1 is tried again.
ParentReadsAgain ==
  /\ calls[Root].pc = "read"
  /\ \/ /\ point > Left(Root)[2]
        /\ readers' = readers \ {"parent"}
        /\ Goes(Root, "wait")
     \/ /\ point <= Left(Root)[2]
        /\ pipe = <<>> /\ writers = {}
        /\ UNCHANGED <<calls, readers>>
  /\ UNCHANGED <<shared, array, thread_count, child, point, pipe, writers, failed, verdict>>

\* Everything is read, or a read says 0 or -1: the parent closes its end.
ParentStopsReading ==
  /\ calls[Root].pc = "read"
  /\ \/ /\ point > Left(Root)[2] \/ (pipe = <<>> /\ writers = {})
        /\ UNCHANGED failed
     \/ /\ point <= Left(Root)[2]
        /\ "read" \in Faults
        /\ failed' = failed \cup {"read"}
  /\ readers' = readers \ {"parent"}
  /\ Goes(Root, "wait")
  /\ UNCHANGED <<shared, array, thread_count, child, point, pipe, writers, verdict>>

ParentWaits ==
  /\ calls[Root].pc = "wait"
  /\ child.pc = "ended"
  /\ Goes(Root, "returned")
  /\ UNCHANGED <<shared, array, thread_count, transfer, verdict>>

-------------------------------------------------------------------------------
(* quicksort_with_pipes: the child *)

ChildSorts ==
  /\ child.pc = "sort"
  /\ readers' = readers \ {"child"}
  /\ child' = [child EXCEPT !.pc = "write", !.array = serial_quicksort(@, Left(Root))]
  /\ UNCHANGED <<shared, array, calls, thread_count, point, pipe, writers, failed, verdict>>

\* Mutant: the child starts one element late.
ChildWritesLate ==
  /\ child.pc = "write"
  /\ child.next <= Left(Root)[2]
  /\ readers # {}
  /\ Len(pipe) < PipeCapacity
  /\ pipe' = Append(pipe, child.array[child.next + 1])
  /\ child' = [child EXCEPT !.next = @ + 1]
  /\ UNCHANGED <<shared, array, calls, thread_count, point, readers, writers, failed, verdict>>

\* A write waits for room, an integer after another.
ChildWrites ==
  /\ child.pc = "write"
  /\ child.next <= Left(Root)[2]
  /\ readers # {}
  /\ Len(pipe) < PipeCapacity
  /\ pipe' = Append(pipe, child.array[child.next])
  /\ child' = [child EXCEPT !.next = @ + 1]
  /\ UNCHANGED <<shared, array, calls, thread_count, point, readers, writers, failed, verdict>>

\* The child closes its ends, by itself or by its death: everything is
\* written, or nobody is left to read, or a write fails.
ChildEnds ==
  /\ child.pc = "write"
  /\ \/ /\ child.next > Left(Root)[2] \/ readers = {}
        /\ UNCHANGED failed
     \/ /\ child.next <= Left(Root)[2]
        /\ "write" \in Faults
        /\ failed' = failed \cup {"write"}
  /\ child' = [child EXCEPT !.pc = "ended"]
  /\ writers' = writers \ {"child"}
  /\ readers' = readers \ {"child"}
  /\ UNCHANGED <<shared, array, calls, thread_count, point, pipe, verdict>>

-------------------------------------------------------------------------------
Thread(s) == Begins(s) \/ SortsBoth(s) \/ Counts(s) \/ Creates(s) \/ Joins(s)
Parent == Forks \/ ParentSorts \/ ParentReads \/ ParentStopsReading \/ ParentWaits
Child == ChildSorts \/ ChildWrites \/ ChildEnds
Step == (\E s \in DOMAIN calls : Thread(s)) \/ Parent \/ Child \/ Validates

Over == verdict # "none" \/ calls[Root].pc = "exited"
Terminated == Over /\ UNCHANGED vars

Next == Step \/ Terminated
Spec == Init /\ [][Next]_vars

\* As long as a thread or a process can go on, one does.
FairSpec == Spec /\ WF_vars(Step)

-------------------------------------------------------------------------------
(* Properties *)

\* Variables have their types: first and last, the arguments of every call, are
\* indices of the array or enclose an empty half beside one.
TypeOK ==
  /\ given \in Arrays
  /\ array \in [DOMAIN given -> Int]
  /\ function \in Functions
  /\ \A s \in DOMAIN calls :
       /\ s[1] \in 0 .. Root[2] + 1
       /\ s[2] \in s[1] - 1 .. Root[2]
       /\ calls[s].pc \in {"begin", "serial", "count", "create_left", "create_right", "join_left",
            "join_right", "fork", "sort", "read", "wait", "returned", "exited"}
       /\ calls[s].p \in Nat
  /\ thread_count \in Nat
  /\ child \in [pc : {"none", "sort", "write", "ended"}, array : [DOMAIN given -> Int],
                next : Nat]
  /\ point \in Nat
  /\ pipe \in Seq(Int)
  /\ readers \subseteq Ends /\ writers \subseteq Ends
  /\ failed \subseteq Faults
  /\ verdict \in {"none", "successful", "failed"}

Working == {s \in DOMAIN calls : calls[s].pc \notin {"returned", "exited"}}
Divided == {s \in DOMAIN calls : s[1] < s[2] /\ calls[s].pc # "begin"}

\* What a sorted array would have at an index.
InPlace(a, i) ==
  /\ Cardinality({j \in DOMAIN given : given[j] < a[i]}) <= i
  /\ Cardinality({j \in DOMAIN given : given[j] <= a[i]}) > i

\* Once a call has divided its elements, its pivot stays where a sorted array
\* has it, with the smaller and equal elements before it and the greater ones
\* behind, in the parent and in the copy of the child, while other calls and
\* what comes through the pipe go on changing the array.
SplitsHold ==
  /\ \A s \in Divided :
       LET p == calls[s].p
       IN  /\ p \in s[1] .. s[2]
           /\ InPlace(array, p)
           /\ \A i \in s[1] .. p - 1 : array[i] <= array[p]
           /\ \A i \in p + 1 .. s[2] : array[i] > array[p]
  /\ child.pc \in {"write", "ended"} =>
       \A i \in 0 .. calls[Root].p : InPlace(child.array, i)

\* Threads at work on the array have no index in common; the arguments of a
\* thread lie in the frame of a call that has not returned; and the count is
\* of all threads that were or are about to be created.
ThreadsApart ==
  /\ \A s, t \in Working :
       s # t /\ {calls[s].pc, calls[t].pc} \subseteq {"begin", "serial"} =>
         (s[1] .. s[2]) \cap (t[1] .. t[2]) = {}
  /\ \A s \in Working \ {Root} :
       \E t \in Working :
         \/ calls[t].pc \in {"create_right", "join_left"} /\ s = Left(t)
         \/ calls[t].pc \in {"join_left", "join_right"} /\ s = Right(t)
  /\ LET AtStep(step) == Cardinality({s \in DOMAIN calls : calls[s].pc = step})
     IN  thread_count + 1 =
           Cardinality(DOMAIN calls) + 2 * AtStep("create_left") + AtStep("create_right")

\* When main validates the array it is sorted and holds what it was given.  If
\* the child or the transfer failed, that is true of what had come through,
\* and of the pivot and what is behind it.
SortedAtEnd ==
  verdict # "none" =>
    /\ \A i \in DOMAIN given :
         failed = {} \/ i < point \/ i >= calls[Root].p => InPlace(array, i)
    /\ failed = {} => verdict = "successful"

\* The program comes to its end, whichever system call fails: no process waits
\* for the other for ever.
Terminates == <>Over
===============================================================================
