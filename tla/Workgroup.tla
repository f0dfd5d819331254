------------------------------ MODULE Workgroup ------------------------------
(***************************************************************************)
(* One workgroup of a kernel or shader that adds up rows: each thread adds *)
(* its own elements, the threads halve the sums in shared memory down to   *)
(* one, and that one becomes the output (the matrix kernels, attention     *)
(* scores) or the factor of every element (the norms, which may write the  *)
(* vector they read).  Threads run in any order between two barriers.      *)
(*                                                                         *)
(* A sum is how often each element of each row went into it.               *)
(***************************************************************************)
EXTENDS Integers

CONSTANTS
  N,          \* threads of the workgroup
  Halvings,   \* N, N/2, N/4, ..., 1
  MaxLength,  \* bound on the length of a row
  None

ASSUME WorkgroupAssumption ==
  /\ N \in Halvings /\ Halvings \subseteq Nat \ {0}
  /\ \A s \in Halvings : s = 1 \/ \E h \in Halvings : s = 2 * h
  /\ MaxLength \in Nat

Threads == 0 .. N - 1

\* "row": one row to a workgroup (CUDA, attention scores).  "pair": two rows,
\* whose halves make one output word (the phone's matrix shaders).  "norm" and
\* "word norm": elements or words are scaled by the sum.
Kinds == {"row", "pair", "norm", "word norm"}
Norms == {"norm", "word norm"}

VARIABLES
  \* Fixed by the dispatch.
  kind,
  length,   \* elements of a row
  rows,     \* rows that exist: the second of a pair may not
  \* Shared by the threads.
  data,     \* "original" or "scaled": each element of the vector
  scratch,  \* shared memory, one sum per thread
  half,     \* row_half_bits, the results of a pair
  output,   \* what was written: sums of rows, or the factor of each element
  waiting,  \* the threads that wait at a barrier
  \* A thread's own.
  pc,       \* [step, row, stride] it is at, or goes on with after the barrier
  register  \* the sum it holds

dispatch == <<kind, length, rows>>
shared == <<data, scratch, half, output>>
vars == <<dispatch, shared, waiting, pc, register>>

-----------------------------------------------------------------------------
(* Sums. *)

Elements == 0 .. MaxLength - 1
Operands == (0 .. 1) \X Elements
Sums == [Operands -> Nat]

ASSUME NoneAssumption == None \notin Sums

NoSum == [x \in Operands |-> 0]
Plus(a, b) == [x \in Operands |-> a[x] + b[x]]

\* The elements of the row that are t modulo s, once each.
Share(row, t, s) ==
  [x \in Operands |->
     IF x[1] = row /\ row < rows /\ x[2] < length /\ x[2] % s = t THEN 1 ELSE 0]

\* All elements of the row.
Whole(row) == Share(row, 0, 1)

\* A thread's loop over its elements (in each block of a quantized row, which has
\* N elements a block, the one with the thread's number); one that was scaled already is not what
\* the sum is of.
Accumulated(row, t) ==
  [x \in Operands |->
     IF x[1] = row /\ row < rows /\ x[2] < length /\ x[2] % N = t
          /\ data[x[2]] = "original" THEN 1 ELSE 0]

-----------------------------------------------------------------------------
(* Control. *)

\* Wrong on purpose: the odd one out is dropped.
HalfOfFewer(n) == (n - 1) \div 2

Half(n) == n \div 2

\* Where a loop with this stride goes: it ends at 0.
Loop(row, stride) ==
  [step |-> IF stride > 0 THEN "load" ELSE "finish", row |-> row, stride |-> stride]

\* A pair goes on with its other row, then with the word of the two.
AfterRow(row) ==
  [step |-> IF row < 1 THEN "sum" ELSE "word", row |-> IF row < 1 THEN row + 1 ELSE row, stride |-> 0]

Done(row) == [step |-> "done", row |-> row, stride |-> 0]

Proceed(t, next) == pc' = [pc EXCEPT ![t] = next] /\ UNCHANGED waiting

\* Wrong on purpose: no barrier.
PassBy(t, next) == Proceed(t, next)

\* barrier(), __syncthreads()
Meet(t, next) ==
  /\ pc' = [pc EXCEPT ![t] = next]
  /\ waiting' = waiting \cup {t}

At(t, step) == t \notin waiting /\ pc[t].step = step

-----------------------------------------------------------------------------
Init ==
  /\ kind \in Kinds /\ length \in 0 .. MaxLength
  /\ rows \in IF kind = "pair" THEN 1 .. 2 ELSE {1}
  /\ data = [i \in Elements |-> "original"]
  /\ scratch = [t \in Threads |-> NoSum]
  /\ half = [r \in 0 .. 1 |-> None]
  /\ output = [i \in (0 .. 1) \cup Elements |-> None]
  /\ waiting = {}
  /\ pc = [t \in Threads |-> [step |-> "sum", row |-> 0, stride |-> 0]]
  /\ register = [t \in Threads |-> NoSum]

\* sum += ... over the thread's elements.
Accumulate(t) ==
  /\ At(t, "sum")
  /\ register' = [register EXCEPT ![t] = Accumulated(pc[t].row, t)]
  /\ Proceed(t, [pc[t] EXCEPT !.step = "store"])
  /\ UNCHANGED <<dispatch, shared>>

\* scratch[tid] = sum; barrier();
Store(t) ==
  /\ At(t, "store")
  /\ scratch' = [scratch EXCEPT ![t] = register[t]]
  /\ Meet(t, Loop(pc[t].row, Half(N)))
  /\ UNCHANGED <<dispatch, data, half, output, register>>

\* if (tid < stride) scratch[tid] += scratch[tid + stride]; the two halves of it.
Load(t) ==
  /\ At(t, "load") /\ t < pc[t].stride
  /\ register' = [register EXCEPT ![t] = Plus(scratch[t], scratch[t + pc[t].stride])]
  /\ Proceed(t, [pc[t] EXCEPT !.step = "add"])
  /\ UNCHANGED <<dispatch, shared>>

Add(t) ==
  /\ At(t, "add")
  /\ scratch' = [scratch EXCEPT ![t] = register[t]]
  /\ Meet(t, Loop(pc[t].row, Half(pc[t].stride)))
  /\ UNCHANGED <<dispatch, data, half, output, register>>

\* Wrong on purpose: a thread that has no more to add leaves the loop.
Leave(t) ==
  /\ At(t, "load") /\ t >= pc[t].stride
  /\ Proceed(t, Loop(pc[t].row, 0))
  /\ UNCHANGED <<dispatch, shared, register>>

\* The others come to the barrier all the same.
Idle(t) ==
  /\ At(t, "load") /\ t >= pc[t].stride
  /\ Meet(t, Loop(pc[t].row, Half(pc[t].stride)))
  /\ UNCHANGED <<dispatch, shared, register>>

\* Thread 0 writes the output of the row.
WriteRow(t) ==
  /\ At(t, "finish") /\ kind = "row"
  /\ output' = IF t = 0 THEN [output EXCEPT ![0] = scratch[0]] ELSE output
  /\ Proceed(t, Done(pc[t].row))
  /\ UNCHANGED <<dispatch, data, scratch, half, register>>

\* Thread 0 keeps the result; barrier().
KeepHalf(t) ==
  /\ At(t, "finish") /\ kind = "pair"
  /\ half' = IF t = 0 THEN [half EXCEPT ![pc[t].row] = scratch[0]] ELSE half
  /\ Meet(t, AfterRow(pc[t].row))
  /\ UNCHANGED <<dispatch, data, scratch, output, register>>

\* Thread 0 writes both results in one word.
WriteWord(t) ==
  /\ At(t, "word")
  /\ output' = IF t = 0 THEN [i \in DOMAIN output |-> IF i \in 0 .. 1 THEN half[i] ELSE output[i]]
               ELSE output
  /\ Proceed(t, Done(pc[t].row))
  /\ UNCHANGED <<dispatch, data, scratch, half, register>>

\* Each thread takes the sum.
Take(t) ==
  /\ At(t, "finish") /\ kind \in Norms
  /\ register' = [register EXCEPT ![t] = scratch[0]]
  /\ Proceed(t, [pc[t] EXCEPT !.step = "scale"])
  /\ UNCHANGED <<dispatch, shared>>

\* The elements that thread t scales: of a word there are two.
Scales(t) ==
  {i \in 0 .. length - 1 : (IF kind = "norm" THEN i ELSE i \div 2) % N = t}

\* All of the thread's elements at once: no other thread looks at them.
Scale(t) ==
  /\ At(t, "scale")
  /\ data' = [i \in Elements |-> IF i \in Scales(t) THEN "scaled" ELSE data[i]]
  /\ output' = [i \in DOMAIN output |->
                  IF i \in Scales(t) THEN (IF data[i] = "original" THEN register[t] ELSE NoSum)
                  ELSE output[i]]
  /\ Proceed(t, Done(pc[t].row))
  /\ UNCHANGED <<dispatch, scratch, half, register>>

\* All have come.
Release ==
  /\ waiting = Threads
  /\ waiting' = {}
  /\ UNCHANGED <<dispatch, shared, pc, register>>

Step(t) ==
  \/ Accumulate(t) \/ Store(t) \/ Load(t) \/ Add(t) \/ Idle(t)
  \/ WriteRow(t) \/ KeepHalf(t) \/ WriteWord(t) \/ Take(t) \/ Scale(t)

AllDone == \A t \in Threads : pc[t].step = "done"

\* The end of the workgroup.
Ended == AllDone /\ UNCHANGED vars

Next == Release \/ Ended \/ \E t \in Threads : Step(t)

Spec == Init /\ [][Next]_vars

-----------------------------------------------------------------------------
Steps == {"sum", "store", "load", "add", "finish", "word", "scale", "done"}

TypeOK ==
  /\ kind \in Kinds /\ length \in 0 .. MaxLength /\ rows \in 1 .. 2
  /\ data \in [Elements -> {"original", "scaled"}]
  /\ scratch \in [Threads -> Sums]
  /\ half \in [0 .. 1 -> Sums \cup {None}]
  /\ output \in [(0 .. 1) \cup Elements -> Sums \cup {None}]
  /\ waiting \subseteq Threads
  /\ pc \in [Threads -> [step : Steps, row : 0 .. 1, stride : {0} \cup Halvings]]
  /\ register \in [Threads -> Sums]

\* Where a result goes: rows to their own place, the factor to every element.
RowOf(place) == IF kind \in Norms THEN 0 ELSE place

\* Every result written is the sum of all elements of its row, each of them
\* once and none of another row, in whatever order the threads ran; a missing
\* second row of a pair gives 0 (q4k_matvec.comp:57-114, kernels.cu:233-248).
OutputsAreWhole ==
  /\ \A place \in DOMAIN output : output[place] # None => output[place] = Whole(RowOf(place))
  /\ AllDone =>
       CASE kind = "row" -> output[0] # None
         [] kind = "pair" -> output[0] # None /\ output[1] # None
         [] kind \in Norms -> \A i \in 0 .. length - 1 : output[i] # None

\* Memory that a thread's next step reads and writes.
Reads(t) ==
  CASE At(t, "sum") -> {<<"data", i>> : i \in {j \in 0 .. length - 1 : j % N = t}}
    [] At(t, "load") /\ t < pc[t].stride -> {<<"scratch", t>>, <<"scratch", t + pc[t].stride>>}
    [] At(t, "finish") /\ (t = 0 \/ kind \in Norms) -> {<<"scratch", 0>>}
    [] At(t, "word") /\ t = 0 -> {<<"half", 0>>, <<"half", 1>>}
    [] At(t, "scale") -> {<<"data", i>> : i \in Scales(t)}
    [] OTHER -> {}

Writes(t) ==
  CASE At(t, "store") \/ At(t, "add") -> {<<"scratch", t>>}
    [] At(t, "finish") /\ t = 0 /\ kind = "pair" -> {<<"half", pc[t].row>>}
    [] At(t, "scale") -> {<<"data", i>> : i \in Scales(t)}
    [] OTHER -> {}

\* No two threads are ever about to access the same memory, one of them to
\* write it: a barrier stands wherever a sum of one is read by another, and
\* between the last read of the vector and the first write to it
\* (head_rms_norm.comp:20-43, kernels.cu:73-131).
RaceFree ==
  \A t, u \in Threads : t # u => Writes(t) \cap (Reads(u) \cup Writes(u)) = {}

\* Threads that wait together wait at the same barrier, as the languages demand:
\* neither a row that does not exist nor an idle thread takes another way
\* (q6k_matvec.comp:65-100).
SameBarrier == \A t, u \in waiting : pc[t] = pc[u]

===============================================================================
