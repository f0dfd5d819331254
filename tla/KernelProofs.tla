----------------------------- MODULE KernelProofs -----------------------------
(***************************************************************************)
(* Two views of the kernels.  One workgroup that adds up rows, for any     *)
(* number of threads that halves down to 1 and rows of any length: results *)
(* are whole, no access races with another, and threads wait together at   *)
(* one barrier only.  And all kernels of a layer, one after another, for   *)
(* all models, contexts and sizes of groups: they write inside of their    *)
(* buffers, and compute what the mathematics of the layer says.            *)
(***************************************************************************)
EXTENDS TLAPS, Workgroup, LayerMath, FiniteSetTheorems

-----------------------------------------------------------------------------
(* Arithmetic. *)

LEMMA ModUnique ==
  ASSUME NEW n \in Nat \ {0}, NEW i \in Nat, NEW q \in Int, NEW m \in 0 .. n - 1, i = n * q + m
  PROVE  i % n = m
OBVIOUS

LEMMA ModRange ==
  ASSUME NEW n \in Nat \ {0}, NEW i \in Nat
  PROVE  i % n \in 0 .. n - 1 /\ i \div n \in Int /\ i = n * (i \div n) + (i % n)
OBVIOUS

LEMMA Products ==
  ASSUME NEW a \in Int, NEW b \in Int
  PROVE  (2 * a) * b = a * (2 * b) /\ a * (2 * b + 1) = a * (2 * b) + a
OBVIOUS

\* What is t modulo s is t or t + s modulo 2s.
LEMMA ModSplit ==
  ASSUME NEW s \in Nat \ {0}, NEW i \in Nat, NEW t \in 0 .. s - 1
  PROVE  i % s = t <=> i % (2 * s) = t \/ i % (2 * s) = t + s
<1> DEFINE m == i % (2 * s)
           q == i \div (2 * s)
<1>1. m \in 0 .. 2 * s - 1 /\ q \in Int /\ i = (2 * s) * q + m
  <2>1. 2 * s \in Nat \ {0}
    OBVIOUS
  <2>2. QED
    BY <2>1, ModRange
<1> HIDE DEF m, q
<1>2. (2 * s) * q = s * (2 * q) /\ s * (2 * q + 1) = s * (2 * q) + s
  BY <1>1, Products
<1>3. CASE m < s
  <2>1. i = s * (2 * q) + m
    BY <1>1, <1>2
  <2>2. i % s = m
    BY <1>1, <1>3, <2>1, ModUnique
  <2>3. QED
    BY <1>1, <1>3, <2>2 DEF m
<1>4. CASE m >= s
  <2>1. i = s * (2 * q + 1) + (m - s)
    BY <1>1, <1>2
  <2>2. i % s = m - s
    BY <1>1, <1>4, <2>1, ModUnique
  <2>3. QED
    BY <1>1, <1>4, <2>2 DEF m
<1>5. QED
  BY <1>1, <1>3, <1>4

\* The shares of t and t + s among 2s threads are the share of t among s.
LEMMA SharesAdd ==
  ASSUME NEW row, NEW s \in Nat \ {0}, NEW t \in 0 .. s - 1
  PROVE  Plus(Share(row, t, 2 * s), Share(row, t + s, 2 * s)) = Share(row, t, s)
<1>1. ASSUME NEW x \in Operands
      PROVE  x[2] % s = t <=> x[2] % (2 * s) = t \/ x[2] % (2 * s) = t + s
  <2>1. x[2] \in Nat
    BY WorkgroupAssumption DEF Operands, Elements
  <2>2. QED
    BY <2>1, ModSplit
<1>2. ASSUME NEW x \in Operands
      PROVE  Share(row, t, 2 * s)[x] + Share(row, t + s, 2 * s)[x] = Share(row, t, s)[x]
  <2>1. CASE x[1] = row /\ row < rows /\ x[2] < length
    BY <1>1, <2>1 DEF Share
  <2>2. CASE ~(x[1] = row /\ row < rows /\ x[2] < length)
    BY <2>2 DEF Share
  <2>3. QED
    BY <2>1, <2>2
<1>3. QED
  BY <1>2 DEF Plus, Share

LEMMA ShareType ==
  ASSUME NEW row, NEW t, NEW s PROVE Share(row, t, s) \in Sums
BY DEF Share, Sums

LEMMA HalvingFacts ==
  ASSUME NEW s \in Halvings
  PROVE  /\ s \in Nat \ {0}
         /\ \/ s = 1 /\ Half(s) = 0
            \/ Half(s) \in Halvings /\ s = 2 * Half(s)
<1>1. s \in Nat \ {0}
  BY WorkgroupAssumption
<1>2. CASE s = 1
  BY <1>2 DEF Half
<1>3. CASE s # 1
  <2>1. PICK h \in Halvings : s = 2 * h
    BY <1>3, WorkgroupAssumption
  <2>2. h \in Nat
    BY WorkgroupAssumption
  <2>3. Half(s) = h
    BY <2>1, <2>2 DEF Half
  <2>4. QED
    BY <1>1, <2>1, <2>3
<1>4. QED
  BY <1>1, <1>2, <1>3


LEMMA ThreadFacts ==
  /\ N \in Nat \ {0} /\ 0 \in Threads /\ Threads \subseteq Nat
  /\ \A i \in Nat : i % N \in Threads
<1>1. N \in Nat \ {0}
  BY WorkgroupAssumption
<1>2. QED
  BY <1>1 DEF Threads

-----------------------------------------------------------------------------
(* Between two barriers all threads are at one stage of the program. *)

Stages == [class : {"gather", "halve", "close", "word"}, row : 0 .. 1, stride : {0} \cup Halvings]

StepsIn(class) ==
  CASE class = "gather" -> {"sum", "store"}
    [] class = "halve" -> {"load", "add"}
    [] class = "close" -> (IF kind = "row" THEN {"finish", "done"}
                           ELSE IF kind = "pair" THEN {"finish"}
                           ELSE {"finish", "scale", "done"})
    [] class = "word" -> {"word", "done"}

\* Where the barrier at the end of a stage leads, if there is one.
After(g) ==
  CASE g.class = "gather" -> Loop(g.row, Half(N))
    [] g.class = "halve" -> Loop(g.row, Half(g.stride))
    [] OTHER -> AfterRow(g.row)

HasBarrier(g) ==
  g.class \in {"gather", "halve"} \/ (g.class = "close" /\ kind = "pair")

\* The stage that begins at a place of the program.
StageAt(p) ==
  [class |-> CASE p.step = "sum" -> "gather"
               [] p.step = "load" -> "halve"
               [] p.step = "finish" -> "close"
               [] p.step = "word" -> "word",
   row |-> p.row, stride |-> p.stride]

StageOK(g) ==
  /\ g \in Stages
  /\ g.class = "halve" => g.stride \in Halvings /\ 2 * g.stride <= N
  /\ g.class # "halve" => g.stride = 0
  /\ kind # "pair" => g.row = 0 /\ g.class # "word"
  /\ g.class = "word" => g.row = 1

ThreadAt(g, t) ==
  IF t \in waiting THEN HasBarrier(g) /\ pc[t] = After(g)
  ELSE pc[t].step \in StepsIn(g.class) /\ pc[t].row = g.row /\ pc[t].stride = g.stride

\* What shared memory and registers hold.
GatherHolds(g, t) ==
  /\ t \in waiting => scratch[t] = Share(g.row, t, N)
  /\ At(t, "store") => register[t] = Share(g.row, t, N)

HalveHolds(g, t) ==
  /\ t < 2 * g.stride /\ (t >= g.stride \/ t \notin waiting) =>
       scratch[t] = Share(g.row, t, 2 * g.stride)
  /\ t < g.stride /\ t \in waiting => scratch[t] = Share(g.row, t, g.stride)
  /\ At(t, "add") => t < g.stride /\ register[t] = Share(g.row, t, g.stride)

CloseHolds(g, t) ==
  /\ scratch[0] = Whole(g.row)
  /\ At(t, "scale") => register[t] = Whole(0)

Holds(g) ==
  \A t \in Threads :
    /\ g.class = "gather" => GatherHolds(g, t)
    /\ g.class = "halve" => HalveHolds(g, t)
    /\ g.class = "close" => CloseHolds(g, t)

\* The results of the rows of a pair that are through.
HalvesHold(g) ==
  kind = "pair" =>
    /\ \A r \in 0 .. 1 : r < g.row \/ g.class = "word" => half[r] = Whole(r)
    /\ g.class = "close" /\ 0 \in waiting => half[g.row] = Whole(g.row)

\* An element is scaled by its thread only, which is done then.
DataHolds ==
  \A i \in Elements :
    data[i] = "original" \/ (kind \in Norms /\ \E t \in Threads : i \in Scales(t)
        /\ pc[t].step = "done")

Written(t) ==
  /\ kind = "row" /\ t = 0 => output[0] # None
  /\ kind = "pair" /\ t = 0 => output[0] # None /\ output[1] # None
  /\ kind \in Norms => \A i \in Scales(t) : output[i] # None

OutputHolds ==
  /\ \A place \in DOMAIN output : output[place] # None => output[place] = Whole(RowOf(place))
  /\ \A t \in Threads : pc[t].step = "done" => Written(t)

StageInv(g) ==
  StageOK(g) /\ (\A t \in Threads : ThreadAt(g, t)) /\ Holds(g) /\ HalvesHold(g)

IInv == TypeOK /\ DataHolds /\ OutputHolds /\ \E g \in Stages : StageInv(g)

LEMMA InitIInv == Init => IInv
<1>1. SUFFICES ASSUME Init PROVE IInv
  OBVIOUS
<1> DEFINE g == [class |-> "gather", row |-> 0, stride |-> 0]
<1>2. TypeOK
  BY <1>1, ThreadFacts DEF Init, TypeOK, NoSum, Sums, Steps
<1>3. DataHolds /\ OutputHolds
  BY <1>1 DEF Init, DataHolds, OutputHolds
<1>4. g \in Stages /\ StageOK(g)
  BY DEF Stages, StageOK
<1>5. \A t \in Threads : ThreadAt(g, t)
  BY <1>1 DEF Init, ThreadAt, StepsIn
<1>6. Holds(g)
  BY <1>1 DEF Init, Holds, GatherHolds, At
<1>7. HalvesHold(g)
  BY DEF HalvesHold
<1>8. QED
  BY <1>2, <1>3, <1>4, <1>5, <1>6, <1>7 DEF IInv, StageInv


-----------------------------------------------------------------------------
(* What a step of one thread leaves alone. *)

\* Thread t moves on, or comes to a barrier; the others are where they were.
LEMMA OthersStay ==
  ASSUME TypeOK, NEW t \in Threads, NEW next,
         Proceed(t, next) \/ Meet(t, next),
         UNCHANGED kind
  PROVE  /\ pc'[t] = next
         /\ \A u \in Threads \ {t} : pc'[u] = pc[u] /\ (u \in waiting' <=> u \in waiting)
         /\ \A g : \A u \in Threads \ {t} : ThreadAt(g, u) => ThreadAt(g, u)'
<1>1. pc' = [pc EXCEPT ![t] = next] /\ waiting' \in {waiting, waiting \cup {t}}
  BY DEF Proceed, Meet
<1>2. pc'[t] = next /\ \A u \in Threads \ {t} : pc'[u] = pc[u] /\ (u \in waiting'
        <=> u \in waiting)
  BY <1>1 DEF TypeOK
<1>3. \A g : HasBarrier(g)' <=> HasBarrier(g)
  BY DEF HasBarrier
<1>4. \A g : StepsIn(g.class)' = StepsIn(g.class)
  BY DEF StepsIn
<1>5. QED
  BY <1>2, <1>3, <1>4 DEF ThreadAt

Places == [step : Steps, row : 0 .. 1, stride : {0} \cup Halvings]

LEMMA MoveTypes ==
  ASSUME TypeOK, NEW t \in Threads, NEW next \in Places,
         Proceed(t, next) \/ Meet(t, next)
  PROVE  pc' \in [Threads -> Places] /\ waiting' \subseteq Threads
BY DEF TypeOK, Proceed, Meet, Places

LEMMA LoopType ==
  ASSUME NEW row \in 0 .. 1, NEW s \in Halvings
  PROVE  Loop(row, Half(s)) \in Places /\ Loop(row, Half(s)).step # "done"
<1>1. Half(s) \in {0} \cup Halvings
  BY HalvingFacts
<1>2. QED
  BY <1>1 DEF Loop, Places, Steps

LEMMA AfterRowType ==
  ASSUME NEW row \in 0 .. 1 PROVE AfterRow(row) \in Places /\ AfterRow(row).step # "done"
BY DEF AfterRow, Places, Steps

\* A step that makes no thread done, and leaves data and output alone.
LEMMA ResultsStay ==
  ASSUME IInv, NEW t \in Threads, NEW next, Proceed(t, next) \/ Meet(t, next),
         pc[t].step # "done", next.step # "done",
         UNCHANGED <<kind, length, rows, data, output>>
  PROVE  DataHolds' /\ OutputHolds'
<1>1. \A u \in Threads : pc'[u].step = "done" <=> pc[u].step = "done"
  BY OthersStay DEF IInv
<1>2. QED
  BY <1>1 DEF IInv, DataHolds, OutputHolds, Scales, Written, Whole, Share, RowOf

\* The program's places in a stage.
LEMMA WhereAt ==
  ASSUME TypeOK, NEW g \in Stages, StageInv(g), NEW t \in Threads, t \notin waiting
  PROVE  /\ pc[t].row = g.row /\ pc[t].stride = g.stride
         /\ pc[t].step \in {"sum", "store"} <=> g.class = "gather"
         /\ pc[t].step \in {"load", "add"} <=> g.class = "halve"
         /\ pc[t].step \in {"finish", "scale"} => g.class = "close"
         /\ pc[t].step = "word" => g.class = "word"
         /\ pc[t].step = "done" => g.class \in {"close", "word"}
<1>1. pc[t].step \in StepsIn(g.class) /\ pc[t].row = g.row /\ pc[t].stride = g.stride
  BY DEF StageInv, ThreadAt
<1>2. g.class \in {"gather", "halve", "close", "word"}
  BY DEF Stages
<1>3. QED
  BY <1>1, <1>2 DEF StepsIn

LEMMA StageStays ==
  ASSUME NEW g, StageOK(g), UNCHANGED kind PROVE StageOK(g)'
BY DEF StageOK

\* No thread is done before the last stage, so the vector is as it was.
LEMMA NotDoneYet ==
  ASSUME IInv, NEW g \in Stages, StageInv(g), g.class \in {"gather", "halve"}
  PROVE  (\A t \in Threads : pc[t].step # "done") /\ (\A i \in Elements : data[i] = "original")
<1>1. ASSUME NEW t \in Threads PROVE pc[t].step # "done"
  <2>1. CASE t \notin waiting
    BY <2>1, WhereAt DEF IInv
  <2>2. CASE t \in waiting
    BY <2>2 DEF StageInv, ThreadAt, After, Loop
  <2>3. QED
    BY <2>1, <2>2
<1>2. QED
  BY <1>1 DEF IInv, DataHolds

-----------------------------------------------------------------------------
(* The steps. *)

LEMMA AccumulateKeeps ==
  ASSUME IInv, NEW t \in Threads, Accumulate(t)
  PROVE  IInv'
<1>1. PICK g \in Stages : StageInv(g)
  BY DEF IInv
<1>2. TypeOK /\ t \notin waiting /\ pc[t].step = "sum"
  BY DEF IInv, Accumulate, At
<1>3. g.class = "gather" /\ pc[t].row = g.row
  BY <1>1, <1>2, WhereAt
<1>4. /\ UNCHANGED <<dispatch, shared, waiting>>
      /\ register' = [register EXCEPT ![t] = Accumulated(pc[t].row, t)]
      /\ Proceed(t, [pc[t] EXCEPT !.step = "store"])
  BY DEF Accumulate, Proceed
<1>5. UNCHANGED <<kind, length, rows, data, scratch, half, output, waiting>>
  BY <1>4 DEF dispatch, shared
<1>6. Accumulated(pc[t].row, t) = Share(g.row, t, N)
  <2>1. \A x \in Operands : data[x[2]] = "original"
    BY <1>1, <1>3, NotDoneYet DEF Operands
  <2>2. QED
    BY <1>3, <2>1 DEF Accumulated, Share
<1>7. /\ pc'[t] = [pc[t] EXCEPT !.step = "store"]
      /\ \A u \in Threads \ {t} : pc'[u] = pc[u]
      /\ \A u \in Threads \ {t} : ThreadAt(g, u) => ThreadAt(g, u)'
  BY <1>2, <1>4, <1>5, OthersStay
<1>8. pc[t] \in [step : Steps, row : 0 .. 1, stride : {0} \cup Halvings]
  BY <1>2 DEF TypeOK
<1>9. TypeOK'
  <2>1. pc' \in [Threads -> [step : Steps, row : 0 .. 1, stride : {0} \cup Halvings]]
    BY <1>2, <1>4, <1>8 DEF TypeOK, Proceed, Steps
  <2>2. register' \in [Threads -> Sums]
    BY <1>2, <1>4, <1>6, ShareType DEF TypeOK
  <2>3. QED
    BY <1>2, <1>5, <2>1, <2>2 DEF TypeOK
<1>10. DataHolds' /\ OutputHolds'
  <2>1. \A u \in Threads : pc'[u].step = "done" <=> pc[u].step = "done"
    BY <1>2, <1>7, <1>8
  <2>2. QED
    BY <1>5, <2>1 DEF IInv, DataHolds, OutputHolds, Scales, Written, Whole, Share, RowOf
<1>11. StageOK(g)'
  BY <1>1, <1>5, StageStays DEF StageInv
<1>12. \A u \in Threads : ThreadAt(g, u)'
  <2>1. ThreadAt(g, t)'
    BY <1>1, <1>2, <1>3, <1>5, <1>7, <1>8, WhereAt DEF ThreadAt, StepsIn
  <2>2. QED
    BY <1>1, <1>7, <2>1 DEF StageInv
<1>13. Holds(g)'
  <2>1. SUFFICES ASSUME NEW u \in Threads PROVE GatherHolds(g, u)'
    BY <1>3 DEF Holds
  <2>2. CASE u = t
    BY <1>2, <1>4, <1>5, <1>6, <2>2 DEF GatherHolds, TypeOK, Share
  <2>3. CASE u # t
    BY <1>1, <1>2, <1>3, <1>4, <1>5, <1>7, <2>3 DEF StageInv, Holds, GatherHolds, TypeOK, At,
       Share
  <2>4. QED
    BY <2>2, <2>3
<1>14. HalvesHold(g)'
  BY <1>1, <1>5 DEF StageInv, HalvesHold, Whole, Share
<1>15. QED
  BY <1>9, <1>10, <1>11, <1>12, <1>13, <1>14 DEF IInv, StageInv


LEMMA StoreKeeps ==
  ASSUME IInv, NEW t \in Threads, Store(t)
  PROVE  IInv'
<1>1. PICK g \in Stages : StageInv(g)
  BY DEF IInv
<1>2. TypeOK /\ t \notin waiting /\ pc[t].step = "store"
  BY DEF IInv, Store, At
<1>3. g.class = "gather" /\ pc[t].row = g.row
  BY <1>1, <1>2, WhereAt
<1> DEFINE next == Loop(g.row, Half(N))
<1>4. /\ UNCHANGED <<kind, length, rows, data, half, output, register>>
      /\ scratch' = [scratch EXCEPT ![t] = register[t]]
      /\ Meet(t, next)
  BY <1>3 DEF Store, dispatch
<1>5. next \in Places /\ next.step # "done"
  BY LoopType, WorkgroupAssumption DEF Stages
<1> HIDE DEF next
<1>6. /\ pc'[t] = next
      /\ \A u \in Threads \ {t} : pc'[u] = pc[u] /\ (u \in waiting' <=> u \in waiting)
      /\ \A u \in Threads \ {t} : ThreadAt(g, u) => ThreadAt(g, u)'
  BY <1>2, <1>4, OthersStay
<1>7. t \in waiting'
  BY <1>4 DEF Meet
<1>8. register[t] = Share(g.row, t, N)
  BY <1>1, <1>2, <1>3 DEF StageInv, Holds, GatherHolds, At
<1>9. TypeOK'
  <2>1. scratch' \in [Threads -> Sums]
    BY <1>2, <1>4 DEF TypeOK
  <2>2. pc' \in [Threads -> Places] /\ waiting' \subseteq Threads
    BY <1>2, <1>4, <1>5, MoveTypes
  <2>3. QED
    BY <1>2, <1>4, <2>1, <2>2 DEF TypeOK, Places
<1>10. DataHolds' /\ OutputHolds'
  BY <1>2, <1>4, <1>5, ResultsStay
<1>11. StageOK(g)'
  BY <1>1, <1>4, StageStays DEF StageInv
<1>12. \A u \in Threads : ThreadAt(g, u)'
  <2>1. ThreadAt(g, t)'
    BY <1>3, <1>6, <1>7 DEF ThreadAt, HasBarrier, After, next
  <2>2. QED
    BY <1>1, <1>6, <2>1 DEF StageInv
<1>13. Holds(g)'
  <2>1. SUFFICES ASSUME NEW u \in Threads PROVE GatherHolds(g, u)'
    BY <1>3 DEF Holds
  <2>2. CASE u = t
    BY <1>2, <1>4, <1>7, <1>8, <2>2 DEF GatherHolds, TypeOK, Share, At
  <2>3. CASE u # t
    BY <1>1, <1>2, <1>3, <1>4, <1>6, <2>3 DEF StageInv, Holds, GatherHolds, TypeOK, At, Share
  <2>4. QED
    BY <2>2, <2>3
<1>14. HalvesHold(g)'
  BY <1>1, <1>3, <1>4 DEF StageInv, HalvesHold, Whole, Share
<1>15. QED
  BY <1>9, <1>10, <1>11, <1>12, <1>13, <1>14 DEF IInv, StageInv

LEMMA LoadKeeps ==
  ASSUME IInv, NEW t \in Threads, Load(t)
  PROVE  IInv'
<1>1. PICK g \in Stages : StageInv(g)
  BY DEF IInv
<1>2. TypeOK /\ t \notin waiting /\ pc[t].step = "load" /\ t < pc[t].stride
  BY DEF IInv, Load, At
<1>3. g.class = "halve" /\ pc[t].row = g.row /\ pc[t].stride = g.stride
  BY <1>1, <1>2, WhereAt
<1> DEFINE next == [pc[t] EXCEPT !.step = "add"]
<1>4. /\ UNCHANGED <<kind, length, rows, data, scratch, half, output, waiting>>
      /\ register' = [register EXCEPT ![t] = Plus(scratch[t], scratch[t + g.stride])]
      /\ Proceed(t, next)
  BY <1>3 DEF Load, dispatch, shared, Proceed
<1>5. pc[t] \in Places
  BY <1>2 DEF TypeOK, Places
<1>6. next \in Places /\ next.step = "add" /\ next.row = g.row /\ next.stride = g.stride
  BY <1>3, <1>5 DEF Places, Steps
<1> HIDE DEF next
<1>7. /\ pc'[t] = next
      /\ \A u \in Threads \ {t} : pc'[u] = pc[u] /\ (u \in waiting' <=> u \in waiting)
      /\ \A u \in Threads \ {t} : ThreadAt(g, u) => ThreadAt(g, u)'
  BY <1>2, <1>4, OthersStay
<1>8. Plus(scratch[t], scratch[t + g.stride]) = Share(g.row, t, g.stride)
  <2>1. g.stride \in Nat \ {0} /\ 2 * g.stride <= N
    BY <1>1, <1>3, WorkgroupAssumption DEF StageInv, StageOK
  <2>2. t \in 0 .. g.stride - 1 /\ t + g.stride \in Threads
    BY <1>2, <1>3, <2>1, ThreadFacts DEF Threads
  <2>3. scratch[t] = Share(g.row, t, 2 * g.stride)
    BY <1>1, <1>2, <1>3, <2>1, <2>2 DEF StageInv, Holds, HalveHolds
  <2>4. scratch[t + g.stride] = Share(g.row, t + g.stride, 2 * g.stride)
    BY <1>1, <1>3, <2>1, <2>2 DEF StageInv, Holds, HalveHolds
  <2>5. QED
    BY <2>1, <2>2, <2>3, <2>4, SharesAdd
<1>9. TypeOK'
  <2>1. register' \in [Threads -> Sums]
    BY <1>2, <1>4, <1>8, ShareType DEF TypeOK
  <2>2. pc' \in [Threads -> Places]
    BY <1>2, <1>4, <1>6, MoveTypes
  <2>3. QED
    BY <1>2, <1>4, <2>1, <2>2 DEF TypeOK, Places
<1>10. DataHolds' /\ OutputHolds'
  BY <1>2, <1>4, <1>6, ResultsStay
<1>11. StageOK(g)'
  BY <1>1, <1>4, StageStays DEF StageInv
<1>12. \A u \in Threads : ThreadAt(g, u)'
  <2>1. ThreadAt(g, t)'
    BY <1>2, <1>3, <1>4, <1>6, <1>7 DEF ThreadAt, StepsIn
  <2>2. QED
    BY <1>1, <1>7, <2>1 DEF StageInv
<1>13. Holds(g)'
  <2>1. SUFFICES ASSUME NEW u \in Threads PROVE HalveHolds(g, u)'
    BY <1>3 DEF Holds
  <2>2. HalveHolds(g, u)
    BY <1>1, <1>3 DEF StageInv, Holds
  <2>3. CASE u = t
    BY <1>2, <1>3, <1>4, <1>8, <2>2, <2>3 DEF HalveHolds, TypeOK, Share
  <2>4. CASE u # t
    BY <1>2, <1>4, <1>7, <2>2, <2>4 DEF HalveHolds, TypeOK, At, Share
  <2>5. QED
    BY <2>3, <2>4
<1>14. HalvesHold(g)'
  BY <1>1, <1>3, <1>4 DEF StageInv, HalvesHold, Whole, Share
<1>15. QED
  BY <1>9, <1>10, <1>11, <1>12, <1>13, <1>14 DEF IInv, StageInv

\* The two ways to the barrier of a halving, after an addition or without one.
LEMMA HalveMeetKeeps ==
  ASSUME IInv, NEW t \in Threads, Add(t) \/ Idle(t)
  PROVE  IInv'
<1>1. PICK g \in Stages : StageInv(g)
  BY DEF IInv
<1>2. TypeOK /\ t \notin waiting /\ pc[t].step \in {"load", "add"}
  BY DEF IInv, Add, Idle, At
<1>3. g.class = "halve" /\ pc[t].row = g.row /\ pc[t].stride = g.stride
  BY <1>1, <1>2, WhereAt
<1> DEFINE next == Loop(g.row, Half(g.stride))
<1>4. /\ UNCHANGED <<kind, length, rows, data, half, output, register>>
      /\ Meet(t, next)
  BY <1>3 DEF Add, Idle, dispatch, shared
<1>5. \/ At(t, "add") /\ scratch' = [scratch EXCEPT ![t] = register[t]]
      \/ t >= g.stride /\ scratch' = scratch
  BY <1>3 DEF Add, Idle, shared
<1>6. next \in Places /\ next.step # "done"
  BY <1>1, <1>3, LoopType DEF Stages, StageInv, StageOK
<1> HIDE DEF next
<1>7. /\ pc'[t] = next
      /\ \A u \in Threads \ {t} : pc'[u] = pc[u] /\ (u \in waiting' <=> u \in waiting)
      /\ \A u \in Threads \ {t} : ThreadAt(g, u) => ThreadAt(g, u)'
  BY <1>2, <1>4, OthersStay
<1>8. t \in waiting'
  BY <1>4 DEF Meet
<1>9. TypeOK'
  <2>1. scratch' \in [Threads -> Sums]
    BY <1>2, <1>5 DEF TypeOK
  <2>2. pc' \in [Threads -> Places] /\ waiting' \subseteq Threads
    BY <1>2, <1>4, <1>6, MoveTypes
  <2>3. QED
    BY <1>2, <1>4, <2>1, <2>2 DEF TypeOK, Places
<1>10. DataHolds' /\ OutputHolds'
  BY <1>2, <1>4, <1>6, ResultsStay
<1>11. StageOK(g)'
  BY <1>1, <1>4, StageStays DEF StageInv
<1>12. \A u \in Threads : ThreadAt(g, u)'
  <2>1. ThreadAt(g, t)'
    BY <1>3, <1>7, <1>8 DEF ThreadAt, HasBarrier, After, next
  <2>2. QED
    BY <1>1, <1>7, <2>1 DEF StageInv
<1>13. Holds(g)'
  <2>1. SUFFICES ASSUME NEW u \in Threads PROVE HalveHolds(g, u)'
    BY <1>3 DEF Holds
  <2>2. HalveHolds(g, u) /\ HalveHolds(g, t)
    BY <1>1, <1>3 DEF StageInv, Holds
  <2>3. g.stride \in Nat /\ t \in Nat
    BY <1>1, <1>3, WorkgroupAssumption, ThreadFacts DEF StageInv, StageOK
  <2>4. CASE u = t
    BY <1>2, <1>4, <1>5, <1>8, <2>2, <2>3, <2>4 DEF HalveHolds, TypeOK, Share, At
  <2>5. CASE u # t
    BY <1>2, <1>4, <1>5, <1>7, <2>2, <2>5 DEF HalveHolds, TypeOK, At, Share
  <2>6. QED
    BY <2>4, <2>5
<1>14. HalvesHold(g)'
  BY <1>1, <1>3, <1>4 DEF StageInv, HalvesHold, Whole, Share
<1>15. QED
  BY <1>9, <1>10, <1>11, <1>12, <1>13, <1>14 DEF IInv, StageInv


LEMMA DoneType ==
  ASSUME NEW row \in 0 .. 1 PROVE Done(row) \in Places
BY DEF Done, Places, Steps

LEMMA WriteRowKeeps ==
  ASSUME IInv, NEW t \in Threads, WriteRow(t)
  PROVE  IInv'
<1>1. PICK g \in Stages : StageInv(g)
  BY DEF IInv
<1>2. TypeOK /\ t \notin waiting /\ pc[t].step = "finish" /\ kind = "row"
  BY DEF IInv, WriteRow, At
<1>3. g.class = "close" /\ g.row = 0 /\ pc[t].row = 0 /\ g.stride = 0
  BY <1>1, <1>2, WhereAt DEF StageInv, StageOK
<1>4. /\ UNCHANGED <<kind, length, rows, data, scratch, half, register, waiting>>
      /\ output' = IF t = 0 THEN [output EXCEPT ![0] = scratch[0]] ELSE output
      /\ Proceed(t, Done(0))
  BY <1>3 DEF WriteRow, dispatch, Proceed
<1>5. Done(0) \in Places
  BY DoneType
<1>6. /\ pc'[t] = Done(0)
      /\ \A u \in Threads \ {t} : pc'[u] = pc[u]
      /\ \A u \in Threads \ {t} : ThreadAt(g, u) => ThreadAt(g, u)'
  BY <1>2, <1>4, OthersStay
<1>7. scratch[0] = Whole(0) /\ scratch[0] \in Sums /\ scratch[0] # None
  BY <1>1, <1>2, <1>3, ThreadFacts, NoneAssumption DEF StageInv, Holds, CloseHolds, TypeOK
<1>8. TypeOK'
  <2>1. output' \in [(0 .. 1) \cup Elements -> Sums \cup {None}]
    BY <1>2, <1>4, <1>7 DEF TypeOK
  <2>2. pc' \in [Threads -> Places]
    BY <1>2, <1>4, <1>5, MoveTypes
  <2>3. QED
    BY <1>2, <1>4, <2>1, <2>2 DEF TypeOK, Places
<1>9. DataHolds'
  BY <1>2, <1>4 DEF IInv, DataHolds, Norms
<1>10. OutputHolds'
  <2>1. \A place \in DOMAIN output' : output'[place] # None
          => output'[place] = Whole(RowOf(place))
    BY <1>2, <1>4, <1>7 DEF IInv, OutputHolds, TypeOK, RowOf, Norms
  <2>2. t = 0 => output'[0] # None
    BY <1>2, <1>4, <1>7 DEF TypeOK
  <2>3. output[0] # None => output'[0] # None
    BY <1>2, <1>4, <1>7 DEF TypeOK
  <2>4. ASSUME NEW u \in Threads, pc'[u].step = "done", u = 0 PROVE output'[0] # None
    <3>1. CASE t = 0
      BY <2>2, <3>1
    <3>2. CASE t # 0
      <4>1. pc[u].step = "done"
        BY <1>6, <2>4, <3>2
      <4>2. output[0] # None
        BY <1>2, <2>4, <4>1 DEF IInv, OutputHolds, Written
      <4>3. QED
        BY <2>3, <4>2
    <3>3. QED
      BY <3>1, <3>2
  <2>5. \A u \in Threads : pc'[u].step = "done" => Written(u)'
    BY <1>2, <1>4, <2>4 DEF Written, Norms
  <2>6. \A place : Whole(RowOf(place))' = Whole(RowOf(place))
    BY <1>4 DEF Whole, Share, RowOf
  <2>7. QED
    BY <2>1, <2>5, <2>6 DEF OutputHolds
<1>11. StageOK(g)'
  BY <1>1, <1>4, StageStays DEF StageInv
<1>12. \A u \in Threads : ThreadAt(g, u)'
  <2>1. ThreadAt(g, t)'
    BY <1>2, <1>3, <1>4, <1>6 DEF ThreadAt, StepsIn, Done
  <2>2. QED
    BY <1>1, <1>6, <2>1 DEF StageInv
<1>13. Holds(g)'
  BY <1>1, <1>2, <1>3, <1>4, <1>6 DEF StageInv, Holds, CloseHolds, At, Done, Whole, Share
<1>14. HalvesHold(g)'
  BY <1>2, <1>4 DEF HalvesHold
<1>15. QED
  BY <1>8, <1>9, <1>10, <1>11, <1>12, <1>13, <1>14 DEF IInv, StageInv

LEMMA KeepHalfKeeps ==
  ASSUME IInv, NEW t \in Threads, KeepHalf(t)
  PROVE  IInv'
<1>1. PICK g \in Stages : StageInv(g)
  BY DEF IInv
<1>2. TypeOK /\ t \notin waiting /\ pc[t].step = "finish" /\ kind = "pair"
  BY DEF IInv, KeepHalf, At
<1>3. g.class = "close" /\ pc[t].row = g.row /\ g.row \in 0 .. 1
  BY <1>1, <1>2, WhereAt DEF Stages
<1> DEFINE next == AfterRow(g.row)
<1>4. /\ UNCHANGED <<kind, length, rows, data, scratch, output, register>>
      /\ half' = IF t = 0 THEN [half EXCEPT ![g.row] = scratch[0]] ELSE half
      /\ Meet(t, next)
  BY <1>3 DEF KeepHalf, dispatch
<1>5. next \in Places /\ next.step # "done"
  BY <1>3, AfterRowType
<1> HIDE DEF next
<1>6. /\ pc'[t] = next
      /\ \A u \in Threads \ {t} : pc'[u] = pc[u] /\ (u \in waiting' <=> u \in waiting)
      /\ \A u \in Threads \ {t} : ThreadAt(g, u) => ThreadAt(g, u)'
  BY <1>2, <1>4, OthersStay
<1>7. t \in waiting'
  BY <1>4 DEF Meet
<1>8. scratch[0] = Whole(g.row) /\ scratch[0] \in Sums
  BY <1>1, <1>2, <1>3, ThreadFacts DEF StageInv, Holds, CloseHolds, TypeOK
<1>9. TypeOK'
  <2>1. half' \in [0 .. 1 -> Sums \cup {None}]
    BY <1>2, <1>3, <1>4, <1>8 DEF TypeOK
  <2>2. pc' \in [Threads -> Places] /\ waiting' \subseteq Threads
    BY <1>2, <1>4, <1>5, MoveTypes
  <2>3. QED
    BY <1>2, <1>4, <2>1, <2>2 DEF TypeOK, Places
<1>10. DataHolds' /\ OutputHolds'
  BY <1>2, <1>4, <1>5, ResultsStay
<1>11. StageOK(g)'
  BY <1>1, <1>4, StageStays DEF StageInv
<1>12. \A u \in Threads : ThreadAt(g, u)'
  <2>1. ThreadAt(g, t)'
    BY <1>2, <1>3, <1>4, <1>6, <1>7 DEF ThreadAt, HasBarrier, After, next
  <2>2. QED
    BY <1>1, <1>6, <2>1 DEF StageInv
<1>13. Holds(g)'
  <2>1. ASSUME NEW u \in Threads PROVE CloseHolds(g, u)'
    <3>1. ~At(t, "scale")'
      BY <1>7 DEF At
    <3>2. CloseHolds(g, u)
      BY <1>1, <1>3 DEF StageInv, Holds
    <3>3. QED
      BY <1>4, <1>6, <3>1, <3>2 DEF CloseHolds, At, Whole, Share
  <2>2. QED
    BY <1>3, <2>1 DEF Holds
<1>14. HalvesHold(g)'
  <2>1. HalvesHold(g)
    BY <1>1 DEF StageInv
  <2>2. CASE t = 0
    BY <1>2, <1>3, <1>4, <1>8, <2>1, <2>2 DEF HalvesHold, TypeOK, Whole, Share
  <2>3. CASE t # 0
    BY <1>2, <1>3, <1>4, <1>6, <2>1, <2>3, ThreadFacts DEF HalvesHold, Whole, Share
  <2>4. QED
    BY <2>2, <2>3
<1>15. QED
  BY <1>9, <1>10, <1>11, <1>12, <1>13, <1>14 DEF IInv, StageInv

LEMMA WriteWordKeeps ==
  ASSUME IInv, NEW t \in Threads, WriteWord(t)
  PROVE  IInv'
<1>1. PICK g \in Stages : StageInv(g)
  BY DEF IInv
<1>2. TypeOK /\ t \notin waiting /\ pc[t].step = "word"
  BY DEF IInv, WriteWord, At
<1>3. g.class = "word" /\ kind = "pair" /\ g.row = 1 /\ pc[t].row = 1 /\ g.stride = 0
  BY <1>1, <1>2, WhereAt DEF StageInv, StageOK
<1>4. /\ UNCHANGED <<kind, length, rows, data, scratch, half, register, waiting>>
      /\ output' = IF t = 0 THEN [i \in DOMAIN output |-> IF i \in 0 .. 1 THEN half[i] ELSE output[i]]
                   ELSE output
      /\ Proceed(t, Done(1))
  BY <1>3 DEF WriteWord, dispatch, Proceed
<1>5. Done(1) \in Places
  BY DoneType
<1>6. /\ pc'[t] = Done(1)
      /\ \A u \in Threads \ {t} : pc'[u] = pc[u]
      /\ \A u \in Threads \ {t} : ThreadAt(g, u) => ThreadAt(g, u)'
  BY <1>2, <1>3, <1>4, OthersStay
<1>7. \A r \in 0 .. 1 : half[r] = Whole(r) /\ half[r] \in Sums /\ half[r] # None
  <2>1. \A r \in 0 .. 1 : half[r] = Whole(r)
    BY <1>1, <1>3 DEF StageInv, HalvesHold
  <2>2. QED
    BY <2>1, ShareType, NoneAssumption DEF Whole
<1>8. TypeOK'
  <2>1. output' \in [(0 .. 1) \cup Elements -> Sums \cup {None}]
    BY <1>2, <1>4, <1>7 DEF TypeOK
  <2>2. pc' \in [Threads -> Places]
    BY <1>2, <1>4, <1>5, MoveTypes
  <2>3. QED
    BY <1>2, <1>4, <2>1, <2>2 DEF TypeOK, Places
<1>9. DataHolds'
  BY <1>3, <1>4 DEF IInv, DataHolds, Norms
<1>10. OutputHolds'
  <2>1. DOMAIN output = (0 .. 1) \cup Elements
    BY <1>2 DEF TypeOK
  <2>2. \A place \in DOMAIN output' : output'[place] # None
          => output'[place] = Whole(RowOf(place))
    BY <1>3, <1>4, <1>7, <2>1 DEF IInv, OutputHolds, RowOf, Norms
  <2>3. t = 0 => output'[0] # None /\ output'[1] # None
    BY <1>4, <1>7, <2>1
  <2>4. ASSUME NEW u \in Threads, pc'[u].step = "done", u = 0
        PROVE  output'[0] # None /\ output'[1] # None
    <3>1. CASE t = 0
      BY <2>3, <3>1
    <3>2. CASE t # 0
      <4>1. pc[u].step = "done"
        BY <1>6, <2>4, <3>2
      <4>2. output[0] # None /\ output[1] # None
        BY <1>3, <2>4, <4>1 DEF IInv, OutputHolds, Written
      <4>3. output' = output
        BY <1>4, <3>2
      <4>4. QED
        BY <4>2, <4>3
    <3>3. QED
      BY <3>1, <3>2
  <2>5. \A u \in Threads : pc'[u].step = "done" => Written(u)'
    BY <1>3, <1>4, <2>4 DEF Written, Norms
  <2>6. \A place : Whole(RowOf(place))' = Whole(RowOf(place))
    BY <1>4 DEF Whole, Share, RowOf
  <2>7. QED
    BY <2>2, <2>5, <2>6 DEF OutputHolds
<1>11. StageOK(g)'
  BY <1>1, <1>4, StageStays DEF StageInv
<1>12. \A u \in Threads : ThreadAt(g, u)'
  <2>1. ThreadAt(g, t)'
    BY <1>2, <1>3, <1>4, <1>6 DEF ThreadAt, StepsIn, Done
  <2>2. QED
    BY <1>1, <1>6, <2>1 DEF StageInv
<1>13. Holds(g)'
  BY <1>3 DEF Holds
<1>14. HalvesHold(g)'
  BY <1>1, <1>3, <1>4 DEF StageInv, HalvesHold, Whole, Share
<1>15. QED
  BY <1>8, <1>9, <1>10, <1>11, <1>12, <1>13, <1>14 DEF IInv, StageInv

LEMMA TakeKeeps ==
  ASSUME IInv, NEW t \in Threads, Take(t)
  PROVE  IInv'
<1>1. PICK g \in Stages : StageInv(g)
  BY DEF IInv
<1>2. TypeOK /\ t \notin waiting /\ pc[t].step = "finish" /\ kind \in Norms
  BY DEF IInv, Take, At
<1>3. g.class = "close" /\ g.row = 0 /\ pc[t].row = 0 /\ g.stride = 0 /\ pc[t].stride = 0
  BY <1>1, <1>2, WhereAt DEF StageInv, StageOK, Norms
<1> DEFINE next == [pc[t] EXCEPT !.step = "scale"]
<1>4. /\ UNCHANGED <<kind, length, rows, data, scratch, half, output, waiting>>
      /\ register' = [register EXCEPT ![t] = scratch[0]]
      /\ Proceed(t, next)
  BY DEF Take, dispatch, shared, Proceed
<1>5. pc[t] \in Places
  BY <1>2 DEF TypeOK, Places
<1>6. next \in Places /\ next.step = "scale" /\ next.row = 0 /\ next.stride = 0
  BY <1>3, <1>5 DEF Places, Steps
<1> HIDE DEF next
<1>7. /\ pc'[t] = next
      /\ \A u \in Threads \ {t} : pc'[u] = pc[u]
      /\ \A u \in Threads \ {t} : ThreadAt(g, u) => ThreadAt(g, u)'
  BY <1>2, <1>4, OthersStay
<1>8. scratch[0] = Whole(0) /\ scratch[0] \in Sums
  BY <1>1, <1>2, <1>3, ThreadFacts DEF StageInv, Holds, CloseHolds, TypeOK
<1>9. TypeOK'
  <2>1. register' \in [Threads -> Sums]
    BY <1>2, <1>4, <1>8 DEF TypeOK
  <2>2. pc' \in [Threads -> Places]
    BY <1>2, <1>4, <1>6, MoveTypes
  <2>3. QED
    BY <1>2, <1>4, <2>1, <2>2 DEF TypeOK, Places
<1>10. DataHolds' /\ OutputHolds'
  BY <1>2, <1>4, <1>6, ResultsStay
<1>11. StageOK(g)'
  BY <1>1, <1>4, StageStays DEF StageInv
<1>12. \A u \in Threads : ThreadAt(g, u)'
  <2>1. ThreadAt(g, t)'
    BY <1>2, <1>3, <1>4, <1>6, <1>7 DEF ThreadAt, StepsIn, Norms
  <2>2. QED
    BY <1>1, <1>7, <2>1 DEF StageInv
<1>13. Holds(g)'
  <2>1. ASSUME NEW u \in Threads PROVE CloseHolds(g, u)'
    <3>1. CloseHolds(g, u)
      BY <1>1, <1>3 DEF StageInv, Holds
    <3>2. CASE u = t
      BY <1>2, <1>4, <1>8, <3>1, <3>2 DEF CloseHolds, TypeOK, Whole, Share
    <3>3. CASE u # t
      BY <1>2, <1>4, <1>7, <3>1, <3>3 DEF CloseHolds, TypeOK, At, Whole, Share
    <3>4. QED
      BY <3>2, <3>3
  <2>2. QED
    BY <1>3, <2>1 DEF Holds
<1>14. HalvesHold(g)'
  BY <1>2, <1>4 DEF HalvesHold, Norms
<1>15. QED
  BY <1>9, <1>10, <1>11, <1>12, <1>13, <1>14 DEF IInv, StageInv

\* An element has one thread that scales it.
LEMMA OneOwner ==
  ASSUME length \in Nat, NEW i
  PROVE  \A t, u \in Threads : i \in Scales(t) /\ i \in Scales(u) => t = u
BY DEF Scales

LEMMA ScaleKeeps ==
  ASSUME IInv, NEW t \in Threads, Scale(t)
  PROVE  IInv'
<1>1. PICK g \in Stages : StageInv(g)
  BY DEF IInv
<1>2. TypeOK /\ t \notin waiting /\ pc[t].step = "scale"
  BY DEF IInv, Scale, At
<1>3. g.class = "close" /\ pc[t].row = g.row /\ pc[t].stride = g.stride
  BY <1>1, <1>2, WhereAt
<1>4. kind \in Norms /\ g.row = 0 /\ g.stride = 0
  <2>1. pc[t].step \in StepsIn(g.class)
    BY <1>1, <1>2 DEF StageInv, ThreadAt
  <2>2. kind # "row" /\ kind # "pair"
    BY <1>2, <1>3, <2>1 DEF StepsIn
  <2>3. QED
    BY <1>1, <1>2, <1>3, <2>2 DEF TypeOK, Kinds, Norms, StageInv, StageOK
<1>5. /\ UNCHANGED <<kind, length, rows, scratch, half, register, waiting>>
      /\ data' = [i \in Elements |-> IF i \in Scales(t) THEN "scaled" ELSE data[i]]
      /\ output' = [i \in DOMAIN output |->
                      IF i \in Scales(t) THEN (IF data[i] = "original" THEN register[t] ELSE NoSum)
                      ELSE output[i]]
      /\ Proceed(t, Done(0))
  BY <1>3, <1>4 DEF Scale, dispatch, Proceed
<1>6. Done(0) \in Places
  BY DoneType
<1>7. /\ pc'[t] = Done(0)
      /\ \A u \in Threads \ {t} : pc'[u] = pc[u]
      /\ \A u \in Threads \ {t} : ThreadAt(g, u) => ThreadAt(g, u)'
  BY <1>2, <1>5, OthersStay
<1>8. register[t] = Whole(0) /\ register[t] \in Sums /\ register[t] # None
  BY <1>1, <1>2, <1>3, NoneAssumption DEF StageInv, Holds, CloseHolds, TypeOK, At
<1>9. length \in Nat /\ Scales(t) \subseteq Elements
  BY <1>2, WorkgroupAssumption DEF TypeOK, Scales, Elements
<1>10. \A i \in Scales(t) : data[i] = "original"
  <2>1. SUFFICES ASSUME NEW i \in Scales(t), data[i] # "original" PROVE FALSE
    OBVIOUS
  <2>2. PICK u \in Threads : i \in Scales(u) /\ pc[u].step = "done"
    BY <1>9, <2>1 DEF IInv, DataHolds
  <2>3. u = t
    BY <1>9, <2>1, <2>2, OneOwner
  <2>4. QED
    BY <1>2, <2>2, <2>3
<1>11. \A i \in DOMAIN output : output'[i] = IF i \in Scales(t) THEN Whole(0) ELSE output[i]
  BY <1>5, <1>8, <1>10
<1>12. \A u : Scales(u)' = Scales(u)
  BY <1>5 DEF Scales
<1>13. TypeOK'
  <2>1. output' \in [(0 .. 1) \cup Elements -> Sums \cup {None}]
    BY <1>2, <1>5, <1>8, <1>11 DEF TypeOK
  <2>2. data' \in [Elements -> {"original", "scaled"}]
    BY <1>2, <1>5 DEF TypeOK
  <2>3. pc' \in [Threads -> Places]
    BY <1>2, <1>5, <1>6, MoveTypes
  <2>4. QED
    BY <1>2, <1>5, <2>1, <2>2, <2>3 DEF TypeOK, Places
<1>14. DataHolds'
  <2>1. pc'[t].step = "done"
    BY <1>7 DEF Done
  <2>2. SUFFICES ASSUME NEW i \in Elements, data'[i] # "original"
                 PROVE  \E u \in Threads : i \in Scales(u)' /\ pc'[u].step = "done"
    BY <1>4, <1>5 DEF DataHolds
  <2>3. CASE i \in Scales(t)
    BY <1>12, <2>1, <2>3
  <2>4. CASE i \notin Scales(t)
    <3>1. data[i] # "original"
      BY <1>5, <2>2, <2>4
    <3>2. PICK u \in Threads : i \in Scales(u) /\ pc[u].step = "done"
      BY <3>1 DEF IInv, DataHolds
    <3>3. u # t
      BY <1>2, <3>2
    <3>4. QED
      BY <1>7, <1>12, <3>2, <3>3
  <2>5. QED
    BY <2>3, <2>4
<1>15. OutputHolds'
  <2>1. DOMAIN output = (0 .. 1) \cup Elements /\ DOMAIN output' = DOMAIN output
    BY <1>2, <1>5 DEF TypeOK
  <2>2. \A place \in DOMAIN output' : output'[place] # None
          => output'[place] = Whole(RowOf(place))
    BY <1>4, <1>11, <2>1 DEF IInv, OutputHolds, RowOf
  <2>3. \A place : Whole(RowOf(place))' = Whole(RowOf(place))
    BY <1>5 DEF Whole, Share, RowOf
  <2>4. Whole(0) # None
    BY <1>8
  <2>5. ASSUME NEW u \in Threads, pc'[u].step = "done" PROVE Written(u)'
    <3>1. SUFFICES ASSUME NEW i \in Scales(u) PROVE output'[i] # None
      BY <1>4, <1>5, <1>12 DEF Written, Norms
    <3>2. i \in DOMAIN output
      BY <1>9, <2>1, WorkgroupAssumption, <1>2 DEF Scales, Elements, TypeOK
    <3>3. CASE i \in Scales(t)
      BY <1>11, <2>4, <3>2, <3>3
    <3>4. CASE i \notin Scales(t)
      <4>1. u # t
        BY <3>1, <3>4
      <4>2. pc[u].step = "done"
        BY <1>7, <2>5, <4>1
      <4>3. output[i] # None
        BY <1>4, <3>1, <4>2 DEF IInv, OutputHolds, Written
      <4>4. QED
        BY <1>11, <3>2, <3>4, <4>3
    <3>5. QED
      BY <3>3, <3>4
  <2>6. QED
    BY <2>2, <2>3, <2>5 DEF OutputHolds
<1>16. StageOK(g)'
  BY <1>1, <1>5, StageStays DEF StageInv
<1>17. \A u \in Threads : ThreadAt(g, u)'
  <2>1. "done" \in StepsIn("close")'
    BY <1>4, <1>5 DEF StepsIn, Norms
  <2>2. t \notin waiting' /\ pc'[t].step = "done" /\ pc'[t].row = 0 /\ pc'[t].stride = 0
    BY <1>2, <1>5, <1>7 DEF Done
  <2>3. ThreadAt(g, t)'
    BY <1>3, <1>4, <2>1, <2>2 DEF ThreadAt
  <2>4. QED
    BY <1>1, <1>7, <2>3 DEF StageInv
<1>18. Holds(g)'
  <2>1. ASSUME NEW u \in Threads PROVE CloseHolds(g, u)'
    <3>1. CloseHolds(g, u)
      BY <1>1, <1>3 DEF StageInv, Holds
    <3>2. CASE u = t
      BY <1>5, <1>7, <3>1, <3>2 DEF CloseHolds, At, Whole, Share, Done
    <3>3. CASE u # t
      BY <1>5, <1>7, <3>1, <3>3 DEF CloseHolds, At, Whole, Share
    <3>4. QED
      BY <3>2, <3>3
  <2>2. QED
    BY <1>3, <2>1 DEF Holds
<1>19. HalvesHold(g)'
  BY <1>4, <1>5 DEF HalvesHold, Norms
<1>20. QED
  BY <1>13, <1>14, <1>15, <1>16, <1>17, <1>18, <1>19 DEF IInv, StageInv

\* All threads go on from one barrier to one stage.
LEMMA ReleaseKeeps ==
  ASSUME IInv, Release
  PROVE  IInv'
<1>1. PICK g \in Stages : StageInv(g)
  BY DEF IInv
<1>2. TypeOK /\ waiting = Threads /\ waiting' = {}
      /\ UNCHANGED <<kind, length, rows, data, scratch, half, output, pc, register>>
  BY DEF IInv, Release, dispatch, shared
<1>3. HasBarrier(g) /\ \A t \in Threads : pc[t] = After(g)
  BY <1>1, <1>2, ThreadFacts DEF StageInv, ThreadAt
<1>4. TypeOK' /\ DataHolds' /\ OutputHolds'
  BY <1>2 DEF IInv, TypeOK, DataHolds, OutputHolds, Scales, Written, Whole, Share, RowOf
<1>5. g.row \in 0 .. 1 /\ \A r, t, s : Share(r, t, s)' = Share(r, t, s)
  BY <1>2 DEF Stages, Share
<1>6. \A r \in 0 .. 1 : r < g.row /\ kind = "pair" => half[r] = Whole(r)
  BY <1>1 DEF StageInv, HalvesHold
<1>7. ASSUME NEW s \in Halvings, s <= N,
             \A t \in Threads : pc[t] = Loop(g.row, Half(s)),
             \A t \in Threads : t < s => scratch[t] = Share(g.row, t, s),
             kind # "pair" => g.row = 0
      PROVE  \E h \in Stages : StageInv(h)'
  <2>1. CASE s = 1 /\ Half(s) = 0
    <3> DEFINE h == [class |-> "close", row |-> g.row, stride |-> 0]
    <3>1. h \in Stages /\ StageOK(h)'
      BY <1>2, <1>5, <1>7 DEF Stages, StageOK
    <3>2. \A t \in Threads : pc[t] = [step |-> "finish", row |-> g.row, stride |-> 0]
      BY <1>7, <2>1 DEF Loop
    <3>3. \A t \in Threads : ThreadAt(h, t)'
      BY <1>2, <3>2 DEF ThreadAt, StepsIn
    <3>4. scratch[0] = Whole(g.row)
      BY <1>7, <2>1, ThreadFacts DEF Whole
    <3>5. Holds(h)'
      BY <1>2, <1>5, <3>2, <3>4 DEF Holds, CloseHolds, At, Whole
    <3>6. HalvesHold(h)'
      BY <1>2, <1>5, <1>6 DEF HalvesHold, Whole
    <3>7. QED
      BY <3>1, <3>3, <3>5, <3>6 DEF StageInv
  <2>2. CASE Half(s) \in Halvings /\ s = 2 * Half(s)
    <3> DEFINE h == [class |-> "halve", row |-> g.row, stride |-> Half(s)]
    <3>1. h \in Stages /\ StageOK(h)'
      BY <1>2, <1>5, <1>7, <2>2 DEF Stages, StageOK
    <3>2. Half(s) \in Nat \ {0}
      BY <2>2, WorkgroupAssumption
    <3>3. \A t \in Threads : pc[t] = [step |-> "load", row |-> g.row, stride |-> Half(s)]
      BY <1>7, <3>2 DEF Loop
    <3>4. \A t \in Threads : ThreadAt(h, t)'
      BY <1>2, <3>3 DEF ThreadAt, StepsIn
    <3>5. \A t \in Threads : HalveHolds(h, t)'
      BY <1>2, <1>5, <1>7, <2>2, <3>3 DEF HalveHolds, At
    <3>6. Holds(h)'
      BY <3>5 DEF Holds
    <3>7. HalvesHold(h)'
      BY <1>2, <1>5, <1>6 DEF HalvesHold, Whole
    <3>8. QED
      BY <3>1, <3>4, <3>6, <3>7 DEF StageInv
  <2>3. QED
    BY <2>1, <2>2, HalvingFacts
<1>8. CASE g.class = "gather"
  <2>1. N \in Halvings /\ N <= N
    BY WorkgroupAssumption
  <2>2. \A t \in Threads : pc[t] = Loop(g.row, Half(N)) /\ scratch[t] = Share(g.row, t, N)
    BY <1>1, <1>2, <1>3, <1>8 DEF After, StageInv, Holds, GatherHolds
  <2>3. kind # "pair" => g.row = 0
    BY <1>1 DEF StageInv, StageOK
  <2>4. QED
    BY <1>4, <1>7, <2>1, <2>2, <2>3 DEF IInv
<1>9. CASE g.class = "halve"
  <2>1. g.stride \in Halvings /\ 2 * g.stride <= N
    BY <1>1, <1>9 DEF StageInv, StageOK
  <2>2. g.stride \in Nat /\ N \in Nat
    BY <2>1, WorkgroupAssumption
  <2>3. g.stride <= N
    BY <2>1, <2>2
  <2>4. \A t \in Threads : pc[t] = Loop(g.row, Half(g.stride))
    BY <1>3, <1>9 DEF After
  <2>5. \A t \in Threads : t < g.stride => scratch[t] = Share(g.row, t, g.stride)
    BY <1>1, <1>2, <1>9 DEF StageInv, Holds, HalveHolds
  <2>6. kind # "pair" => g.row = 0
    BY <1>1 DEF StageInv, StageOK
  <2>7. QED
    BY <1>4, <1>7, <2>1, <2>4, <2>5, <2>6, <2>3 DEF IInv
<1>10. CASE g.class = "close" /\ kind = "pair"
  <2>1. half[g.row] = Whole(g.row)
    BY <1>1, <1>2, <1>10, ThreadFacts DEF StageInv, HalvesHold
  <2>2. CASE g.row = 0
    <3> DEFINE h == [class |-> "gather", row |-> 1, stride |-> 0]
    <3>1. h \in Stages /\ StageOK(h)'
      BY <1>2, <1>10 DEF Stages, StageOK
    <3>2. \A t \in Threads : pc[t] = [step |-> "sum", row |-> 1, stride |-> 0]
      BY <1>3, <1>10, <2>2 DEF After, AfterRow
    <3>3. \A t \in Threads : ThreadAt(h, t)'
      BY <1>2, <3>2 DEF ThreadAt, StepsIn
    <3>4. Holds(h)'
      BY <1>2, <3>2 DEF Holds, GatherHolds, At
    <3>5. HalvesHold(h)'
      BY <1>2, <1>5, <2>1, <2>2 DEF HalvesHold, Whole
    <3>6. QED
      BY <1>4, <3>1, <3>3, <3>4, <3>5 DEF IInv, StageInv
  <2>3. CASE g.row = 1
    <3> DEFINE h == [class |-> "word", row |-> 1, stride |-> 0]
    <3>1. h \in Stages /\ StageOK(h)'
      BY <1>2, <1>10 DEF Stages, StageOK
    <3>2. \A t \in Threads : pc[t] = [step |-> "word", row |-> 1, stride |-> 0]
      BY <1>3, <1>10, <2>3 DEF After, AfterRow
    <3>3. \A t \in Threads : ThreadAt(h, t)'
      BY <1>2, <3>2 DEF ThreadAt, StepsIn
    <3>4. Holds(h)'
      BY DEF Holds
    <3>5. HalvesHold(h)'
      BY <1>2, <1>5, <1>6, <1>10, <2>1, <2>3 DEF HalvesHold, Whole
    <3>6. QED
      BY <1>4, <3>1, <3>3, <3>4, <3>5 DEF IInv, StageInv
  <2>4. QED
    BY <1>5, <2>2, <2>3
<1>11. QED
  BY <1>3, <1>8, <1>9, <1>10 DEF HasBarrier

LEMMA NextIInv == IInv /\ [Next]_vars => IInv'
<1>1. SUFFICES ASSUME IInv, [Next]_vars PROVE IInv'
  OBVIOUS
<1>2. CASE Release
  BY <1>1, <1>2, ReleaseKeeps
<1>3. CASE UNCHANGED vars
  <2>1. UNCHANGED <<kind, length, rows, data, scratch, half, output, waiting, pc, register>>
    BY <1>3 DEF vars, dispatch, shared
  <2>2. TypeOK' /\ DataHolds' /\ OutputHolds'
    BY <1>1, <2>1 DEF IInv, TypeOK, DataHolds, OutputHolds, Scales, Written, Whole, Share, RowOf
  <2>3. PICK g \in Stages : StageInv(g)
    BY <1>1 DEF IInv
  <2>4. StageOK(g)' /\ \A t \in Threads : ThreadAt(g, t)'
    BY <2>1, <2>3 DEF StageInv, StageOK, ThreadAt, StepsIn, HasBarrier
  <2>5. \A r, t, s : Share(r, t, s)' = Share(r, t, s)
    BY <2>1 DEF Share
  <2>6. Holds(g)' /\ HalvesHold(g)'
    BY <2>1, <2>3, <2>5 DEF StageInv, Holds, GatherHolds, HalveHolds, CloseHolds, HalvesHold, At,
       Whole
  <2>7. QED
    BY <2>2, <2>3, <2>4, <2>6 DEF IInv, StageInv
<1>4. CASE \E t \in Threads : Step(t)
  BY <1>1, <1>4, AccumulateKeeps, StoreKeeps, LoadKeeps, HalveMeetKeeps, WriteRowKeeps,
     KeepHalfKeeps, WriteWordKeeps, TakeKeeps, ScaleKeeps DEF Step
<1>5. QED
  BY <1>1, <1>2, <1>3, <1>4 DEF Next, Ended

LEMMA Inductive == Spec => []IInv
BY InitIInv, NextIInv, PTL DEF Spec

-----------------------------------------------------------------------------
(* The theorems. *)

\* The variables have their types in every reachable state (all actions of the
\* workgroup, kernels.cu:195-338 and the shaders that add up rows).
THEOREM TypeCorrect == Spec => []TypeOK
<1>1. IInv => TypeOK
  BY DEF IInv
<1>2. QED
  BY <1>1, Inductive, PTL

\* Every result written is the sum of all elements of its row, and all are
\* written when the threads are done, for any power-of-two number of threads and
\* rows of any length (q4k_matvec.comp:57-114, kernels.cu:233-248).
THEOREM ResultsWhole == Spec => []OutputsAreWhole
<1>1. ASSUME IInv PROVE OutputsAreWhole
  <2>1. TypeOK /\ OutputHolds
    BY <1>1 DEF IInv
  <2>2. ASSUME AllDone
        PROVE  /\ kind = "row" => output[0] # None
               /\ kind = "pair" => output[0] # None /\ output[1] # None
               /\ kind \in Norms => \A i \in 0 .. length - 1 : output[i] # None
    <3>1. \A t \in Threads : Written(t)
      BY <2>1, <2>2 DEF OutputHolds, AllDone
    <3>2. ASSUME NEW i \in 0 .. length - 1 PROVE \E t \in Threads : i \in Scales(t)
      <4>1. i \in Nat /\ i \div 2 \in Nat
        BY <2>1, <3>2 DEF TypeOK
      <4>2. i % N \in Threads /\ (i \div 2) % N \in Threads
        BY <4>1, ThreadFacts
      <4>3. QED
        BY <3>2, <4>2 DEF Scales
    <3>3. QED
      BY <3>1, <3>2, ThreadFacts DEF Written
  <2>3. QED
    BY <2>1, <2>2 DEF OutputsAreWhole, OutputHolds, TypeOK, Kinds, Norms
<1>2. QED
  BY <1>1, Inductive, PTL

\* Threads wait together at one barrier only (q6k_matvec.comp:65-100).
THEOREM OneBarrier == Spec => []SameBarrier
<1>1. ASSUME IInv PROVE SameBarrier
  <2>1. TypeOK
    BY <1>1 DEF IInv
  <2>2. PICK g \in Stages : StageInv(g)
    BY <1>1 DEF IInv
  <2>3. \A t \in waiting : pc[t] = After(g)
    BY <2>1, <2>2 DEF TypeOK, StageInv, ThreadAt
  <2>4. QED
    BY <2>3 DEF SameBarrier
<1>2. QED
  BY <1>1, Inductive, PTL

\* What a thread may access in each stage.
LEMMA Accesses ==
  ASSUME TypeOK, NEW g \in Stages, StageInv(g), NEW t \in Threads
  PROVE  /\ g.class = "gather" =>
              /\ Reads(t) \subseteq {<<"data", i>> : i \in Elements}
              /\ Writes(t) \subseteq {<<"scratch", t>>}
         /\ g.class = "halve" =>
              /\ Reads(t) \subseteq {<<"scratch", t>>, <<"scratch", t + g.stride>>}
              /\ Writes(t) \subseteq {<<"scratch", t>>}
              /\ t >= g.stride => Writes(t) = {}
         /\ g.class = "close" /\ kind \notin Norms =>
              /\ Reads(t) \subseteq {<<"scratch", 0>>}
              /\ Writes(t) \subseteq {<<"half", g.row>>}
              /\ t # 0 => Writes(t) = {}
         /\ g.class = "close" /\ kind \in Norms =>
              /\ Reads(t) \subseteq {<<"scratch", 0>>} \cup {<<"data", i>> : i \in Scales(t)}
              /\ Writes(t) \subseteq {<<"data", i>> : i \in Scales(t)}
         /\ g.class = "word" => Writes(t) = {}
<1>1. CASE t \in waiting
  <2>1. Reads(t) = {} /\ Writes(t) = {}
    BY <1>1 DEF Reads, Writes, At
  <2>2. QED
    BY <2>1
<1>2. CASE t \notin waiting
  <2>1. /\ pc[t].step \in StepsIn(g.class) /\ pc[t].row = g.row /\ pc[t].stride = g.stride
        /\ g.class \in {"gather", "halve", "close", "word"}
    BY <1>2 DEF StageInv, ThreadAt, Stages
  <2>2. \A s : At(t, s) <=> pc[t].step = s
    BY <1>2 DEF At
  <2>3. CASE g.class = "gather"
    <3>1. length \in 0 .. MaxLength /\ MaxLength \in Nat
      BY WorkgroupAssumption DEF TypeOK
    <3>2. pc[t].step \in {"sum", "store"}
      BY <2>1, <2>3 DEF StepsIn
    <3>3. Reads(t) \subseteq {<<"data", i>> : i \in Elements}
      BY <2>2, <3>1, <3>2 DEF Reads, Elements
    <3>4. Writes(t) \subseteq {<<"scratch", t>>}
      BY <2>2, <3>2 DEF Writes
    <3>5. QED
      BY <2>3, <3>3, <3>4
  <2>4. CASE g.class = "halve"
    <3>1. pc[t].step \in {"load", "add"}
      BY <2>1, <2>4 DEF StepsIn
    <3>2. Reads(t) \subseteq {<<"scratch", t>>, <<"scratch", t + g.stride>>}
      BY <2>1, <2>2, <3>1 DEF Reads
    <3>3. Writes(t) \subseteq {<<"scratch", t>>}
      BY <2>2, <3>1 DEF Writes
    <3>4. ASSUME t >= g.stride PROVE Writes(t) = {}
      <4>1. g.stride \in Nat /\ t \in Nat
        BY <2>4, WorkgroupAssumption, ThreadFacts DEF StageInv, StageOK
      <4>2. pc[t].step # "add"
        BY <2>2, <2>4, <3>4, <4>1 DEF StageInv, Holds, HalveHolds
      <4>3. QED
        BY <2>2, <3>1, <4>2 DEF Writes
    <3>5. QED
      BY <2>4, <3>2, <3>3, <3>4
  <2>5. CASE g.class = "close" /\ kind \notin Norms
    <3>1. pc[t].step \in {"finish", "done"}
      BY <2>1, <2>5 DEF StepsIn, TypeOK, Kinds, Norms
    <3>2. Reads(t) \subseteq {<<"scratch", 0>>} /\ Writes(t) \subseteq {<<"half", g.row>>}
      BY <2>1, <2>2, <3>1 DEF Reads, Writes
    <3>3. t # 0 => Writes(t) = {}
      BY <2>2, <3>1 DEF Writes
    <3>4. QED
      BY <2>5, <3>2, <3>3
  <2>6. CASE g.class = "close" /\ kind \in Norms
    <3>1. pc[t].step \in {"finish", "scale", "done"}
      BY <2>1, <2>6 DEF StepsIn, Norms
    <3>2. Reads(t) \subseteq {<<"scratch", 0>>} \cup {<<"data", i>> : i \in Scales(t)}
      BY <2>2, <3>1 DEF Reads
    <3>3. Writes(t) \subseteq {<<"data", i>> : i \in Scales(t)}
      BY <2>2, <2>6, <3>1 DEF Writes, Norms
    <3>4. QED
      BY <2>6, <3>2, <3>3
  <2>7. CASE g.class = "word"
    <3>1. pc[t].step \in {"word", "done"}
      BY <2>1, <2>7 DEF StepsIn
    <3>2. Writes(t) = {}
      BY <2>2, <3>1 DEF Writes
    <3>3. QED
      BY <2>7, <3>2
  <2>8. QED
    BY <2>1, <2>3, <2>4, <2>5, <2>6, <2>7
<1>3. QED
  BY <1>1, <1>2

\* No two threads are ever about to access the same memory, one of them to
\* write it (head_rms_norm.comp:20-43, kernels.cu:73-131).
THEOREM NoRaces == Spec => []RaceFree
<1>1. ASSUME IInv PROVE RaceFree
  <2>1. TypeOK
    BY <1>1 DEF IInv
  <2>2. PICK g \in Stages : StageInv(g)
    BY <1>1 DEF IInv
  <2>3. SUFFICES ASSUME NEW t \in Threads, NEW u \in Threads, t # u
                 PROVE  Writes(t) \cap (Reads(u) \cup Writes(u)) = {}
    BY DEF RaceFree
  <2>4. t \in Nat /\ u \in Nat
    BY ThreadFacts
  <2>5. CASE g.class = "gather"
    <3>1. Reads(u) \subseteq {<<"data", i>> : i \in Elements}
      BY <2>1, <2>2, <2>5, Accesses
    <3>2. Writes(u) \subseteq {<<"scratch", u>>} /\ Writes(t) \subseteq {<<"scratch", t>>}
      BY <2>1, <2>2, <2>5, Accesses
    <3>3. QED
      BY <2>3, <3>1, <3>2
  <2>6. CASE g.class = "halve"
    <3>1. g.stride \in Nat \ {0}
      BY <2>2, <2>6, WorkgroupAssumption DEF StageInv, StageOK
    <3>2. /\ Reads(u) \subseteq {<<"scratch", u>>, <<"scratch", u + g.stride>>}
          /\ Writes(u) \subseteq {<<"scratch", u>>} /\ Writes(t) \subseteq {<<"scratch", t>>}
          /\ t >= g.stride => Writes(t) = {}
      BY <2>1, <2>2, <2>6, Accesses
    <3>3. t < g.stride => t # u + g.stride
      BY <2>4, <3>1
    <3>4. QED
      BY <2>3, <2>4, <3>1, <3>2, <3>3
  <2>7. CASE g.class = "close" /\ kind \notin Norms
    <3>1. /\ Reads(u) \subseteq {<<"scratch", 0>>} /\ Writes(t) \subseteq {<<"half", g.row>>}
          /\ (t # 0 => Writes(t) = {}) /\ (u # 0 => Writes(u) = {})
      BY <2>1, <2>2, <2>7, Accesses
    <3>2. QED
      BY <2>3, <3>1
  <2>8. CASE g.class = "close" /\ kind \in Norms
    <3>1. /\ Reads(u) \subseteq {<<"scratch", 0>>} \cup {<<"data", i>> : i \in Scales(u)}
          /\ Writes(u) \subseteq {<<"data", i>> : i \in Scales(u)}
          /\ Writes(t) \subseteq {<<"data", i>> : i \in Scales(t)}
      BY <2>1, <2>2, <2>8, Accesses
    <3>2. length \in Nat
      BY <2>1, WorkgroupAssumption DEF TypeOK
    <3>3. \A i : i \in Scales(t) => i \notin Scales(u)
      BY <2>3, <3>2, OneOwner
    <3>4. QED
      BY <3>1, <3>3
  <2>9. CASE g.class = "word"
    BY <2>1, <2>2, <2>9, Accesses
  <2>10. QED
    BY <2>5, <2>6, <2>7, <2>8, <2>9 DEF Stages
<1>2. QED
  BY <1>1, Inductive, PTL

-----------------------------------------------------------------------------
(* Arithmetic. *)

LEMMA QuotientRest ==
  ASSUME NEW n \in Nat \ {0}, NEW i \in Nat
  PROVE  i % n \in 0 .. n - 1 /\ i \div n \in Nat /\ i = (i \div n) * n + (i % n)
OBVIOUS

LEMMA Monotone ==
  ASSUME NEW a \in Nat, NEW b \in Nat, NEW c \in Nat, a <= b
  PROVE  a * c <= b * c /\ a * c \in Nat /\ b * c \in Nat
OBVIOUS

LEMMA ProductIsNat ==
  ASSUME NEW a \in Nat, NEW c \in Nat
  PROVE  a * c \in Nat
OBVIOUS

\* An index of h-th of m parts of n lies within m * n.
LEMMA PartWithin ==
  ASSUME NEW m \in Nat, NEW n \in Nat, NEW h \in 0 .. m - 1, NEW d \in 0 .. n - 1
  PROVE  h * n + d \in 0 .. m * n - 1 /\ h * n \in Nat /\ h * n + n <= m * n
<1>1. (h + 1) * n <= m * n /\ m * n \in Nat
  BY Monotone
<1>2. (h + 1) * n = h * n + n /\ h * n \in Nat
  OBVIOUS
<1>3. QED
  BY <1>1, <1>2

\* The part and the place within it of an index are unique.
LEMMA QuotientUnique ==
  ASSUME NEW n \in Nat, NEW h \in Nat, NEW d \in 0 .. n - 1
  PROVE  (h * n + d) \div n = h /\ (h * n + d) % n = d
<1> DEFINE i == h * n + d
<1>1. n \in Nat \ {0} /\ h * n \in Nat /\ i \in Nat
  OBVIOUS
<1>2. i % n \in 0 .. n - 1 /\ i \div n \in Nat /\ i = (i \div n) * n + (i % n)
  BY <1>1, QuotientRest
<1>3. ~(i \div n < h)
  <2> SUFFICES ASSUME i \div n < h PROVE FALSE
    OBVIOUS
  <2>1. (i \div n + 1) * n <= h * n
    BY <1>1, <1>2, Monotone
  <2>2. (i \div n + 1) * n = (i \div n) * n + n /\ (i \div n) * n \in Nat
    BY <1>2
  <2>3. QED
    BY <1>1, <1>2, <2>1, <2>2
<1>4. ~(h < i \div n)
  <2> SUFFICES ASSUME h < i \div n PROVE FALSE
    OBVIOUS
  <2>1. (h + 1) * n <= (i \div n) * n
    BY <1>1, <1>2, Monotone
  <2>2. (h + 1) * n = h * n + n /\ (i \div n) * n \in Nat
    BY <1>2
  <2>3. QED
    BY <1>1, <1>2, <2>1, <2>2
<1>5. i \div n = h
  BY <1>2, <1>3, <1>4
<1>6. QED
  BY <1>1, <1>2, <1>5

LEMMA PartOf ==
  ASSUME NEW m \in Nat, NEW n \in Nat \ {0}, NEW i \in 0 .. m * n - 1
  PROVE  i \div n \in 0 .. m - 1 /\ i % n \in 0 .. n - 1 /\ i = (i \div n) * n + (i % n)
<1>1. m * n \in Nat /\ i \in Nat
  OBVIOUS
<1>2. i % n \in 0 .. n - 1 /\ i \div n \in Nat /\ i = (i \div n) * n + (i % n)
  BY <1>1, QuotientRest
<1>3. ~(m <= i \div n)
  <2> SUFFICES ASSUME m <= i \div n PROVE FALSE
    OBVIOUS
  <2>1. m * n <= (i \div n) * n /\ (i \div n) * n \in Nat
    BY <1>2, Monotone
  <2>2. QED
    BY <1>1, <1>2, <2>1
<1>4. QED
  BY <1>2, <1>3

\* A launch covers each element once, whatever it is rounded up to.
LEMMA CoveredAll ==
  ASSUME NEW n \in Nat
  PROVE  Covered(n) = 0 .. n - 1
<1>1. Block \in Nat \ {0}
  BY LayerMathAssumption
<1> DEFINE G == Groups(n, Block)
<1>2. G \in Nat /\ n + Block - 1 = G * Block + ((n + Block - 1) % Block)
        /\ (n + Block - 1) % Block \in 0 .. Block - 1
  <2>1. n + Block - 1 \in Nat
    BY <1>1
  <2>2. QED
    BY <1>1, <2>1, QuotientRest, Zenon DEF Groups
<1>3. ASSUME NEW i \in Launched(n, Block) PROVE i \in Nat
  <2>1. PICK g \in 0 .. G - 1, t \in 0 .. Block - 1 : i = g * Block + t
    BY <1>3 DEF Launched
  <2>2. g * Block \in Nat
    BY <1>1, <1>2, <2>1, ProductIsNat
  <2>3. QED
    BY <1>1, <2>1, <2>2
<1>4. ASSUME NEW i \in 0 .. n - 1 PROVE i \in Launched(n, Block)
  <2>1. i \in Nat
    OBVIOUS
  <2>2. i % Block \in 0 .. Block - 1 /\ i \div Block \in Nat
          /\ i = (i \div Block) * Block + (i % Block)
    BY <1>1, <2>1, QuotientRest, Zenon
  <2> DEFINE q == i \div Block
  <2>3. ~(G <= q)
    <3> SUFFICES ASSUME G <= q PROVE FALSE
      OBVIOUS
    <3>1. G * Block <= q * Block /\ G * Block \in Nat /\ q * Block \in Nat
      BY <1>1, <1>2, <2>2, Monotone
    <3>2. QED
      BY <1>1, <1>2, <2>2, <3>1
  <2>4. q \in 0 .. G - 1
    BY <1>2, <2>2, <2>3
  <2>5. QED
    BY <2>2, <2>4 DEF Launched
<1>5. QED
  BY <1>3, <1>4 DEF Covered

\* Two elements of each word are all of an even number.
LEMMA HalvesAll ==
  ASSUME NEW n \in Nat, n % 2 = 0
  PROVE  Halves(0 .. Words(n) - 1) = 0 .. n - 1 /\ Words(n) \in Nat
<1>1. PICK w \in Nat : n = 2 * w
  OBVIOUS
<1>2. Words(n) = w
  BY <1>1 DEF Words
<1>3. ASSUME NEW i \in 0 .. n - 1 PROVE i \in Halves(0 .. w - 1)
  <2>1. i \div 2 \in 0 .. w - 1 /\ (i = 2 * (i \div 2) \/ i = 2 * (i \div 2) + 1)
    BY <1>1
  <2>2. QED
    BY <2>1 DEF Halves
<1>4. ASSUME NEW i \in Halves(0 .. w - 1) PROVE i \in 0 .. n - 1
  BY <1>1 DEF Halves
<1>5. QED
  BY <1>2, <1>3, <1>4

-----------------------------------------------------------------------------
(* No two vectors of a layer have elements made of the same. *)

Heads == {"attn_q", "attn_k"}

LEMMA DefinitionOfProduct ==
  ASSUME NEW w \in Matrices, NEW p, NEW i
  PROVE  Definition(<<"product", w>>, p, i) = <<"dot", w, i, Part(Operand(w), p, 0, Features(w))>>
BY DEF Definition

LEMMA DefinitionOfBiased ==
  ASSUME NEW w \in Matrices, NEW p, NEW i
  PROVE  Definition(<<"biased", w>>, p, i) = <<"bias", w, i, <<<<"product", w>>, p, i>>>>
BY DEF Definition

Normalized(w) == IF w = "attn_norm" THEN Input ELSE AfterAttention

LEMMA DefinitionOfNorm ==
  ASSUME NEW w \in {"attn_norm", "ffn_norm"}, NEW p, NEW i
  PROVE  Definition(<<"norm", w>>, p, i) =
           <<"rms", w, i, <<Normalized(w), p, i>>, Part(Normalized(w), p, 0, model.hidden)>>
BY DEF Definition, Normalized

LEMMA DefinitionOfNormed ==
  ASSUME NEW w \in Heads, NEW p, NEW i
  PROVE  Definition(<<"normed", w>>, p, i) =
           <<"rms", w, InHead(i), <<Projected(w), p, i>>,
             Part(Projected(w), p, HeadOf(i) * model.dim, model.dim)>>
BY DEF Definition

LEMMA DefinitionOfRotated ==
  ASSUME NEW w \in Heads, NEW p, NEW i
  PROVE  Definition(<<"rotated", w>>, p, i) =
           LET halfHead == model.dim \div 2
               pair == InHead(i) % halfHead
               first == HeadOf(i) * model.dim
           IN <<"rotate", InHead(i) < halfHead, pair, p,
                <<Normed(w), p, first + pair>>, <<Normed(w), p, first + halfHead + pair>>>>
BY DEF Definition

LEMMA DefinitionOfScore ==
  ASSUME NEW p, NEW i
  PROVE  Definition(<<"score", "heads">>, p, i) =
           LET h == i \div MaxContext
           IN <<"score", Part(<<"rotated", "attn_q">>, p, h * model.dim, model.dim),
                Part(<<"rotated", "attn_k">>, i % MaxContext, Shared(h) * model.dim, model.dim)>>
BY DEF Definition

LEMMA DefinitionOfAttended ==
  ASSUME NEW p, NEW i
  PROVE  Definition(<<"attended", "heads">>, p, i) =
           <<"weigh", [t \in 0 .. p |-> <<<<"score", "heads">>, p, HeadOf(i) * MaxContext + t>>],
             [t \in 0 .. p |-> <<Projected("attn_v"), t,
                 Shared(HeadOf(i)) * model.dim + InHead(i)>>]>>
BY DEF Definition

LEMMA DefinitionOfActivation ==
  ASSUME NEW p, NEW i
  PROVE  Definition(<<"activation", "gate">>, p, i) =
           <<"swiglu", <<Projected("ffn_gate"), p, i>>, <<Projected("ffn_up"), p, i>>>>
BY DEF Definition

\* What the projection w is added to.
Residual(w) == IF w = "attn_output" THEN Input ELSE AfterAttention

LEMMA DefinitionOfSum ==
  ASSUME NEW w \in {"attn_output", "ffn_down"}, NEW p, NEW i
  PROVE  Definition(<<"sum", w>>, p, i) = <<"add", <<Residual(w), p, i>>, <<Projected(w), p, i>>>>
BY DEF Definition, Residual

\* The vector that a term defines elements of.
Recovered(term) ==
  CASE term[1] = "dot" -> <<"product", term[2]>>
    [] term[1] = "bias" -> <<"biased", term[2]>>
    [] term[1] = "rms" -> IF term[2] \in Heads THEN <<"normed", term[2]>> ELSE <<"norm", term[2]>>
    [] term[1] = "rotate" -> <<"rotated", term[5][1][2]>>
    [] term[1] = "score" -> <<"score", "heads">>
    [] term[1] = "weigh" -> <<"attended", "heads">>
    [] term[1] = "swiglu" -> <<"activation", "gate">>
    [] term[1] = "add" -> IF term[2][1] = Input THEN AfterAttention ELSE Output

LEMMA VectorKinds ==
  ASSUME NEW v \in VectorNames
  PROVE  \/ \E w \in Matrices : v = <<"product", w>>
         \/ \E w \in Matrices : v = <<"biased", w>>
         \/ \E w \in Heads : v = <<"normed", w>>
         \/ \E w \in Heads : v = <<"rotated", w>>
         \/ \E w \in {"attn_norm", "ffn_norm"} : v = <<"norm", w>>
         \/ \E w \in {"attn_output", "ffn_down"} : v = <<"sum", w>>
         \/ v = <<"score", "heads">>
         \/ v = <<"attended", "heads">>
         \/ v = <<"activation", "gate">>
BY DEF VectorNames, AfterAttention, Output, Heads

LEMMA RecoveredIs ==
  ASSUME NEW v \in VectorNames, NEW p, NEW i
  PROVE  Recovered(Definition(v, p, i)) = v
<1>1. CASE \E w \in Matrices : v = <<"product", w>>
  <2>1. PICK w \in Matrices : v = <<"product", w>>
    BY <1>1
  <2>2. Definition(v, p, i)[1] = "dot" /\ Definition(v, p, i)[2] = w
    BY <2>1, DefinitionOfProduct
  <2>3. QED
    BY <2>1, <2>2 DEF Recovered
<1>2. CASE \E w \in Matrices : v = <<"biased", w>>
  <2>1. PICK w \in Matrices : v = <<"biased", w>>
    BY <1>2
  <2>2. PICK x : Definition(v, p, i) = <<"bias", w, i, x>>
    BY <2>1, DefinitionOfBiased, Zenon
  <2>3. Definition(v, p, i)[1] = "bias" /\ Definition(v, p, i)[2] = w
    BY <2>2
  <2>4. QED
    BY <2>1, <2>3 DEF Recovered
<1>3. CASE \E w \in Heads : v = <<"normed", w>>
  <2>1. PICK w \in Heads : v = <<"normed", w>>
    BY <1>3
  <2>2. Definition(v, p, i)[1] = "rms" /\ Definition(v, p, i)[2] = w
    BY <2>1, DefinitionOfNormed
  <2>3. QED
    BY <2>1, <2>2 DEF Recovered
<1>4. CASE \E w \in Heads : v = <<"rotated", w>>
  <2>1. PICK w \in Heads : v = <<"rotated", w>>
    BY <1>4
  <2>2. Normed(w)[2] = w
    BY DEF Normed, Projected
  <2>3. Definition(v, p, i)[1] = "rotate" /\ Definition(v, p, i)[5][1] = Normed(w)
    BY <2>1, DefinitionOfRotated
  <2>4. QED
    BY <2>1, <2>2, <2>3 DEF Recovered
<1>5. CASE \E w \in {"attn_norm", "ffn_norm"} : v = <<"norm", w>>
  <2>1. PICK w \in {"attn_norm", "ffn_norm"} : v = <<"norm", w>>
    BY <1>5
  <2>2. Definition(v, p, i)[1] = "rms" /\ Definition(v, p, i)[2] = w
    BY <2>1, DefinitionOfNorm
  <2>3. QED
    BY <2>1, <2>2 DEF Recovered, Heads
<1>6. CASE \E w \in {"attn_output", "ffn_down"} : v = <<"sum", w>>
  <2>1. PICK w \in {"attn_output", "ffn_down"} : v = <<"sum", w>>
    BY <1>6
  <2>2. Definition(v, p, i)[1] = "add" /\ Definition(v, p, i)[2][1] = Residual(w)
    BY <2>1, DefinitionOfSum
  <2>3. Input # AfterAttention
    BY DEF Input, AfterAttention
  <2>4. QED
    BY <2>1, <2>2, <2>3 DEF Recovered, Residual, AfterAttention, Output
<1>7. CASE v = <<"score", "heads">>
  <2>1. Definition(v, p, i)[1] = "score"
    BY <1>7, DefinitionOfScore
  <2>2. QED
    BY <1>7, <2>1 DEF Recovered
<1>8. CASE v = <<"attended", "heads">>
  <2>1. \E x, y : Definition(v, p, i) = <<"weigh", x, y>>
    BY <1>8, DefinitionOfAttended, Zenon
  <2>2. Definition(v, p, i)[1] = "weigh"
    BY <2>1
  <2>3. QED
    BY <1>8, <2>2 DEF Recovered
<1>9. CASE v = <<"activation", "gate">>
  <2>1. Definition(v, p, i)[1] = "swiglu"
    BY <1>9, DefinitionOfActivation
  <2>2. QED
    BY <1>9, <2>1 DEF Recovered
<1>10. QED
  BY <1>1, <1>2, <1>3, <1>4, <1>5, <1>6, <1>7, <1>8, <1>9, VectorKinds

\* So a term that defines an element of a vector is called after it.
LEMMA NamedAfter ==
  ASSUME NEW v \in VectorNames, NEW i
  PROVE  Named(Definition(v, position, i), i) = <<v, position, i>>
<1> DEFINE term == Definition(v, position, i)
           names == {u \in VectorNames : Definition(u, position, i) = term}
<1>1. v \in names
  OBVIOUS
<1>2. ASSUME NEW u \in names PROVE u = v
  <2>1. Recovered(Definition(u, position, i)) = u /\ Recovered(term) = v
    BY RecoveredIs, Zenon
  <2>2. QED
    BY <2>1
<1>3. names = {v}
  BY <1>1, <1>2
<1>4. QED
  BY <1>3 DEF Named

-----------------------------------------------------------------------------
(* What a kernel leaves. *)

\* An element that kernel k defines as one of vector v gets its name.
LEMMA Computes ==
  ASSUME NEW k, k.op # "store", NEW i \in DOMAIN memory[k.to], NEW v \in VectorNames,
         \E w \in Computed(k) : w[1] = i,
         \A w \in Computed(k) : w[1] = i => w[2] = Definition(v, position, i)
  PROVE  AfterKernel(k)[i] = <<v, position, i>>
<1> DEFINE values == {w[2] : w \in {u \in WrittenBy(k) : u[1] = i}}
           name == <<v, position, i>>
<1>1. WrittenBy(k) = {<<w[1], Named(w[2], w[1])>> : w \in Computed(k)}
  BY Zenon DEF WrittenBy
<1>2. PICK w \in Computed(k) : w[1] = i
  OBVIOUS
<1>3. Named(Definition(v, position, i), i) = name
  BY NamedAfter
<1>4. <<i, name>> \in WrittenBy(k)
  BY <1>1, <1>2, <1>3
<1>5. name \in values
  BY <1>4
<1>6. ASSUME NEW u \in values PROVE u = name
  BY <1>1, <1>3
<1>7. values = {name}
  BY <1>5, <1>6
<1> HIDE DEF name, values
<1>8. values # {} /\ Cardinality(values) = 1 /\ (CHOOSE u \in values : TRUE) = name
  BY <1>7, FS_Singleton
<1>9. AfterKernel(k)[i] = IF values = {} THEN memory[k.to][i]
                          ELSE IF Cardinality(values) = 1 THEN CHOOSE u \in values :
                              TRUE ELSE Garbage
  BY Zenon DEF AfterKernel, values
<1>10. QED
  BY <1>8, <1>9 DEF name

\* An element that it does not write stays.
LEMMA LeavesAlone ==
  ASSUME NEW k, NEW i \in DOMAIN memory[k.to], \A w \in WrittenBy(k) : w[1] # i
  PROVE  AfterKernel(k)[i] = memory[k.to][i]
BY DEF AfterKernel

\* One that it moves goes with its name.
LEMMA Moves ==
  ASSUME NEW k, NEW i \in DOMAIN memory[k.to], NEW name,
         \E w \in WrittenBy(k) : w[1] = i,
         \A w \in WrittenBy(k) : w[1] = i => w[2] = name
  PROVE  AfterKernel(k)[i] = name
<1> DEFINE values == {w[2] : w \in {u \in WrittenBy(k) : u[1] = i}}
<1>1. values = {name}
  OBVIOUS
<1> HIDE DEF values
<1>2. values # {} /\ Cardinality(values) = 1 /\ (CHOOSE u \in values : TRUE) = name
  BY <1>1, FS_Singleton
<1>3. AfterKernel(k)[i] = IF values = {} THEN memory[k.to][i]
                          ELSE IF Cardinality(values) = 1 THEN CHOOSE u \in values :
                              TRUE ELSE Garbage
  BY Zenon DEF AfterKernel, values
<1>4. QED
  BY <1>2, <1>3

-----------------------------------------------------------------------------
(* Types. *)

Buffers == {"x", "norm", "q", "k", "v", "attention", "projection", "gate", "up", "activation",
            "ffnOutput", "scores", "kCache", "vCache"}

LayerTypeOK ==
  /\ backend \in {"pc", "phone"} /\ model \in Models
  /\ phase \in {"ready", "running", "computed", "refused"}
  /\ position \in 0 .. MaxContext - 1 /\ at \in 0 .. Len(Program)
  /\ strayed \in BOOLEAN
  /\ DOMAIN memory = Buffers
  /\ \A b \in Buffers : DOMAIN memory[b] = 0 .. Size[b] - 1

\* The phone computes only what it has not refused.
Supported == backend = "phone" => Offloadable /\ Acceptable

LEMMA ModelFacts ==
  ASSUME model \in Models
  PROVE  /\ model.heads \in Nat \ {0} /\ model.kv \in Nat \ {0} /\ model.dim \in Nat \ {0, 1}
         /\ model.hidden \in Nat \ {0} /\ model.ff \in Nat \ {0}
         /\ model.hidden % 2 = 0 /\ model.ff % 2 = 0 /\ model.heads % model.kv = 0
         /\ QSize \in Nat /\ KvSize \in Nat
<1>1. /\ model.heads \in Nat \ {0} /\ model.kv \in Nat \ {0} /\ model.dim \in Nat \ {0, 1}
      /\ model.hidden \in Nat \ {0} /\ model.ff \in Nat \ {0}
      /\ model.hidden % 2 = 0 /\ model.ff % 2 = 0 /\ model.heads % model.kv = 0
  BY LayerMathAssumption
<1>2. QED
  BY <1>1, ProductIsNat DEF QSize, KvSize

\* Each head of queries has a head of keys and values to share.
LEMMA SharedIsHead ==
  ASSUME model \in Models
  PROVE  /\ model.heads \div model.kv \in Nat \ {0}
         /\ \A h \in 0 .. model.heads - 1 : Shared(h) \in 0 .. model.kv - 1
         /\ model.kv <= model.heads
<1> DEFINE heads == model.heads
           kv == model.kv
           g == heads \div kv
<1>1. heads \in Nat \ {0} /\ kv \in Nat \ {0} /\ heads % kv = 0
  BY ModelFacts
<1> HIDE DEF heads, kv
<1>2. heads % kv \in 0 .. kv - 1 /\ g \in Nat /\ heads = g * kv + (heads % kv)
  BY <1>1, QuotientRest, Zenon
<1>3. heads = g * kv
  BY <1>1, <1>2
<1>4. g # 0
  BY <1>1, <1>3
<1>5. heads = kv * g /\ g \in Nat \ {0}
  BY <1>1, <1>2, <1>3, <1>4
<1> HIDE DEF g
<1>6. ASSUME NEW h \in 0 .. heads - 1 PROVE h \div g \in 0 .. kv - 1
  BY <1>1, <1>5, <1>6, PartOf
<1>7. kv <= heads
  <2>1. 1 * kv <= g * kv
    BY <1>1, <1>5, Monotone
  <2>2. QED
    BY <1>1, <1>3, <2>1
<1>8. QED
  BY <1>5, <1>6, <1>7 DEF g, heads, kv, Shared

LEMMA SizeFacts ==
  ASSUME model \in Models
  PROVE  /\ DOMAIN Size = Buffers
         /\ \A b \in Buffers : Size[b] \in Nat
         /\ Size.x = model.hidden /\ Size.norm = model.hidden /\ Size.ffnOutput = model.hidden
         /\ Size.q = QSize /\ Size.k = KvSize /\ Size.v = KvSize /\ Size.attention = QSize
         /\ Size.projection >= model.hidden /\ (backend = "phone" => Size.projection >= QSize)
         /\ Size.gate = model.ff /\ Size.up = model.ff /\ Size.activation = model.ff
         /\ Size.scores = model.heads * MaxContext
         /\ Size.kCache = MaxContext * KvSize /\ Size.vCache = MaxContext * KvSize
<1>1. MaxContext \in Nat
  BY LayerMathAssumption
<1>2. model.heads * MaxContext \in Nat /\ MaxContext * KvSize \in Nat
  BY <1>1, ModelFacts, ProductIsNat
<1>3. /\ Size.x = model.hidden /\ Size.norm = model.hidden /\ Size.ffnOutput = model.hidden
      /\ Size.q = QSize /\ Size.k = KvSize /\ Size.v = KvSize /\ Size.attention = QSize
      /\ Size.projection = IF backend = "phone" THEN Larger(model.hidden, QSize) ELSE model.hidden
      /\ Size.gate = model.ff /\ Size.up = model.ff /\ Size.activation = model.ff
      /\ Size.scores = model.heads * MaxContext
      /\ Size.kCache = MaxContext * KvSize /\ Size.vCache = MaxContext * KvSize
      /\ DOMAIN Size = Buffers
  BY DEF Size, Buffers
<1>4. Size.projection \in Nat /\ Size.projection >= model.hidden /\ (backend = "phone"
        => Size.projection >= QSize)
  BY <1>3, ModelFacts DEF Larger
<1>5. ASSUME NEW b \in Buffers PROVE Size[b] \in Nat
  BY <1>2, <1>3, <1>4, ModelFacts DEF Buffers
<1>6. QED
  BY <1>3, <1>4, <1>5

-----------------------------------------------------------------------------
(* The elements that kernels write, whatever shares of them threads take. *)

\* Shaders write whole words, so that there must be an even number.
Divisible(n) == n \in Nat /\ (backend = "phone" => n % 2 = 0)

LEMMA OwnElementsAll ==
  ASSUME backend \in {"pc", "phone"}, NEW n, Divisible(n)
  PROVE  /\ OwnElements(n) = 0 .. n - 1
         /\ InTurn(n) = 0 .. n - 1
<1>1. CASE backend = "pc"
  BY <1>1, CoveredAll DEF OwnElements, InTurn, Divisible
<1>2. CASE backend # "pc"
  <2>1. Halves(0 .. Words(n) - 1) = 0 .. n - 1 /\ Words(n) \in Nat
    BY <1>2, HalvesAll DEF Divisible
  <2>2. Covered(Words(n)) = 0 .. Words(n) - 1
    BY <2>1, CoveredAll
  <2>3. QED
    BY <1>2, <2>1, <2>2 DEF OwnElements, InTurn
<1>3. QED
  BY <1>1, <1>2

LEMMA NormElements ==
  ASSUME backend \in {"pc", "phone"}, NEW k, Divisible(k.n)
  PROVE  Norm(k) = {<<i, <<"rms", k.with, i, Value(k.from, i), Slice(k.from, 0, k.n)>>>> :
      i \in 0 .. k.n - 1}
BY OwnElementsAll, Zenon DEF Norm

LEMMA ProductElements ==
  ASSUME backend \in {"pc", "phone"}, NEW k, Divisible(k.m)
  PROVE  Product(k) = {<<r, <<"dot", k.with, r, Slice(k.from, 0, k.n)>>>> : r \in 0 .. k.m - 1}
<1> DEFINE row(r) == <<r, IF r < k.m THEN <<"dot", k.with, r, Slice(k.from, 0,
      k.n)>> ELSE <<"zero">>>>
<1>1. Product(k) = {row(r) : r \in 0 .. k.m - 1}
  BY OwnElementsAll, Zenon DEF Product
<1>2. ASSUME NEW r \in 0 .. k.m - 1
      PROVE  row(r) = <<r, <<"dot", k.with, r, Slice(k.from, 0, k.n)>>>>
  <2>1. r < k.m
    BY DEF Divisible
  <2>2. QED
    BY <2>1, Zenon
<1> HIDE DEF row
<1>3. QED
  BY <1>1, <1>2, Zenon

LEMMA BiasElements ==
  ASSUME NEW k, k.n \in Nat
  PROVE  Bias(k) = {<<i, <<"bias", k.with, i, Value(k.to, i)>>>> : i \in 0 .. k.n - 1}
BY CoveredAll, Zenon DEF Bias

LEMMA AddElements ==
  ASSUME backend \in {"pc", "phone"}, NEW k, Divisible(k.n)
  PROVE  AddInplace(k) = {<<i, <<"add", Value(k.to, i), Value(k.with, i)>>>> : i \in 0 .. k.n - 1}
BY OwnElementsAll, Zenon DEF AddInplace

LEMMA SwigluElements ==
  ASSUME backend \in {"pc", "phone"}, NEW k, Divisible(k.n)
  PROVE  Swiglu(k) = {<<i, <<"swiglu", Value(k.from, i), Value(k.with, i)>>>> :
      i \in 0 .. k.n - 1}
BY OwnElementsAll, Zenon DEF Swiglu

LEMMA StoreElements ==
  ASSUME NEW k, k.n \in Nat
  PROVE  StoreKv(k) = {<<position * k.n + i, Value(k.from, i)>> : i \in 0 .. k.n - 1}
BY CoveredAll, Zenon DEF StoreKv

LEMMA EvenProduct ==
  ASSUME NEW a \in Nat, NEW n \in Nat, n % 2 = 0
  PROVE  2 * ((a * n) \div 2) = a * n /\ (a * n) % 2 = 0
<1>1. PICK w \in Nat : n = 2 * w
  OBVIOUS
<1>2. a * n = 2 * (a * w) /\ a * w \in Nat
  BY <1>1
<1> DEFINE b == a * w
<1> HIDE DEF b
<1>3. 2 * ((2 * b) \div 2) = 2 * b /\ (2 * b) % 2 = 0
  BY <1>2 DEF b
<1>4. QED
  BY <1>2, <1>3 DEF b

LEMMA FirstIsBase ==
  ASSUME backend \in {"pc", "phone"}, NEW n, Divisible(n), NEW h \in Nat
  PROVE  FirstFrom(h * n) = h * n
BY EvenProduct DEF FirstFrom, Divisible

\* The index of an element of a head, and the head and place of an index.
LEMMA HeadIndex ==
  ASSUME NEW m \in Nat, NEW n \in Nat \ {0}, NEW h \in 0 .. m - 1, NEW d \in 0 .. n - 1
  PROVE  h * n + d \in 0 .. m * n - 1 /\ (h * n + d) \div n = h /\ (h * n + d) % n = d
BY PartWithin, QuotientUnique

LEMMA HeadOfIndex ==
  ASSUME NEW m \in Nat, NEW n \in Nat \ {0}, NEW i \in 0 .. m * n - 1
  PROVE  i \div n \in 0 .. m - 1 /\ i % n \in 0 .. n - 1 /\ (i \div n) * n + (i % n) = i
BY PartOf

LEMMA HeadNormElements ==
  ASSUME backend \in {"pc", "phone"}, NEW k, Divisible(k.n), k.n # 0, k.m \in Nat
  PROVE  HeadNorm(k) =
           {<<i, <<"rms", k.with, i % k.n, Value(k.from, i),
                   Slice(k.from, (i \div k.n) * k.n, k.n)>>>> : i \in 0 .. k.m * k.n - 1}
<1>1. PICK m \in Nat, n \in Nat \ {0} : m = k.m /\ n = k.n
  BY DEF Divisible
<1> DEFINE A(h, d) ==
             <<FirstFrom(h * k.n) + d,
               <<"rms", k.with, d, Value(k.from, h * k.n + d), Slice(k.from, h * k.n, k.n)>>>>
           T(i) ==
             <<i, <<"rms", k.with, i % n, Value(k.from, i), Slice(k.from, (i \div n) * n, n)>>>>
           All(H, D) == {A(h, d) : h \in H, d \in D}
           left == HeadNorm(k)
           right == {T(i) : i \in 0 .. m * n - 1}
<1>2. left = All(0 .. k.m - 1, InTurn(k.n))
  BY DEF HeadNorm
<1>3. InTurn(n) = 0 .. n - 1
  BY <1>1, OwnElementsAll
<1>4. ASSUME NEW h \in 0 .. m - 1 PROVE FirstFrom(h * n) = h * n
  BY <1>1, FirstIsBase
<1>5. ASSUME NEW h \in 0 .. m - 1, NEW d \in 0 .. n - 1
      PROVE  h * n + d \in 0 .. m * n - 1 /\ A(h, d) = T(h * n + d)
  <2>1. h * n + d \in 0 .. m * n - 1 /\ (h * n + d) \div n = h /\ (h * n + d) % n = d
    BY HeadIndex
  <2>2. QED
    BY <1>1, <1>4, <2>1, Zenon
<1> HIDE DEF A, T, All
<1>6. left = All(0 .. m - 1, 0 .. n - 1)
  <2>1. 0 .. k.m - 1 = 0 .. m - 1 /\ InTurn(k.n) = 0 .. n - 1
    BY <1>1, <1>3, Zenon
  <2>2. QED
    BY <1>2, <2>1, Zenon
<1>7. ASSUME NEW i \in 0 .. m * n - 1
      PROVE  \E h \in 0 .. m - 1, d \in 0 .. n - 1 : h * n + d = i
  <2>1. i \div n \in 0 .. m - 1 /\ i % n \in 0 .. n - 1 /\ (i \div n) * n + (i % n) = i
    BY HeadOfIndex
  <2>2. QED
    BY <2>1, Zenon
<1>8. left = right
  <2>1. ASSUME NEW e \in left PROVE e \in right
    BY <1>5, <1>6, <2>1 DEF All
  <2>2. ASSUME NEW i \in 0 .. m * n - 1 PROVE T(i) \in left
    <3>1. PICK h \in 0 .. m - 1, d \in 0 .. n - 1 : h * n + d = i
      BY <1>7
    <3>2. A(h, d) \in left /\ A(h, d) = T(i)
      BY <1>5, <1>6, <3>1 DEF All
    <3>3. QED
      BY <3>2
  <2>3. QED
    BY <2>1, <2>2, Zenon
<1>9. QED
  BY <1>1, <1>8, Zenon DEF T

\* Heads of pairs.
Paired(k) == k.m \in Nat /\ k.n \in Nat \ {0} /\ k.n % 2 = 0

LEMMA RotatePairsElements ==
  ASSUME NEW k, Paired(k)
  PROVE  RotatePairs(k) =
           {<<i, Rotated(k, (i \div k.n) * k.n, i % k.n)>> : i \in 0 .. k.m * k.n - 1}
<1>1. PICK m \in Nat, n \in Nat \ {0} : m = k.m /\ n = k.n
  BY DEF Paired
<1> DEFINE A(h, d) == <<h * k.n + d, Rotated(k, h * k.n, d)>>
           T(i) == <<i, Rotated(k, (i \div n) * n, i % n)>>
           All(H, D) == {A(h, d) : h \in H, d \in D}
           left == RotatePairs(k)
           right == {T(i) : i \in 0 .. m * n - 1}
<1>2. left = All(0 .. k.m - 1, 0 .. 2 * (k.n \div 2) - 1)
  BY DEF RotatePairs
<1>3. 0 .. 2 * (n \div 2) - 1 = 0 .. n - 1
  BY <1>1 DEF Paired
<1>4. ASSUME NEW h \in 0 .. m - 1, NEW d \in 0 .. n - 1
      PROVE  h * n + d \in 0 .. m * n - 1 /\ A(h, d) = T(h * n + d)
  <2>1. h * n + d \in 0 .. m * n - 1 /\ (h * n + d) \div n = h /\ (h * n + d) % n = d
    BY HeadIndex
  <2>2. QED
    BY <1>1, <2>1, Zenon
<1> HIDE DEF A, T, All
<1>5. left = All(0 .. m - 1, 0 .. n - 1)
  <2>1. 0 .. k.m - 1 = 0 .. m - 1 /\ 0 .. 2 * (k.n \div 2) - 1 = 0 .. n - 1
    BY <1>1, <1>3, Zenon
  <2>2. QED
    BY <1>2, <2>1, Zenon
<1>6. ASSUME NEW i \in 0 .. m * n - 1
      PROVE  \E h \in 0 .. m - 1, d \in 0 .. n - 1 : h * n + d = i
  <2>1. i \div n \in 0 .. m - 1 /\ i % n \in 0 .. n - 1 /\ (i \div n) * n + (i % n) = i
    BY HeadOfIndex
  <2>2. QED
    BY <2>1, Zenon
<1>7. left = right
  <2>1. ASSUME NEW e \in left PROVE e \in right
    BY <1>4, <1>5, <2>1 DEF All
  <2>2. ASSUME NEW i \in 0 .. m * n - 1 PROVE T(i) \in left
    <3>1. PICK h \in 0 .. m - 1, d \in 0 .. n - 1 : h * n + d = i
      BY <1>6
    <3>2. A(h, d) \in left /\ A(h, d) = T(i)
      BY <1>4, <1>5, <3>1 DEF All
    <3>3. QED
      BY <3>2
  <2>3. QED
    BY <2>1, <2>2, Zenon
<1>8. QED
  BY <1>1, <1>7, Zenon DEF T

\* The head and the place in it of an element of a word.
LEMMA WordPlace ==
  ASSUME NEW m \in Nat, NEW p \in Nat \ {0}, NEW word \in 0 .. m * p - 1, NEW lane \in 0 .. 1
  PROVE  /\ word \div p \in 0 .. m - 1 /\ 2 * (word % p) + lane \in 0 .. 2 * p - 1
         /\ 2 * (((word \div p) * (2 * p)) \div 2 + (word % p)) + lane
              = (word \div p) * (2 * p) + (2 * (word % p) + lane)
<1>1. PICK h \in 0 .. m - 1, f \in 0 .. p - 1 : h = word \div p /\ f = word % p
  BY PartOf
<1>2. 2 * ((h * (2 * p)) \div 2) = h * (2 * p) /\ h * (2 * p) \in Nat
  BY EvenProduct
<1>3. PICK b \in Nat : b = h * (2 * p)
  BY <1>2
<1>4. 2 * (b \div 2 + f) + lane = b + (2 * f + lane)
  BY <1>2, <1>3
<1>5. 2 * f + lane \in 0 .. 2 * p - 1
  OBVIOUS
<1>6. QED
  BY <1>1, <1>3, <1>4, <1>5, Zenon

Lies(p, word, lane, h, d) == h = word \div p /\ d = 2 * (word % p) + lane

LEMMA PlaceWord ==
  ASSUME NEW m \in Nat, NEW p \in Nat \ {0}, NEW h \in 0 .. m - 1, NEW d \in 0 .. 2 * p - 1
  PROVE  \E word \in 0 .. m * p - 1, lane \in 0 .. 1 : Lies(p, word, lane, h, d)
<1>1. PICK f \in 0 .. p - 1, lane \in 0 .. 1 : d = 2 * f + lane
  <2>1. d \div 2 \in 0 .. p - 1 /\ d % 2 \in 0 .. 1 /\ d = 2 * (d \div 2) + (d % 2)
    OBVIOUS
  <2>2. QED
    BY <2>1
<1>2. h * p + f \in 0 .. m * p - 1 /\ (h * p + f) \div p = h /\ (h * p + f) % p = f
  BY HeadIndex
<1>3. QED
  BY <1>1, <1>2, Zenon DEF Lies

LEMMA RotateWordsElements ==
  ASSUME NEW k, Paired(k)
  PROVE  RotateWords(k) =
           {<<i, Rotated(k, (i \div k.n) * k.n, i % k.n)>> : i \in 0 .. k.m * k.n - 1}
<1>1. PICK m \in Nat, n \in Nat \ {0} : m = k.m /\ n = k.n /\ n % 2 = 0
  BY DEF Paired
<1>2. PICK p \in Nat \ {0} : n = 2 * p /\ n \div 2 = p
  <2>1. n = 2 * (n \div 2) /\ n \div 2 \in Nat \ {0}
    BY <1>1
  <2>2. QED
    BY <2>1
<1>3. (m * n) \div 2 = m * p /\ m * p \in Nat
  <2>1. m * n = 2 * (m * p) /\ m * p \in Nat
    BY <1>2
  <2>2. PICK b \in Nat : b = m * p
    BY <2>1
  <2>3. (2 * b) \div 2 = b
    OBVIOUS
  <2>4. QED
    BY <2>1, <2>2, <2>3
<1> DEFINE A(h, d) == <<h * n + d, Rotated(k, h * n, d)>>
           T(i) == <<i, Rotated(k, (i \div n) * n, i % n)>>
           left == RotateWords(k)
           right == {T(i) : i \in 0 .. m * n - 1}
<1>4. {w \in Launched((k.m * k.n) \div 2, Block) : w < k.m * (k.n \div 2)} = 0 .. m * p - 1
  BY <1>1, <1>2, <1>3, CoveredAll, Zenon DEF Covered
<1>5. ASSUME NEW word \in 0 .. m * p - 1, NEW lane \in 0 .. 1
      PROVE  /\ word \div p \in 0 .. m - 1 /\ 2 * (word % p) + lane \in 0 .. n - 1
             /\ RotatedInWord(k, word, lane) = A(word \div p, 2 * (word % p) + lane)
  <2>1. /\ word \div p \in 0 .. m - 1 /\ 2 * (word % p) + lane \in 0 .. n - 1
        /\ 2 * (((word \div p) * n) \div 2 + (word % p)) + lane
              = (word \div p) * n + (2 * (word % p) + lane)
    <3>1. /\ word \div p \in 0 .. m - 1 /\ 2 * (word % p) + lane \in 0 .. 2 * p - 1
          /\ 2 * (((word \div p) * (2 * p)) \div 2 + (word % p)) + lane
                = (word \div p) * (2 * p) + (2 * (word % p) + lane)
      BY WordPlace, ZenonT(30)
    <3>2. QED
      BY <1>2, <3>1, Zenon
  <2>2. QED
    BY <1>1, <1>2, <2>1, Zenon DEF RotatedInWord
<1>6. ASSUME NEW h \in 0 .. m - 1, NEW d \in 0 .. n - 1 PROVE A(h, d) \in left
  <2>1. PICK word \in 0 .. m * p - 1, lane \in 0 .. 1 : Lies(p, word, lane, h, d)
    <3>1. d \in 0 .. 2 * p - 1
      BY <1>2
    <3>2. QED
      BY <3>1, PlaceWord
  <2>2. RotatedInWord(k, word, lane) = A(h, d)
    BY <1>5, <2>1, Zenon DEF Lies
  <2>3. RotatedInWord(k, word, lane) \in left
    BY <1>4, <2>1 DEF RotateWords
  <2>4. QED
    BY <2>2, <2>3, Zenon
<1>7. ASSUME NEW e \in left PROVE e \in right
  <2>1. PICK h \in 0 .. m - 1, d \in 0 .. n - 1 : e = A(h, d)
    <3>1. PICK word \in 0 .. m * p - 1, lane \in 0 .. 1 : e = RotatedInWord(k, word, lane)
      BY <1>4, <1>7 DEF RotateWords
    <3>2. QED
      BY <1>5, <3>1, Zenon
  <2>2. h * n + d \in 0 .. m * n - 1 /\ (h * n + d) \div n = h /\ (h * n + d) % n = d
    BY HeadIndex
  <2>3. A(h, d) = T(h * n + d)
    BY <2>2, Zenon
  <2>4. QED
    BY <2>1, <2>2, <2>3, Zenon
<1>8. ASSUME NEW i \in 0 .. m * n - 1 PROVE T(i) \in left
  <2>1. i \div n \in 0 .. m - 1 /\ i % n \in 0 .. n - 1 /\ (i \div n) * n + (i % n) = i
    BY HeadOfIndex
  <2>2. A(i \div n, i % n) = T(i)
    BY <2>1, Zenon
  <2>3. QED
    BY <1>6, <2>1, <2>2, Zenon
<1>9. left = right
  BY <1>7, <1>8, Zenon
<1>10. QED
  BY <1>1, <1>9, Zenon

LEMMA RotateElements ==
  ASSUME NEW k, Paired(k)
  PROVE  Rotate(k) =
           {<<i, Rotated(k, (i \div k.n) * k.n, i % k.n)>> : i \in 0 .. k.m * k.n - 1}
BY RotatePairsElements, RotateWordsElements, Zenon DEF Rotate

\* A workgroup of attention_value has an invocation for each word of a head.
LEMMA WholeHeads ==
  ASSUME backend \in {"pc", "phone"}, model \in Models, Supported
  PROVE  OneEach(model.dim) = 0 .. model.dim - 1
<1> DEFINE bounded == IF Words(model.dim) < HeadGroup THEN Words(model.dim) ELSE HeadGroup
<1>1. CASE backend = "pc"
  BY <1>1 DEF OneEach
<1>2. CASE backend # "pc"
  <2>1. model.dim \in Nat /\ model.dim % 2 = 0 /\ model.dim <= MaxDim
    BY <1>2, ModelFacts DEF Supported, Acceptable
  <2>2. Halves(0 .. Words(model.dim) - 1) = 0 .. model.dim - 1 /\ Words(model.dim) \in Nat
    BY <2>1, HalvesAll
  <2>3. model.dim <= 2 * HeadGroup /\ HeadGroup \in Nat
    BY <2>1, LayerMathAssumption
  <2>4. Words(model.dim) <= HeadGroup
    BY <2>1, <2>3 DEF Words
  <2>5. bounded = Words(model.dim)
    BY <2>2, <2>3, <2>4
  <2>6. QED
    BY <1>2, <2>2, <2>5 DEF OneEach
<1>3. QED
  BY <1>1, <1>2

LEMMA WeighElements ==
  ASSUME backend \in {"pc", "phone"}, model \in Models, Supported, NEW k
  PROVE  Weigh(k) = {<<i, Weighed(k, HeadOf(i), InHead(i))>> : i \in 0 .. QSize - 1}
<1>1. PICK m \in Nat, n \in Nat \ {0} : m = model.heads /\ n = model.dim
  BY ModelFacts
<1> DEFINE A(h, d) == <<FirstFrom(h * n) + d, Weighed(k, h, d)>>
           T(i) == <<i, Weighed(k, i \div n, i % n)>>
           left == Weigh(k)
           right == {T(i) : i \in 0 .. m * n - 1}
<1>2. OneEach(model.dim) = 0 .. n - 1
  BY <1>1, WholeHeads
<1>3. ASSUME NEW h \in 0 .. m - 1 PROVE FirstFrom(h * n) = h * n
  <2>1. Divisible(n)
    BY <1>1 DEF Divisible, Supported, Acceptable
  <2>2. h \in Nat
    OBVIOUS
  <2>3. QED
    BY <2>1, <2>2, FirstIsBase, Zenon
<1>4. ASSUME NEW h \in 0 .. m - 1, NEW d \in 0 .. n - 1 PROVE A(h, d) \in left
  BY <1>1, <1>2 DEF Weigh
<1>5. ASSUME NEW e \in left PROVE e \in right
  <2>1. PICK h \in 0 .. m - 1, d \in 0 .. n - 1 : e = A(h, d)
    BY <1>1, <1>2, <1>5 DEF Weigh
  <2>2. h * n + d \in 0 .. m * n - 1 /\ (h * n + d) \div n = h /\ (h * n + d) % n = d
    BY HeadIndex
  <2>3. A(h, d) = T(h * n + d)
    BY <1>3, <2>2, Zenon
  <2>4. QED
    BY <2>1, <2>2, <2>3, Zenon
<1>6. ASSUME NEW i \in 0 .. m * n - 1 PROVE T(i) \in left
  <2>1. i \div n \in 0 .. m - 1 /\ i % n \in 0 .. n - 1 /\ (i \div n) * n + (i % n) = i
    BY HeadOfIndex
  <2>2. A(i \div n, i % n) = T(i)
    BY <1>3, <2>1, Zenon
  <2>3. QED
    BY <1>4, <2>1, <2>2, Zenon
<1>7. left = right
  BY <1>5, <1>6, Zenon
<1>8. QED
  BY <1>1, <1>7, Zenon DEF HeadOf, InHead, QSize

-----------------------------------------------------------------------------
(* Buffers that hold vectors. *)

\* A row of n elements of a vector of the token at position p.
Held(row, vector, p, n) == \A i \in 0 .. n - 1 : row[i] = <<vector, p, i>>

\* What reading a buffer that holds a vector gives.
LEMMA ReadsHeld ==
  ASSUME LayerTypeOK, NEW b \in Buffers, NEW v, NEW p, NEW n \in Nat, n <= Size[b],
         Held(memory[b], v, p, n)
  PROVE  /\ \A i \in 0 .. n - 1 : Value(b, i) = <<v, p, i>>
         /\ \A base \in Nat, c \in Nat : base + c <= n => Slice(b, base, c) = Part(v, p, base, c)
<1>1. ASSUME NEW i \in 0 .. n - 1 PROVE Value(b, i) = <<v, p, i>>
  <2>1. Size[b] \in Nat
    BY SizeFacts DEF LayerTypeOK
  <2>2. i \in 0 .. Size[b] - 1
    BY <2>1
  <2>3. QED
    BY <2>2, Zenon DEF Value, Inside, Held
<1>2. ASSUME NEW base \in Nat, NEW c \in Nat, base + c <= n
      PROVE  Slice(b, base, c) = Part(v, p, base, c)
  <2>1. ASSUME NEW j \in 0 .. c - 1 PROVE Value(b, base + j) = <<v, p, base + j>>
    <3>1. base + j \in 0 .. n - 1
      BY <1>2
    <3>2. QED
      BY <1>1, <3>1, Zenon
  <2>2. QED
    BY <2>1, Zenon DEF Slice, Part
<1>3. QED
  BY <1>1, <1>2

Yields(b, v, p, n) ==
  /\ \A i \in 0 .. n - 1 : Value(b, i) = <<v, p, i>>
  /\ \A base \in Nat, c \in Nat : base + c <= n => Slice(b, base, c) = Part(v, p, base, c)

LEMMA HeldYields ==
  ASSUME LayerTypeOK, NEW b \in Buffers, NEW v, NEW p, NEW n \in Nat, n <= Size[b],
         Held(memory[b], v, p, n)
  PROVE  Yields(b, v, p, n)
BY ReadsHeld DEF Yields

\* A kernel that computes some elements of a vector leaves them in its buffer.
LEMMA SomeHeldAfter ==
  ASSUME NEW k, k.op # "store", NEW v \in VectorNames, NEW S, S \subseteq DOMAIN memory[k.to],
         Computed(k) = {<<i, Definition(v, position, i)>> : i \in S}
  PROVE  \A i \in S : AfterKernel(k)[i] = <<v, position, i>>
<1> SUFFICES ASSUME NEW i \in S PROVE AfterKernel(k)[i] = <<v, position, i>>
  OBVIOUS
<1>1. i \in DOMAIN memory[k.to]
  OBVIOUS
<1>2. \E w \in Computed(k) : w[1] = i
  <2>1. <<i, Definition(v, position, i)>> \in Computed(k)
    BY Zenon
  <2>2. QED
    BY <2>1
<1>3. ASSUME NEW w \in Computed(k), w[1] = i PROVE w[2] = Definition(v, position, i)
  <2>1. PICK j \in S : w = <<j, Definition(v, position, j)>>
    BY Zenon
  <2>2. j = i
    BY <1>3, <2>1
  <2>3. QED
    BY <2>1, <2>2
<1>4. QED
  BY <1>1, <1>2, <1>3, Computes

\* One that computes all leaves the vector.
LEMMA HeldAfter ==
  ASSUME LayerTypeOK, NEW k, k.op # "store", k.to \in Buffers, NEW v \in VectorNames,
         NEW n \in Nat, n <= Size[k.to],
         Computed(k) = {<<i, Definition(v, position, i)>> : i \in 0 .. n - 1}
  PROVE  Held(AfterKernel(k), v, position, n)
<1>1. 0 .. n - 1 \subseteq DOMAIN memory[k.to]
  <2>1. Size[k.to] \in Nat
    BY SizeFacts DEF LayerTypeOK
  <2>2. DOMAIN memory[k.to] = 0 .. Size[k.to] - 1
    BY Zenon DEF LayerTypeOK
  <2>3. QED
    BY <2>1, <2>2
<1>2. \A i \in 0 .. n - 1 : AfterKernel(k)[i] = <<v, position, i>>
  BY <1>1, SomeHeldAfter
<1>3. QED
  BY <1>2, Zenon DEF Held

\* A step that launches nothing leaves its buffer alone.
LEMMA NoneWritten ==
  ASSUME NEW k, k.op = "none"
  PROVE  WrittenBy(k) = {} /\ \A i \in DOMAIN memory[k.to] : AfterKernel(k)[i] = memory[k.to][i]
<1>1. Computed(k) = {}
  BY DEF Computed
<1>2. WrittenBy(k) = {}
  BY <1>1 DEF WrittenBy
<1>3. QED
  BY <1>2, LeavesAlone

LEMMA Names ==
  /\ \A w \in Matrices : <<"product", w>> \in VectorNames /\ <<"biased", w>> \in VectorNames
  /\ \A w \in Heads : <<"normed", w>> \in VectorNames /\ <<"rotated", w>> \in VectorNames
  /\ \A w \in {"attn_norm", "ffn_norm"} : <<"norm", w>> \in VectorNames
  /\ \A w \in {"attn_output", "ffn_down"} : <<"sum", w>> \in VectorNames
  /\ <<"score", "heads">> \in VectorNames /\ <<"attended", "heads">> \in VectorNames
  /\ <<"activation", "gate">> \in VectorNames
BY DEF VectorNames, AfterAttention, Output, Heads

LEMMA KernelFields ==
  ASSUME NEW op, NEW from, NEW with, NEW to, NEW n, NEW m
  PROVE  LET k == Kernel(op, from, with, to, n, m)
         IN k.op = op /\ k.from = from /\ k.with = with /\ k.to = to /\ k.n = n /\ k.m = m
BY DEF Kernel

LEMMA NormHeld ==
  ASSUME LayerTypeOK, NEW from \in Buffers, NEW to \in Buffers, NEW w \in {"attn_norm",
      "ffn_norm"},
         model.hidden <= Size[from], model.hidden <= Size[to],
         Held(memory[from], Normalized(w), position, model.hidden)
  PROVE  Held(AfterKernel(Kernel("norm", from, w, to, model.hidden, 0)), <<"norm", w>>, position,
      model.hidden)
<1>1. PICK k : /\ k = Kernel("norm", from, w, to, model.hidden, 0)
               /\ k.op = "norm" /\ k.from = from /\ k.with = w /\ k.to = to /\ k.n = model.hidden
  BY KernelFields
<1>2. PICK n \in Nat : n = model.hidden /\ n % 2 = 0 /\ backend \in {"pc", "phone"}
  BY ModelFacts DEF LayerTypeOK
<1> DEFINE v == <<"norm", w>>
           of == Normalized(w)
           term(i) == <<"rms", k.with, i, Value(k.from, i), Slice(k.from, 0, k.n)>>
<1>3. Computed(k) = {<<i, term(i)>> : i \in 0 .. k.n - 1}
  <2>1. Computed(k) = Norm(k)
    BY <1>1 DEF Computed
  <2>2. Divisible(k.n)
    BY <1>1, <1>2 DEF Divisible
  <2>3. QED
    BY <1>2, <2>1, <2>2, NormElements, Zenon
<1>4. ASSUME NEW i \in 0 .. k.n - 1 PROVE term(i) = Definition(v, position, i)
  <2>1. i \in 0 .. n - 1
    BY <1>1, <1>2, <1>4, Zenon
  <2>2. Value(from, i) = <<of, position, i>>
    BY <1>2, <2>1, ReadsHeld
  <2>3. Slice(from, 0, n) = Part(of, position, 0, n)
    BY <1>2, ReadsHeld
  <2>4. Definition(v, position, i) = <<"rms", w, i, <<of, position, i>>, Part(of, position, 0,
          model.hidden)>>
    BY DefinitionOfNorm, Zenon
  <2>5. QED
    BY <1>1, <1>2, <2>2, <2>3, <2>4, Zenon
<1>5. Computed(k) = {<<i, Definition(v, position, i)>> : i \in 0 .. k.n - 1}
  BY <1>3, <1>4, Zenon
<1>6. Held(AfterKernel(k), v, position, k.n)
  BY <1>1, <1>2, <1>5, HeldAfter, Names
<1>7. QED
  BY <1>1, <1>6, Zenon

LEMMA ProductHeld ==
  ASSUME LayerTypeOK, NEW from \in Buffers, NEW to \in Buffers, NEW w \in Matrices,
         NEW n \in Nat, n = Features(w), n <= Size[from], NEW m, Divisible(m), m <= Size[to],
         Held(memory[from], Operand(w), position, n)
  PROVE  Held(AfterKernel(Forward(w, from, to, n, m)), <<"product", w>>, position, m)
<1>1. PICK k : /\ k = Forward(w, from, to, n, m)
               /\ k.op = "product" /\ k.from = from /\ k.with = w /\ k.to = to /\ k.n = n
                   /\ k.m = m
  BY KernelFields DEF Forward
<1> DEFINE v == <<"product", w>>
           term(i) == <<"dot", k.with, i, Slice(k.from, 0, k.n)>>
<1>2. Computed(k) = {<<i, term(i)>> : i \in 0 .. k.m - 1}
  <2>1. Computed(k) = Product(k)
    BY <1>1 DEF Computed
  <2>2. Divisible(k.m) /\ backend \in {"pc", "phone"}
    BY <1>1 DEF LayerTypeOK
  <2>3. QED
    BY <2>1, <2>2, ProductElements, Zenon
<1>3. Slice(from, 0, n) = Part(Operand(w), position, 0, n)
  <2>1. Yields(from, Operand(w), position, n)
    BY HeldYields
  <2>2. 0 \in Nat /\ 0 + n <= n
    OBVIOUS
  <2>3. QED
    BY <2>1, <2>2, Zenon DEF Yields
<1>4. ASSUME NEW i \in 0 .. k.m - 1 PROVE term(i) = Definition(v, position, i)
  <2>1. term(i) = <<"dot", w, i, Part(Operand(w), position, 0, n)>>
    BY <1>1, <1>3, Zenon
  <2>2. Definition(v, position, i) = <<"dot", w, i, Part(Operand(w), position, 0, Features(w))>>
    BY DefinitionOfProduct, Zenon
  <2>3. QED
    BY <2>1, <2>2, Zenon
<1>5. Computed(k) = {<<i, Definition(v, position, i)>> : i \in 0 .. k.m - 1}
  BY <1>2, <1>4, Zenon
<1>6. Held(AfterKernel(k), v, position, k.m)
  BY <1>1, <1>5, HeldAfter, Names DEF Divisible
<1>7. QED
  BY <1>1, <1>6, Zenon

LEMMA BiasHeld ==
  ASSUME LayerTypeOK, Supported, NEW b \in Buffers, NEW w \in Matrices,
         NEW m \in Nat, m <= Size[b],
         Held(memory[b], <<"product", w>>, position, m)
  PROVE  Held(AfterKernel(BiasIfPresent(w, b, m)), Projected(w), position, m)
<1> DEFINE k == Kernel("bias", b, w, b, m, 0)
<1>1. k.op = "bias" /\ k.with = w /\ k.to = b /\ k.n = m
  BY KernelFields
<1>2. CASE backend = "pc" /\ w \in model.biases
  <2> DEFINE v == <<"biased", w>>
  <2>1. BiasIfPresent(w, b, m) = k /\ Projected(w) = v
    BY <1>2 DEF BiasIfPresent, When, Projected
  <2> HIDE DEF k
  <2> DEFINE term(i) == <<"bias", k.with, i, Value(k.to, i)>>
  <2>2. Computed(k) = {<<i, term(i)>> : i \in 0 .. k.n - 1}
    <3>1. Computed(k) = Bias(k)
      BY <1>1 DEF Computed
    <3>2. k.n \in Nat
      BY <1>1
    <3>3. QED
      BY <3>1, <3>2, BiasElements, Zenon
  <2>3. ASSUME NEW i \in 0 .. k.n - 1 PROVE term(i) = Definition(v, position, i)
    <3>1. i \in 0 .. m - 1
      BY <1>1, <2>3, Zenon
    <3>2. Value(b, i) = <<<<"product", w>>, position, i>>
      BY <3>1, ReadsHeld
    <3>3. Definition(v, position, i) = <<"bias", w, i, <<<<"product", w>>, position, i>>>>
      BY DefinitionOfBiased, Zenon
    <3>4. QED
      BY <1>1, <3>2, <3>3, Zenon
  <2>4. Computed(k) = {<<i, Definition(v, position, i)>> : i \in 0 .. k.n - 1}
    BY <2>2, <2>3, Zenon
  <2>5. Held(AfterKernel(k), v, position, k.n)
    BY <1>1, <2>4, HeldAfter, Names
  <2>6. QED
    BY <1>1, <2>1, <2>5, Zenon
<1>3. CASE ~(backend = "pc" /\ w \in model.biases)
  <2>1. w \notin model.biases
    BY <1>3 DEF Supported, Offloadable, LayerTypeOK
  <2>2. Projected(w) = <<"product", w>>
    BY <2>1 DEF Projected
  <2>3. \A i \in DOMAIN memory[b] : AfterKernel(BiasIfPresent(w, b, m))[i] = memory[b][i]
    <3>1. PICK r : r = BiasIfPresent(w, b, m) /\ r.op = "none" /\ r.to = b
      <4>1. BiasIfPresent(w, b, m) = [k EXCEPT !.op = "none"]
        BY <1>3, Zenon DEF BiasIfPresent, When
      <4>2. QED
        BY <4>1 DEF Kernel
    <3>2. QED
      BY <3>1, NoneWritten, Zenon
  <2>4. DOMAIN memory[b] = 0 .. Size[b] - 1 /\ Size[b] \in Nat
    BY SizeFacts DEF LayerTypeOK
  <2>5. QED
    BY <2>2, <2>3, <2>4 DEF Held
<1>4. QED
  BY <1>2, <1>3

LEMMA HeadsHeld ==
  ASSUME LayerTypeOK, Supported, Defined, NEW b \in Buffers, NEW w \in Heads,
         NEW heads \in Nat, heads * model.dim <= Size[b],
         Held(memory[b], Projected(w), position, heads * model.dim)
  PROVE  Held(AfterKernel(NormHeads(w, b, heads)), Normed(w), position, heads * model.dim)
<1>1. PICK n \in Nat \ {0} : n = model.dim /\ Divisible(n) /\ backend \in {"pc", "phone"}
  BY ModelFacts DEF LayerTypeOK, Divisible, Defined, Supported, Acceptable
<1>2. PICK total \in Nat : total = heads * n /\ total = heads * model.dim
  BY <1>1, ProductIsNat
<1>3. Yields(b, Projected(w), position, total)
  <2>1. total <= Size[b] /\ Held(memory[b], Projected(w), position, total)
    BY <1>2
  <2>2. QED
    BY <1>2, <2>1, HeldYields, Zenon
<1>4. CASE backend = "phone" \/ w \in model.headNorms
  <2>1. PICK k : /\ k = Kernel("normHeads", b, w, b, model.dim, heads)
                 /\ k.op = "normHeads" /\ k.from = b /\ k.with = w /\ k.to = b
                 /\ k.n = n /\ k.m = heads
    BY <1>1, KernelFields
  <2>2. NormHeads(w, b, heads) = k
    BY <1>4, <2>1, Zenon DEF NormHeads, When
  <2> DEFINE v == <<"normed", w>>
             of == Projected(w)
             term(i) == <<"rms", k.with, i % k.n, Value(k.from, i), Slice(k.from,
                 (i \div k.n) * k.n, k.n)>>
  <2>3. Normed(w) = v
    BY <1>1, <1>4 DEF Normed, Supported, Offloadable, Heads
  <2>4. Computed(k) = {<<i, term(i)>> : i \in 0 .. k.m * k.n - 1}
    <3>1. Computed(k) = HeadNorm(k)
      BY <2>1 DEF Computed
    <3>2. Divisible(k.n) /\ k.n # 0 /\ k.m \in Nat
      BY <1>1, <2>1
    <3>3. QED
      BY <1>1, <3>1, <3>2, HeadNormElements, Zenon
  <2>5. ASSUME NEW i \in 0 .. heads * n - 1
        PROVE  term(i) = Definition(v, position, i)
    <3>1. Value(b, i) = <<of, position, i>>
      BY <1>2, <1>3, <2>5, Zenon DEF Yields
    <3>2. i \div n \in 0 .. heads - 1
      BY HeadOfIndex
    <3>3. PICK base \in Nat : base = (i \div n) * n /\ base + n <= total
      BY <1>2, <3>2, PartWithin
    <3>4. Slice(b, (i \div n) * n, n) = Part(of, position, (i \div n) * n, n)
      BY <1>3, <3>3 DEF Yields
    <3>5. Definition(v, position, i) =
            <<"rms", w, InHead(i), <<of, position, i>>, Part(of, position, HeadOf(i) * model.dim,
                model.dim)>>
      BY DefinitionOfNormed, Zenon
    <3>6. QED
      BY <1>1, <2>1, <3>1, <3>4, <3>5, Zenon DEF InHead, HeadOf
  <2>6. Computed(k) = {<<i, Definition(v, position, i)>> : i \in 0 .. k.m * k.n - 1}
    <3>1. \A i \in 0 .. k.m * k.n - 1 : term(i) = Definition(v, position, i)
      BY <2>1, <2>5, Zenon
    <3>2. QED
      BY <2>4, <3>1, Zenon
  <2>7. k.m * k.n \in Nat /\ k.m * k.n <= Size[k.to] /\ k.to \in Buffers /\ k.op # "store"
    BY <1>2, <2>1
  <2>8. Held(AfterKernel(k), v, position, k.m * k.n)
    BY <2>6, <2>7, HeldAfter, Names
  <2>9. QED
    BY <1>2, <2>1, <2>2, <2>3, <2>8, Zenon
<1>5. CASE ~(backend = "phone" \/ w \in model.headNorms)
  <2>1. Normed(w) = Projected(w)
    BY <1>5, Zenon DEF Normed
  <2>2. PICK r : r = NormHeads(w, b, heads) /\ r.op = "none" /\ r.to = b
    <3>1. NormHeads(w, b, heads) = [Kernel("normHeads", b, w, b, model.dim,
            heads) EXCEPT !.op = "none"]
      BY <1>5, Zenon DEF NormHeads, When
    <3>2. QED
      BY <3>1 DEF Kernel
  <2>3. \A i \in DOMAIN memory[b] : AfterKernel(r)[i] = memory[b][i]
    BY <2>2, NoneWritten, ZenonT(30)
  <2>4. DOMAIN memory[b] = 0 .. Size[b] - 1 /\ Size[b] \in Nat
    BY SizeFacts DEF LayerTypeOK
  <2>5. Held(AfterKernel(r), Projected(w), position, total)
    <3>1. total <= Size[b] /\ Held(memory[b], Projected(w), position, total)
      BY <1>2
    <3>2. \A i \in 0 .. total - 1 : i \in DOMAIN memory[b]
      BY <2>4, <3>1
    <3>3. QED
      BY <2>3, <3>1, <3>2, Zenon DEF Held
  <2>6. QED
    BY <1>2, <2>1, <2>2, <2>5, Zenon
<1>6. QED
  BY <1>4, <1>5

\* The elements of the pair of an element.
LEMMA PairPlace ==
  ASSUME NEW m \in Nat, NEW n \in Nat \ {0}, n % 2 = 0, NEW h \in 0 .. m - 1, NEW d \in 0 .. n - 1
  PROVE  LET halfHead == n \div 2
             pair == d % halfHead
         IN /\ pair = IF d < halfHead THEN d ELSE d - halfHead
            /\ h * n + pair \in 0 .. m * n - 1 /\ h * n + halfHead + pair \in 0 .. m * n - 1
<1>1. PICK halfHead \in Nat \ {0} : halfHead = n \div 2 /\ n = 2 * halfHead
  <2>1. n \div 2 \in Nat \ {0} /\ n = 2 * (n \div 2)
    OBVIOUS
  <2>2. QED
    BY <2>1
<1> DEFINE pair == d % halfHead
<1>2. pair = (IF d < halfHead THEN d ELSE d - halfHead) /\ pair \in 0 .. halfHead - 1
  <2>1. CASE d < halfHead
    BY <1>1, <2>1
  <2>2. CASE ~(d < halfHead)
    <3>1. PICK r \in 0 .. halfHead - 1 : d = 1 * halfHead + r /\ r = d - halfHead
      BY <1>1, <2>2
    <3>2. d % halfHead = r
      BY <1>1, <3>1, QuotientUnique
    <3>3. QED
      BY <2>2, <3>1, <3>2
  <2>3. QED
    BY <2>1, <2>2
<1> HIDE DEF pair
<1>3. PICK base \in Nat, total \in Nat : base = h * n /\ total = m * n /\ base + n <= total
  <2>1. h * n \in Nat /\ m * n \in Nat /\ h * n + n <= m * n
    BY PartWithin, ProductIsNat
  <2>2. QED
    BY <2>1
<1>4. base + pair \in 0 .. total - 1 /\ base + halfHead + pair \in 0 .. total - 1
  BY <1>1, <1>2, <1>3
<1>5. QED
  BY <1>1, <1>2, <1>3, <1>4, Zenon DEF pair

LEMMA RotateHeld ==
  ASSUME LayerTypeOK, Supported, Defined, NEW from \in Buffers, NEW to \in Buffers,
      NEW w \in Heads,
         NEW heads \in Nat, heads * model.dim <= Size[from], heads * model.dim <= Size[to],
         Held(memory[from], Normed(w), position, heads * model.dim)
  PROVE  Held(AfterKernel(Kernel("rotate", from, from, to, model.dim, heads)),
              <<"rotated", w>>, position, heads * model.dim)
<1>1. PICK n \in Nat \ {0} : n = model.dim /\ n % 2 = 0
  BY ModelFacts DEF LayerTypeOK, Defined, Supported, Acceptable
<1>2. PICK total \in Nat : total = heads * n /\ total = heads * model.dim
  BY <1>1, ProductIsNat
<1>3. Yields(from, Normed(w), position, total)
  <2>1. total <= Size[from] /\ Held(memory[from], Normed(w), position, total)
    BY <1>2
  <2>2. QED
    BY <1>2, <2>1, HeldYields, Zenon
<1>4. PICK k : /\ k = Kernel("rotate", from, from, to, model.dim, heads)
               /\ k.op = "rotate" /\ k.from = from /\ k.to = to /\ k.n = n /\ k.m = heads
  BY <1>1, KernelFields
<1> DEFINE v == <<"rotated", w>>
           of == Normed(w)
           halfHead == n \div 2
           term(i) == Rotated(k, (i \div k.n) * k.n, i % k.n)
<1>5. Computed(k) = {<<i, term(i)>> : i \in 0 .. k.m * k.n - 1}
  <2>1. Computed(k) = Rotate(k)
    BY <1>4 DEF Computed
  <2>2. Paired(k)
    BY <1>1, <1>4 DEF Paired
  <2>3. QED
    BY <2>1, <2>2, RotateElements, Zenon
<1>6. ASSUME NEW i \in 0 .. heads * n - 1
      PROVE  term(i) = Definition(v, position, i)
  <2>1. PICK h \in 0 .. heads - 1, d \in 0 .. n - 1 : h = i \div n /\ d = i % n
    BY HeadOfIndex
  <2> DEFINE pair == d % halfHead
             base == h * n
  <2>2. /\ pair = IF d < halfHead THEN d ELSE d - halfHead
        /\ base + pair \in 0 .. heads * n - 1 /\ base + halfHead + pair \in 0 .. heads * n - 1
    BY <1>1, PairPlace
  <2>3. base + pair \in 0 .. total - 1 /\ base + halfHead + pair \in 0 .. total - 1
    BY <1>2, <2>2, Zenon
  <2>4. Value(from, base + pair) = <<of, position, base + pair>>
    BY <1>3, <2>3, Zenon DEF Yields
  <2>5. Value(from, base + halfHead + pair) = <<of, position, base + halfHead + pair>>
    BY <1>3, <2>3, Zenon DEF Yields
  <2>6. Rotated(k, base, d) =
          <<"rotate", d < halfHead, pair, position, Value(from, base + pair), Value(from,
              base + halfHead + pair)>>
    BY <1>4, <2>2, Zenon DEF Rotated
  <2>7. Definition(v, position, i) =
          <<"rotate", d < halfHead, pair, position,
            <<of, position, base + pair>>, <<of, position, base + halfHead + pair>>>>
    BY <1>1, <2>1, DefinitionOfRotated, Zenon DEF InHead, HeadOf
  <2>8. QED
    BY <1>4, <2>1, <2>4, <2>5, <2>6, <2>7, Zenon
<1>7. Computed(k) = {<<i, Definition(v, position, i)>> : i \in 0 .. k.m * k.n - 1}
  <2>1. \A i \in 0 .. k.m * k.n - 1 : term(i) = Definition(v, position, i)
    BY <1>4, <1>6, Zenon
  <2>2. QED
    BY <1>5, <2>1, Zenon
<1>8. k.m * k.n \in Nat /\ k.m * k.n <= Size[k.to] /\ k.to \in Buffers /\ k.op # "store"
  BY <1>2, <1>4
<1>9. Held(AfterKernel(k), v, position, k.m * k.n)
  BY <1>7, <1>8, HeldAfter, Names
<1>10. QED
  BY <1>2, <1>4, <1>9, Zenon

LEMMA AddHeld ==
  ASSUME LayerTypeOK, NEW with \in Buffers, NEW w \in {"attn_output", "ffn_down"},
         model.hidden <= Size[with],
         Held(memory.x, Residual(w), position, model.hidden),
         Held(memory[with], Projected(w), position, model.hidden)
  PROVE  Held(AfterKernel(Kernel("add", "x", with, "x", model.hidden, 0)),
              <<"sum", w>>, position, model.hidden)
<1>1. PICK k : /\ k = Kernel("add", "x", with, "x", model.hidden, 0)
               /\ k.op = "add" /\ k.with = with /\ k.to = "x" /\ k.n = model.hidden
  BY KernelFields
<1>2. PICK n \in Nat : n = model.hidden /\ n % 2 = 0 /\ n = Size["x"]
        /\ backend \in {"pc", "phone"}
  BY ModelFacts, SizeFacts DEF LayerTypeOK
<1>3. Yields("x", Residual(w), position, n) /\ Yields(with, Projected(w), position, n)
  BY <1>2, HeldYields DEF Buffers
<1> DEFINE v == <<"sum", w>>
           term(i) == <<"add", Value(k.to, i), Value(k.with, i)>>
<1>4. Computed(k) = {<<i, term(i)>> : i \in 0 .. k.n - 1}
  <2>1. Computed(k) = AddInplace(k)
    BY <1>1 DEF Computed
  <2>2. Divisible(k.n)
    BY <1>1, <1>2 DEF Divisible
  <2>3. QED
    BY <1>2, <2>1, <2>2, AddElements, Zenon
<1>5. ASSUME NEW i \in 0 .. k.n - 1 PROVE term(i) = Definition(v, position, i)
  <2>1. Value("x", i) = <<Residual(w), position, i>>
          /\ Value(with, i) = <<Projected(w), position, i>>
    BY <1>1, <1>2, <1>3, <1>5, Zenon DEF Yields
  <2>2. Definition(v, position, i) = <<"add", <<Residual(w), position, i>>, <<Projected(w),
          position, i>>>>
    BY DefinitionOfSum, ZenonT(30)
  <2>3. QED
    BY <1>1, <2>1, <2>2, Zenon
<1>6. Computed(k) = {<<i, Definition(v, position, i)>> : i \in 0 .. k.n - 1}
  BY <1>4, <1>5, Zenon
<1>7. Held(AfterKernel(k), v, position, k.n)
  BY <1>1, <1>2, <1>6, HeldAfter, Names DEF Buffers
<1>8. QED
  BY <1>1, <1>7, Zenon

LEMMA SwigluHeld ==
  ASSUME LayerTypeOK,
         Held(memory.gate, Projected("ffn_gate"), position, model.ff),
         Held(memory.up, Projected("ffn_up"), position, model.ff)
  PROVE  Held(AfterKernel(Kernel("swiglu", "gate", "up", "activation", model.ff, 0)),
              <<"activation", "gate">>, position, model.ff)
<1>1. PICK k : /\ k = Kernel("swiglu", "gate", "up", "activation", model.ff, 0)
               /\ k.op = "swiglu" /\ k.from = "gate" /\ k.with = "up" /\ k.to = "activation"
               /\ k.n = model.ff
  BY KernelFields
<1>2. PICK n \in Nat : /\ n = model.ff /\ n % 2 = 0 /\ backend \in {"pc", "phone"}
                       /\ n = Size["gate"] /\ n = Size["up"] /\ n = Size["activation"]
  BY ModelFacts, SizeFacts DEF LayerTypeOK
<1>3. Yields("gate", Projected("ffn_gate"), position, n)
        /\ Yields("up", Projected("ffn_up"), position, n)
  <2>1. "gate" \in Buffers /\ n <= Size["gate"]
          /\ Held(memory["gate"], Projected("ffn_gate"), position, n)
    BY <1>2 DEF Buffers
  <2>2. "up" \in Buffers /\ n <= Size["up"]
          /\ Held(memory["up"], Projected("ffn_up"), position, n)
    BY <1>2 DEF Buffers
  <2>3. QED
    BY <2>1, <2>2, HeldYields
<1> DEFINE v == <<"activation", "gate">>
           term(i) == <<"swiglu", Value(k.from, i), Value(k.with, i)>>
<1>4. Computed(k) = {<<i, term(i)>> : i \in 0 .. k.n - 1}
  <2>1. Computed(k) = Swiglu(k)
    BY <1>1 DEF Computed
  <2>2. Divisible(k.n)
    BY <1>1, <1>2 DEF Divisible
  <2>3. QED
    BY <1>2, <2>1, <2>2, SwigluElements, Zenon
<1>5. ASSUME NEW i \in 0 .. k.n - 1 PROVE term(i) = Definition(v, position, i)
  <2>1. /\ Value("gate", i) = <<Projected("ffn_gate"), position, i>>
        /\ Value("up", i) = <<Projected("ffn_up"), position, i>>
    BY <1>1, <1>2, <1>3, <1>5, Zenon DEF Yields
  <2>2. QED
    BY <1>1, <2>1, DefinitionOfActivation, Zenon
<1>6. Computed(k) = {<<i, Definition(v, position, i)>> : i \in 0 .. k.n - 1}
  BY <1>4, <1>5, Zenon
<1>7. Held(AfterKernel(k), v, position, k.n)
  BY <1>1, <1>2, <1>6, HeldAfter, Names DEF Buffers
<1>8. QED
  BY <1>1, <1>7, Zenon

\* The rows of n tokens in a cache.
Rows(row, vector, n) ==
  \A t \in 0 .. n - 1, i \in 0 .. KvSize - 1 : row[t * KvSize + i] = <<vector, t, i>>

LEMMA StoreHeld ==
  ASSUME LayerTypeOK, NEW from \in Buffers, NEW to \in Buffers, NEW v,
         Size[to] = MaxContext * KvSize, KvSize <= Size[from],
         Held(memory[from], v, position, KvSize), Rows(memory[to], v, position)
  PROVE  Rows(AfterKernel(Kernel("store", from, from, to, KvSize, 0)), v, position + 1)
<1>1. PICK k : /\ k = Kernel("store", from, from, to, KvSize, 0)
               /\ k.op = "store" /\ k.from = from /\ k.to = to /\ k.n = KvSize
  BY KernelFields
<1>2. PICK n \in Nat : n = KvSize
  BY ModelFacts DEF LayerTypeOK
<1>3. Yields(from, v, position, n)
  BY <1>2, HeldYields
<1>4. WrittenBy(k) = {<<position * k.n + i, Value(k.from, i)>> : i \in 0 .. k.n - 1}
  <2>1. WrittenBy(k) = StoreKv(k)
    BY <1>1 DEF WrittenBy
  <2>2. k.n \in Nat
    BY <1>1, <1>2
  <2>3. QED
    BY <2>1, <2>2, StoreElements, Zenon
<1>5. position \in Nat /\ MaxContext \in Nat /\ position < MaxContext
  BY LayerMathAssumption DEF LayerTypeOK
<1>6. ASSUME NEW t \in 0 .. position, NEW i \in 0 .. n - 1
      PROVE  AfterKernel(k)[t * n + i] = <<v, t, i>>
  <2>1. t \in 0 .. MaxContext - 1 /\ n # 0
    BY <1>5
  <2>2. t * n + i \in 0 .. MaxContext * n - 1 /\ (t * n + i) \div n = t /\ (t * n + i) % n = i
    BY <1>5, <2>1, HeadIndex
  <2>3. t * n + i \in DOMAIN memory[to]
    BY <1>2, <2>2, Zenon DEF LayerTypeOK
  <2>4. ASSUME NEW w \in WrittenBy(k)
        PROVE  \E j \in 0 .. n - 1 : /\ w[1] = position * n + j /\ w[2] = <<v, position, j>>
                                     /\ w[1] \div n = position /\ w[1] % n = j
    <3>1. PICK j \in 0 .. n - 1 : w = <<position * n + j, Value(from, j)>>
      <4>1. PICK j \in 0 .. k.n - 1 : w = <<position * k.n + j, Value(k.from, j)>>
        BY <1>4, <2>4, Zenon
      <4>2. QED
        BY <1>1, <1>2, <4>1, Zenon
    <3>2. w[1] = position * n + j /\ w[2] = Value(from, j)
      BY <3>1
    <3>3. Value(from, j) = <<v, position, j>>
      BY <1>3, Zenon DEF Yields
    <3>4. position \in 0 .. MaxContext - 1
      BY <1>5
    <3>5. (position * n + j) \div n = position /\ (position * n + j) % n = j
      BY <1>5, <2>1, <3>4, HeadIndex
    <3>6. QED
      BY <3>2, <3>3, <3>5, Zenon
  <2>5. CASE t = position
    <3>1. <<position * n + i, Value(from, i)>> \in WrittenBy(k)
      BY <1>1, <1>2, <1>4, Zenon
    <3>2. \E w \in WrittenBy(k) : w[1] = t * n + i
      BY <2>5, <3>1
    <3>3. ASSUME NEW w \in WrittenBy(k), w[1] = t * n + i PROVE w[2] = <<v, t, i>>
      BY <2>2, <2>4, <2>5, <3>3, Zenon
    <3>4. PICK p, name : p = t * n + i /\ name = <<v, t, i>>
      OBVIOUS
    <3>5. /\ p \in DOMAIN memory[k.to] /\ \E w \in WrittenBy(k) : w[1] = p
          /\ \A w \in WrittenBy(k) : w[1] = p => w[2] = name
      BY <1>1, <2>3, <3>2, <3>3, <3>4, Zenon
    <3>6. AfterKernel(k)[p] = name
      BY <3>5, Moves
    <3>7. QED
      BY <3>4, <3>6, Zenon
  <2>6. CASE t # position
    <3>1. \A w \in WrittenBy(k) : w[1] # t * n + i
      BY <2>2, <2>4, <2>6, Zenon
    <3>2. AfterKernel(k)[t * n + i] = memory[to][t * n + i]
      BY <1>1, <2>3, <3>1, LeavesAlone
    <3>3. t \in 0 .. position - 1
      BY <1>5, <2>6
    <3>4. memory[to][t * n + i] = <<v, t, i>>
      BY <1>2, <3>3, Zenon DEF Rows
    <3>5. QED
      BY <3>2, <3>4
  <2>7. QED
    BY <2>5, <2>6
<1>7. PICK next : next = position + 1
  OBVIOUS
<1>8. ASSUME NEW t \in 0 .. next - 1, NEW i \in 0 .. KvSize - 1
      PROVE  AfterKernel(k)[t * KvSize + i] = <<v, t, i>>
  <2>1. t \in 0 .. position
    BY <1>5, <1>7
  <2>2. QED
    BY <1>2, <1>6, <1>8, <2>1, Zenon
<1>9. Rows(AfterKernel(k), v, next)
  BY <1>8, Zenon DEF Rows
<1>10. QED
  BY <1>1, <1>7, <1>9, Zenon

LEMMA Distribute ==
  ASSUME NEW a \in Nat, NEW b \in Nat, NEW c \in Nat, NEW e \in Nat
  PROVE  (a * b + e) * c = a * (b * c) + e * c
<1>1. PICK x \in Nat : x = a * b
  OBVIOUS
<1>2. (x + e) * c = x * c + e * c
  OBVIOUS
<1>3. (a * b) * c = a * (b * c)
  OBVIOUS
<1>4. QED
  BY <1>1, <1>2, <1>3, Zenon

\* What reading an element of a head in a cache gives.
LEMMA ReadsRows ==
  ASSUME LayerTypeOK, NEW b \in Buffers, NEW v, Size[b] = MaxContext * KvSize,
         Rows(memory[b], v, position + 1),
         NEW t \in 0 .. position, NEW s \in 0 .. model.kv - 1, NEW d \in 0 .. model.dim - 1
  PROVE  Value(b, (t * model.kv + s) * model.dim + d) = <<v, t, s * model.dim + d>>
<1>1. PICK kv \in Nat \ {0}, n \in Nat \ {0} : kv = model.kv /\ n = model.dim /\ KvSize = kv * n
  BY ModelFacts DEF LayerTypeOK, KvSize
<1>2. PICK i \in Nat, size \in Nat \ {0} : i = s * n + d /\ size = kv * n /\ i < size
  <2>1. s * n + d \in 0 .. kv * n - 1 /\ kv * n \in Nat
    BY <1>1, HeadIndex
  <2>2. QED
    BY <2>1
<1>3. (t * kv + s) * n + d = t * size + i
  <2>1. (t * kv + s) * n = t * (kv * n) + s * n
    <3>1. t \in Nat /\ s \in Nat
      BY DEF LayerTypeOK
    <3>2. QED
      BY <3>1, Distribute
  <2>2. t * (kv * n) \in Nat /\ s * n \in Nat
    BY <1>1, <1>2
  <2>3. QED
    BY <1>2, <2>1, <2>2
<1>4. position \in Nat /\ MaxContext \in Nat /\ t \in 0 .. MaxContext - 1
        /\ t \in 0 .. position + 1 - 1
  BY LayerMathAssumption DEF LayerTypeOK
<1>5. t * size + i \in 0 .. MaxContext * size - 1
  BY <1>2, <1>4, HeadIndex
<1>6. memory[b][t * size + i] = <<v, t, i>>
  BY <1>1, <1>2, <1>4 DEF Rows
<1>7. Value(b, t * size + i) = <<v, t, i>>
  BY <1>1, <1>2, <1>5, <1>6, Zenon DEF Value, Inside
<1>8. QED
  BY <1>1, <1>2, <1>3, <1>7, Zenon

Score == <<"score", "heads">>

\* The scores of all heads for the tokens so far.
Scored(row, p) ==
  \A h \in 0 .. model.heads - 1, t \in 0 .. p :
    row[h * MaxContext + t] = <<Score, p, h * MaxContext + t>>

LEMMA ScoresHeld ==
  ASSUME LayerTypeOK, NEW from \in Buffers, QSize <= Size[from],
         Held(memory[from], <<"rotated", "attn_q">>, position, QSize),
         Rows(memory.kCache, <<"rotated", "attn_k">>, position + 1)
  PROVE  Scored(AfterKernel(Kernel("scores", from, "kCache", "scores", 0, 0)), position)
<1>1. PICK k : /\ k = Kernel("scores", from, "kCache", "scores", 0, 0)
               /\ k.op = "scores" /\ k.from = from /\ k.with = "kCache" /\ k.to = "scores"
  BY KernelFields
<1>2. PICK heads \in Nat \ {0}, n \in Nat \ {0}, total \in Nat :
        heads = model.heads /\ n = model.dim /\ total = heads * n /\ total = QSize
  BY ModelFacts DEF LayerTypeOK, QSize
<1>3. Yields(from, <<"rotated", "attn_q">>, position, total)
  BY <1>2, HeldYields
<1>4. position \in Nat /\ MaxContext \in Nat \ {0} /\ position < MaxContext
  BY LayerMathAssumption DEF LayerTypeOK
<1> DEFINE Place(h, t) == h * MaxContext + t
           Keys(h, t) == Slice(k.with, (t * model.kv + KvHead(h)) * model.dim, model.dim)
           Term(h, t) == <<"score", Slice(k.from, h * model.dim, model.dim), Keys(h, t)>>
<1>5. Computed(k) = {<<Place(h, t), Term(h, t)>> : h \in 0 .. model.heads - 1,
        t \in 0 .. position}
  <2>1. Computed(k) = Scores(k)
    BY <1>1 DEF Computed
  <2>2. QED
    BY <2>1 DEF Scores
<1>6. ASSUME NEW h \in 0 .. heads - 1, NEW t \in 0 .. position
      PROVE  /\ Place(h, t) \in 0 .. heads * MaxContext - 1
             /\ Place(h, t) \div MaxContext = h /\ Place(h, t) % MaxContext = t
  <2>1. t \in 0 .. MaxContext - 1
    BY <1>4
  <2>2. QED
    BY <1>4, <2>1, HeadIndex
<1>7. ASSUME NEW h \in 0 .. heads - 1, NEW t \in 0 .. position
      PROVE  Term(h, t) = Definition(Score, position, Place(h, t))
  <2>1. Slice(from, h * n, n) = Part(<<"rotated", "attn_q">>, position, h * n, n)
    <3>1. PICK base \in Nat : base = h * n /\ base + n <= total
      BY <1>2, PartWithin
    <3>2. QED
      BY <1>3, <3>1 DEF Yields
  <2>2. Shared(h) \in 0 .. model.kv - 1 /\ KvHead(h) = Shared(h)
    BY <1>2, SharedIsHead DEF LayerTypeOK, KvHead, Shared
  <2>3. Keys(h, t) = Part(<<"rotated", "attn_k">>, t, Shared(h) * model.dim, model.dim)
    <3>1. ASSUME NEW d \in 0 .. model.dim - 1
          PROVE  Value("kCache", (t * model.kv + KvHead(h)) * model.dim + d) =
                   <<<<"rotated", "attn_k">>, t, Shared(h) * model.dim + d>>
      <4>1. "kCache" \in Buffers /\ Size["kCache"] = MaxContext * KvSize
        BY SizeFacts DEF Buffers, LayerTypeOK
      <4>2. PICK s \in 0 .. model.kv - 1 : s = Shared(h) /\ s = KvHead(h)
        BY <2>2
      <4>3. PICK v : v = <<"rotated", "attn_k">> /\ Rows(memory["kCache"], v, position + 1)
        OBVIOUS
      <4>4. Value("kCache", (t * model.kv + s) * model.dim + d) = <<v, t, s * model.dim + d>>
        BY <4>1, <4>3, ReadsRows
      <4>5. QED
        BY <4>2, <4>3, <4>4, Zenon
    <3>2. QED
      BY <1>1, <3>1, Zenon DEF Slice, Part
  <2>4. Definition(Score, position, Place(h, t)) =
          <<"score", Part(<<"rotated", "attn_q">>, position, h * model.dim, model.dim),
            Part(<<"rotated", "attn_k">>, t, Shared(h) * model.dim, model.dim)>>
    BY <1>6, DefinitionOfScore, Zenon DEF Score
  <2>5. QED
    BY <1>1, <1>2, <2>1, <2>3, <2>4, Zenon
<1>8. ASSUME NEW h \in 0 .. heads - 1, NEW t \in 0 .. position
      PROVE  AfterKernel(k)[Place(h, t)] = <<Score, position, Place(h, t)>>
  <2> HIDE DEF Place, Term, Keys
  <2>1. Place(h, t) \in DOMAIN memory[k.to]
    <3>1. Place(h, t) \in 0 .. Size.scores - 1
      BY <1>2, <1>6, SizeFacts DEF LayerTypeOK
    <3>2. QED
      BY <1>1, <3>1 DEF LayerTypeOK, Buffers
  <2>2. <<Place(h, t), Term(h, t)>> \in Computed(k)
    BY <1>2, <1>5
  <2>3. \E w \in Computed(k) : w[1] = Place(h, t)
    BY <2>2
  <2>4. ASSUME NEW w \in Computed(k) PROVE w[2] = Definition(Score, position, w[1])
    <3>1. PICK g \in 0 .. heads - 1, u \in 0 .. position : w = <<Place(g, u), Term(g, u)>>
      BY <1>2, <1>5, <2>4
    <3>2. w[1] = Place(g, u) /\ w[2] = Term(g, u)
      BY <3>1
    <3>3. QED
      BY <1>7, <3>2, Zenon
  <2>5. Score \in VectorNames
    BY Names DEF Score
  <2>6. PICK p : p = Place(h, t)
    OBVIOUS
  <2>7. AfterKernel(k)[p] = <<Score, position, p>>
    BY <1>1, <2>1, <2>3, <2>4, <2>5, <2>6, Computes
  <2>8. QED
    BY <2>6, <2>7, Zenon
<1>9. QED
  BY <1>1, <1>2, <1>8, Zenon DEF Scored

LEMMA WeighHeld ==
  ASSUME LayerTypeOK, Supported,
         Scored(memory.scores, position),
         Rows(memory.vCache, Projected("attn_v"), position + 1)
  PROVE  Held(AfterKernel(Kernel("weigh", "scores", "vCache", "attention", 0, 0)),
              <<"attended", "heads">>, position, QSize)
<1>1. PICK k : /\ k = Kernel("weigh", "scores", "vCache", "attention", 0, 0)
               /\ k.op = "weigh" /\ k.from = "scores" /\ k.with = "vCache" /\ k.to = "attention"
  BY KernelFields
<1>2. PICK heads \in Nat \ {0}, n \in Nat \ {0}, total \in Nat :
        /\ heads = model.heads /\ n = model.dim /\ total = heads * n /\ total = QSize
        /\ total = Size["attention"]
  BY ModelFacts, SizeFacts DEF LayerTypeOK, QSize
<1>3. position \in Nat /\ MaxContext \in Nat \ {0} /\ position < MaxContext
  BY LayerMathAssumption DEF LayerTypeOK
<1> DEFINE v == <<"attended", "heads">>
           term(i) == Weighed(k, HeadOf(i), InHead(i))
<1>4. Computed(k) = {<<i, term(i)>> : i \in 0 .. QSize - 1}
  <2>1. Computed(k) = Weigh(k)
    BY <1>1 DEF Computed
  <2>2. backend \in {"pc", "phone"} /\ model \in Models
    BY DEF LayerTypeOK
  <2>3. QED
    BY <2>1, <2>2, WeighElements, Zenon
<1>5. ASSUME NEW i \in 0 .. total - 1 PROVE term(i) = Definition(v, position, i)
  <2>1. PICK h \in 0 .. heads - 1, d \in 0 .. n - 1 : h = HeadOf(i) /\ d = InHead(i)
    BY <1>2, HeadOfIndex DEF HeadOf, InHead
  <2>2. ASSUME NEW t \in 0 .. position
        PROVE  Value("scores", h * MaxContext + t) = <<Score, position, h * MaxContext + t>>
    <3>1. t \in 0 .. MaxContext - 1
      BY <1>3
    <3>2. h * MaxContext + t \in 0 .. heads * MaxContext - 1
      BY <1>3, <3>1, HeadIndex
    <3>3. h * MaxContext + t \in 0 .. Size.scores - 1
      BY <1>2, <3>2, SizeFacts DEF LayerTypeOK
    <3>4. memory.scores[h * MaxContext + t] = <<Score, position, h * MaxContext + t>>
      BY <1>2, Zenon DEF Scored
    <3>5. QED
      BY <3>3, <3>4, Zenon DEF Value, Inside
  <2>3. Slice("scores", h * MaxContext, position + 1) =
          [t \in 0 .. position |-> <<Score, position, h * MaxContext + t>>]
    <3>1. 0 .. (position + 1) - 1 = 0 .. position
      BY <1>3
    <3>2. QED
      BY <2>2, <3>1, Zenon DEF Slice
  <2>4. Shared(h) \in 0 .. model.kv - 1 /\ KvHead(h) = Shared(h)
    BY <1>2, SharedIsHead DEF LayerTypeOK, KvHead, Shared
  <2>5. ASSUME NEW t \in 0 .. position
        PROVE  Value("vCache", (t * model.kv + KvHead(h)) * model.dim + d) =
                 <<Projected("attn_v"), t, Shared(h) * model.dim + d>>
    <3>1. "vCache" \in Buffers /\ Size["vCache"] = MaxContext * KvSize
      BY SizeFacts DEF Buffers, LayerTypeOK
    <3>2. d \in 0 .. model.dim - 1
      BY <1>2
    <3>3. PICK s \in 0 .. model.kv - 1 : s = Shared(h) /\ s = KvHead(h)
      BY <2>4
    <3>4. Value("vCache", (t * model.kv + s) * model.dim + d) =
            <<Projected("attn_v"), t, s * model.dim + d>>
      BY <3>1, <3>2, ReadsRows
    <3>5. QED
      BY <3>3, <3>4, Zenon
  <2>6. [t \in 0 .. position |-> Value("vCache", (t * model.kv + KvHead(h)) * model.dim + d)] =
          [t \in 0 .. position |-> <<Projected("attn_v"), t, Shared(h) * model.dim + d>>]
    BY <2>5, Zenon
  <2>7. Weighed(k, h, d) =
          <<"weigh", Slice("scores", h * MaxContext, position + 1),
            [t \in 0 .. position |-> Value("vCache",
                (t * model.kv + KvHead(h)) * model.dim + d)]>>
    BY <1>1, Zenon DEF Weighed
  <2>8. Definition(v, position, i) =
          <<"weigh", [t \in 0 .. position |-> <<Score, position, h * MaxContext + t>>],
            [t \in 0 .. position |-> <<Projected("attn_v"), t, Shared(h) * model.dim + d>>]>>
    BY <2>1, DefinitionOfAttended, Zenon DEF Score
  <2>9. QED
    BY <2>1, <2>3, <2>6, <2>7, <2>8, Zenon
<1>6. Computed(k) = {<<i, Definition(v, position, i)>> : i \in 0 .. total - 1}
  BY <1>2, <1>4, <1>5, Zenon
<1>7. Held(AfterKernel(k), v, position, total)
  BY <1>1, <1>2, <1>6, HeldAfter, Names DEF Buffers
<1>8. QED
  BY <1>1, <1>2, <1>7, Zenon

-----------------------------------------------------------------------------
(* No kernel of the program writes outside of its buffer, whatever the rest  *)
(* of memory holds, heads that do not divide into pairs included.            *)

Strays(k) == \E w \in WrittenBy(k) : ~Inside(k.to, w[1])

LEMMA StaysInside ==
  ASSUME NEW k, k.op # "store", NEW n \in Nat, n <= Size[k.to], Size[k.to] \in Nat,
         \A w \in Computed(k) : w[1] \in 0 .. n - 1
  PROVE  ~Strays(k)
<1> SUFFICES ASSUME NEW w \in WrittenBy(k) PROVE Inside(k.to, w[1])
  BY DEF Strays
<1>1. PICK u \in Computed(k) : w = <<u[1], Named(u[2], u[1])>>
  BY DEF WrittenBy
<1>2. w[1] = u[1]
  BY <1>1
<1>3. w[1] \in 0 .. n - 1
  BY <1>2
<1>4. w[1] \in 0 .. Size[k.to] - 1
  BY <1>3
<1>5. QED
  BY <1>4, Zenon DEF Inside

LEMMA NotLaunchedStays ==
  ASSUME NEW k, k.op = "none"
  PROVE  ~Strays(k)
BY NoneWritten DEF Strays

LEMMA NormStays ==
  ASSUME LayerTypeOK, NEW from, NEW to \in Buffers, NEW w, model.hidden <= Size[to]
  PROVE  ~Strays(Kernel("norm", from, w, to, model.hidden, 0))
<1>1. PICK k : /\ k = Kernel("norm", from, w, to, model.hidden, 0)
               /\ k.op = "norm" /\ k.to = to /\ k.n = model.hidden
  BY KernelFields
<1>2. Divisible(k.n) /\ backend \in {"pc", "phone"} /\ k.n \in Nat
  BY <1>1, ModelFacts DEF LayerTypeOK, Divisible
<1>3. Computed(k) = Norm(k)
  BY <1>1 DEF Computed
<1>4. \A u \in Computed(k) : u[1] \in 0 .. k.n - 1
  BY <1>2, <1>3, NormElements
<1>5. QED
  BY <1>1, <1>2, <1>4, StaysInside, SizeFacts DEF LayerTypeOK

LEMMA ProductStays ==
  ASSUME LayerTypeOK, NEW from, NEW to \in Buffers, NEW w, NEW n, NEW m, Divisible(m),
      m <= Size[to]
  PROVE  ~Strays(Forward(w, from, to, n, m))
<1>1. PICK k : /\ k = Forward(w, from, to, n, m)
               /\ k.op = "product" /\ k.to = to /\ k.m = m
  BY KernelFields DEF Forward
<1>2. Divisible(k.m) /\ backend \in {"pc", "phone"} /\ k.m \in Nat
  BY <1>1 DEF LayerTypeOK, Divisible
<1>3. Computed(k) = Product(k)
  BY <1>1 DEF Computed
<1>4. \A u \in Computed(k) : u[1] \in 0 .. k.m - 1
  BY <1>2, <1>3, ProductElements
<1>5. QED
  BY <1>1, <1>2, <1>4, StaysInside, SizeFacts DEF LayerTypeOK

LEMMA BiasStays ==
  ASSUME LayerTypeOK, NEW b \in Buffers, NEW w, NEW m \in Nat, m <= Size[b]
  PROVE  ~Strays(BiasIfPresent(w, b, m))
<1> DEFINE launched == Kernel("bias", b, w, b, m, 0)
<1>1. PICK k : k = BiasIfPresent(w, b, m) /\ (k = launched \/ k = [launched EXCEPT !.op = "none"])
  BY Zenon DEF BiasIfPresent, When
<1>2. CASE k = launched
  <2>1. k.op = "bias" /\ k.to = b /\ k.n = m
    BY <1>2, KernelFields
  <2>2. Computed(k) = Bias(k)
    BY <2>1 DEF Computed
  <2>3. \A u \in Computed(k) : u[1] \in 0 .. k.n - 1
    BY <2>1, <2>2, BiasElements
  <2>4. ~Strays(k)
    BY <2>1, <2>3, StaysInside, SizeFacts DEF LayerTypeOK
  <2>5. QED
    BY <1>1, <2>4, Zenon
<1>3. CASE k = [launched EXCEPT !.op = "none"]
  <2>1. k.op = "none"
    BY <1>3 DEF Kernel
  <2>2. QED
    BY <1>1, <2>1, NotLaunchedStays, Zenon
<1>4. QED
  BY <1>1, <1>2, <1>3

LEMMA HeadsStay ==
  ASSUME LayerTypeOK, Supported, NEW b \in Buffers, NEW w, NEW heads \in Nat,
      heads * model.dim <= Size[b]
  PROVE  ~Strays(NormHeads(w, b, heads))
<1> DEFINE launched == Kernel("normHeads", b, w, b, model.dim, heads)
<1>1. PICK k : k = NormHeads(w, b, heads) /\ (k = launched \/ k = [launched EXCEPT !.op = "none"])
  BY Zenon DEF NormHeads, When
<1>2. CASE k = launched
  <2>1. k.op = "normHeads" /\ k.to = b /\ k.n = model.dim /\ k.m = heads
    BY <1>2, KernelFields
  <2>2. Computed(k) = HeadNorm(k)
    BY <2>1 DEF Computed
  <2>3. Divisible(k.n) /\ k.n # 0 /\ k.m \in Nat /\ backend \in {"pc", "phone"}
    BY <2>1, ModelFacts DEF LayerTypeOK, Divisible, Supported, Acceptable
  <2>4. PICK total \in Nat : total = k.m * k.n
    BY <2>3, ProductIsNat DEF Divisible
  <2>5. \A u \in Computed(k) : u[1] \in 0 .. total - 1
    BY <2>2, <2>3, <2>4, HeadNormElements
  <2>6. total <= Size[k.to] /\ Size[k.to] \in Nat
    BY <2>1, <2>4, SizeFacts DEF LayerTypeOK
  <2>7. ~Strays(k)
    BY <2>1, <2>5, <2>6, StaysInside
  <2>8. QED
    BY <1>1, <2>7, Zenon
<1>3. CASE k = [launched EXCEPT !.op = "none"]
  <2>1. k.op = "none"
    BY <1>3 DEF Kernel
  <2>2. QED
    BY <1>1, <2>1, NotLaunchedStays, Zenon
<1>4. QED
  BY <1>1, <1>2, <1>3

LEMMA RotateStays ==
  ASSUME LayerTypeOK, Supported, NEW from, NEW to \in Buffers, NEW heads \in Nat,
         heads * model.dim <= Size[to]
  PROVE  ~Strays(Kernel("rotate", from, from, to, model.dim, heads))
<1>1. PICK n \in Nat \ {0} : n = model.dim
  BY ModelFacts DEF LayerTypeOK
<1>2. PICK k : /\ k = Kernel("rotate", from, from, to, model.dim, heads)
               /\ k.op = "rotate" /\ k.to = to /\ k.n = n /\ k.m = heads
  BY <1>1, KernelFields
<1>3. PICK total \in Nat : total = heads * n /\ total <= Size[to]
  BY <1>1, ProductIsNat
<1>4. Computed(k) = Rotate(k)
  BY <1>2 DEF Computed
<1>5. ASSUME NEW u \in Computed(k) PROVE u[1] \in 0 .. total - 1
  <2>1. CASE backend = "pc"
    <3>1. PICK h \in 0 .. heads - 1, d \in 0 .. 2 * (n \div 2) - 1 : u[1] = h * n + d
      <4>1. u \in RotatePairs(k)
        BY <1>4, <1>5, <2>1, Zenon DEF Rotate
      <4>2. PICK h \in 0 .. k.m - 1, d \in 0 .. 2 * (k.n \div 2) - 1 :
              u = <<h * k.n + d, Rotated(k, h * k.n, d)>>
        BY <4>1 DEF RotatePairs
      <4>3. u[1] = h * k.n + d
        BY <4>2
      <4>4. QED
        BY <1>2, <4>2, <4>3, Zenon
    <3>2. d \in 0 .. n - 1
      BY <1>1
    <3>3. h * n + d \in 0 .. heads * n - 1
      BY <3>2, HeadIndex
    <3>4. QED
      BY <1>3, <3>1, <3>3, Zenon
  <2>2. CASE backend # "pc"
    <3>1. Paired(k)
      BY <1>1, <1>2, <2>2 DEF LayerTypeOK, Paired, Supported, Acceptable
    <3>2. PICK i \in 0 .. k.m * k.n - 1 : u = <<i, Rotated(k, (i \div k.n) * k.n, i % k.n)>>
      <4>1. Rotate(k) = {<<i, Rotated(k, (i \div k.n) * k.n, i % k.n)>> :
              i \in 0 .. k.m * k.n - 1}
        BY <3>1, RotateElements
      <4>2. u \in Rotate(k)
        BY <1>4, <1>5
      <4>3. QED
        BY <4>1, <4>2, Zenon
    <3>3. u[1] = i
      BY <3>2
    <3>4. QED
      BY <1>2, <1>3, <3>2, <3>3, Zenon
  <2>3. QED
    BY <2>1, <2>2
<1>6. ~Strays(k)
  BY <1>2, <1>3, <1>5, StaysInside, SizeFacts DEF LayerTypeOK
<1>7. QED
  BY <1>2, <1>6, Zenon

LEMMA AddStays ==
  ASSUME LayerTypeOK, NEW with
  PROVE  ~Strays(Kernel("add", "x", with, "x", model.hidden, 0))
<1>1. PICK k : /\ k = Kernel("add", "x", with, "x", model.hidden, 0)
               /\ k.op = "add" /\ k.to = "x" /\ k.n = model.hidden
  BY KernelFields
<1>2. Divisible(k.n) /\ backend \in {"pc", "phone"} /\ k.n \in Nat
  BY <1>1, ModelFacts DEF LayerTypeOK, Divisible
<1>3. Computed(k) = AddInplace(k)
  BY <1>1 DEF Computed
<1>4. \A u \in Computed(k) : u[1] \in 0 .. k.n - 1
  BY <1>2, <1>3, AddElements
<1>5. k.n = Size[k.to]
  BY <1>1, SizeFacts DEF LayerTypeOK
<1>6. QED
  BY <1>1, <1>2, <1>4, <1>5, StaysInside

LEMMA SwigluStays ==
  ASSUME LayerTypeOK
  PROVE  ~Strays(Kernel("swiglu", "gate", "up", "activation", model.ff, 0))
<1>1. PICK k : /\ k = Kernel("swiglu", "gate", "up", "activation", model.ff, 0)
               /\ k.op = "swiglu" /\ k.to = "activation" /\ k.n = model.ff
  BY KernelFields
<1>2. Divisible(k.n) /\ backend \in {"pc", "phone"} /\ k.n \in Nat
  BY <1>1, ModelFacts DEF LayerTypeOK, Divisible
<1>3. Computed(k) = Swiglu(k)
  BY <1>1 DEF Computed
<1>4. \A u \in Computed(k) : u[1] \in 0 .. k.n - 1
  BY <1>2, <1>3, SwigluElements
<1>5. k.n = Size[k.to]
  BY <1>1, SizeFacts DEF LayerTypeOK
<1>6. QED
  BY <1>1, <1>2, <1>4, <1>5, StaysInside

LEMMA StoreStays ==
  ASSUME LayerTypeOK, NEW from, NEW to \in Buffers, Size[to] = MaxContext * KvSize
  PROVE  ~Strays(Kernel("store", from, from, to, KvSize, 0))
<1>1. PICK k : /\ k = Kernel("store", from, from, to, KvSize, 0)
               /\ k.op = "store" /\ k.to = to /\ k.n = KvSize
  BY KernelFields
<1>2. PICK n \in Nat : n = k.n /\ n = KvSize
  BY <1>1, ModelFacts DEF LayerTypeOK
<1>3. MaxContext \in Nat /\ position \in 0 .. MaxContext - 1
  BY LayerMathAssumption DEF LayerTypeOK
<1>4. ASSUME NEW u \in WrittenBy(k) PROVE Inside(to, u[1])
  <2>1. WrittenBy(k) = {<<position * k.n + i, Value(k.from, i)>> : i \in 0 .. k.n - 1}
    <3>1. WrittenBy(k) = StoreKv(k)
      BY <1>1 DEF WrittenBy
    <3>2. QED
      BY <1>2, <3>1, StoreElements, Zenon
  <2>2. PICK i \in 0 .. n - 1 : u[1] = position * n + i
    <3>1. PICK i \in 0 .. k.n - 1 : u = <<position * k.n + i, Value(k.from, i)>>
      BY <1>4, <2>1, Zenon
    <3>2. u[1] = position * k.n + i
      BY <3>1
    <3>3. QED
      BY <1>2, <3>1, <3>2, Zenon
  <2>3. position * n + i \in 0 .. MaxContext * n - 1
    BY <1>3, HeadIndex
  <2>4. QED
    BY <1>2, <2>2, <2>3, Zenon DEF Inside
<1>5. QED
  BY <1>1, <1>4, Zenon DEF Strays

LEMMA ScoresStay ==
  ASSUME LayerTypeOK, NEW from
  PROVE  ~Strays(Kernel("scores", from, "kCache", "scores", 0, 0))
<1>1. PICK k : k = Kernel("scores", from, "kCache", "scores", 0, 0) /\ k.op = "scores"
        /\ k.to = "scores"
  BY KernelFields
<1>2. MaxContext \in Nat \ {0} /\ position \in 0 .. MaxContext - 1 /\ model.heads \in Nat
  BY LayerMathAssumption, ModelFacts DEF LayerTypeOK
<1>3. PICK total \in Nat : total = model.heads * MaxContext /\ total = Size["scores"]
  BY <1>2, ProductIsNat, SizeFacts DEF LayerTypeOK
<1>4. Computed(k) = Scores(k)
  BY <1>1 DEF Computed
<1>5. ASSUME NEW u \in Computed(k) PROVE u[1] \in 0 .. total - 1
  <2>1. PICK h \in 0 .. model.heads - 1, t \in 0 .. position : u[1] = h * MaxContext + t
    BY <1>4, <1>5 DEF Scores
  <2>2. t \in 0 .. MaxContext - 1
    BY <1>2
  <2>3. h * MaxContext + t \in 0 .. model.heads * MaxContext - 1
    BY <1>2, <2>2, HeadIndex
  <2>4. QED
    BY <1>3, <2>1, <2>3, Zenon
<1>6. ~Strays(k)
  BY <1>1, <1>3, <1>5, StaysInside
<1>7. QED
  BY <1>1, <1>6, Zenon

LEMMA WeighStays ==
  ASSUME LayerTypeOK, Supported
  PROVE  ~Strays(Kernel("weigh", "scores", "vCache", "attention", 0, 0))
<1>1. PICK k : /\ k = Kernel("weigh", "scores", "vCache", "attention", 0, 0)
               /\ k.op = "weigh" /\ k.to = "attention"
  BY KernelFields
<1>2. PICK n \in Nat : n = QSize /\ n = Size["attention"]
  BY ModelFacts, SizeFacts DEF LayerTypeOK
<1>3. Computed(k) = {<<i, Weighed(k, HeadOf(i), InHead(i))>> : i \in 0 .. QSize - 1}
  <2>1. Computed(k) = Weigh(k)
    BY <1>1 DEF Computed
  <2>2. backend \in {"pc", "phone"} /\ model \in Models
    BY DEF LayerTypeOK
  <2>3. QED
    BY <2>1, <2>2, WeighElements, Zenon
<1>4. ASSUME NEW u \in Computed(k) PROVE u[1] \in 0 .. n - 1
  <2>1. PICK i \in 0 .. QSize - 1 : u = <<i, Weighed(k, HeadOf(i), InHead(i))>>
    BY <1>3, <1>4, Zenon
  <2>2. u[1] = i
    BY <2>1
  <2>3. QED
    BY <1>2, <2>1, <2>2
<1>5. ~Strays(k)
  BY <1>1, <1>2, <1>4, StaysInside
<1>6. QED
  BY <1>1, <1>5, Zenon

-----------------------------------------------------------------------------
(* The program. *)

\* What the steps use: sizes that words divide, and the places of the vectors
\* that the phone rotates.
LEMMA LayerFacts ==
  ASSUME LayerTypeOK, Supported
  PROVE  /\ Divisible(model.hidden) /\ Divisible(model.ff) /\ Divisible(QSize)
      /\ Divisible(KvSize)
         /\ model.heads \in Nat /\ model.kv \in Nat
         /\ QSize = model.heads * model.dim /\ KvSize = model.kv * model.dim
         /\ RotatedQ \in Buffers /\ RotatedK \in Buffers
         /\ QSize <= Size[RotatedQ] /\ KvSize <= Size[RotatedK]
<1>1. model.heads \in Nat /\ model.kv \in Nat /\ model.dim \in Nat /\ QSize \in Nat
        /\ KvSize \in Nat
  BY ModelFacts DEF LayerTypeOK
<1>2. Divisible(model.hidden) /\ Divisible(model.ff)
  BY ModelFacts DEF LayerTypeOK, Divisible
<1>3. Divisible(QSize) /\ Divisible(KvSize)
  <2>1. CASE backend = "phone"
    <3>1. model.dim % 2 = 0
      BY <2>1 DEF Supported, Acceptable
    <3>2. PICK dim \in Nat : dim = model.dim /\ dim % 2 = 0
      BY <1>1, <3>1
    <3>3. (model.heads * dim) % 2 = 0 /\ (model.kv * dim) % 2 = 0
      BY <1>1, <3>2, EvenProduct
    <3>4. QED
      BY <1>1, <3>2, <3>3, Zenon DEF Divisible, QSize, KvSize
  <2>2. CASE backend # "phone"
    BY <1>1, <2>2 DEF Divisible
  <2>3. QED
    BY <2>1, <2>2
<1>4. KvSize <= QSize
  <2>1. model.kv <= model.heads
    BY SharedIsHead DEF LayerTypeOK
  <2>2. model.kv * model.dim <= model.heads * model.dim
    BY <1>1, <2>1, Monotone
  <2>3. QED
    BY <2>2 DEF QSize, KvSize
<1>5. model \in Models /\ backend \in {"pc", "phone"}
  BY DEF LayerTypeOK
<1>6. RotatedQ \in Buffers /\ RotatedK \in Buffers
  BY DEF RotatedQ, RotatedK, Buffers
<1>7. QSize <= Size[RotatedQ] /\ KvSize <= Size[RotatedK]
  <2>1. CASE backend = "pc"
    BY <1>1, <1>5, <2>1, ModelFacts, SizeFacts DEF RotatedQ, RotatedK
  <2>2. CASE backend = "phone"
    BY <1>1, <1>4, <1>5, <2>2, ModelFacts, SizeFacts DEF RotatedQ, RotatedK
  <2>3. QED
    BY <1>5, <2>1, <2>2
<1>8. QED
  BY <1>1, <1>2, <1>3, <1>6, <1>7 DEF QSize, KvSize

\* Each buffer has room for what is written to it.
LEMMA Room ==
  ASSUME LayerTypeOK
  PROVE  /\ model.hidden \in Nat /\ model.ff \in Nat /\ QSize \in Nat /\ KvSize \in Nat
         /\ model.hidden <= Size["x"] /\ model.hidden <= Size["norm"]
         /\ model.hidden <= Size["projection"] /\ model.hidden <= Size["ffnOutput"]
         /\ QSize <= Size["q"] /\ QSize <= Size["attention"]
         /\ KvSize <= Size["k"] /\ KvSize <= Size["v"]
         /\ model.ff <= Size["gate"] /\ model.ff <= Size["up"] /\ model.ff <= Size["activation"]
         /\ Size["kCache"] = MaxContext * KvSize /\ Size["vCache"] = MaxContext * KvSize
<1>1. model \in Models
  BY DEF LayerTypeOK
<1>2. model.hidden \in Nat /\ model.ff \in Nat /\ QSize \in Nat /\ KvSize \in Nat
  BY <1>1, ModelFacts
<1>3. /\ Size.x = model.hidden /\ Size.norm = model.hidden /\ Size.ffnOutput = model.hidden
      /\ Size.q = QSize /\ Size.k = KvSize /\ Size.v = KvSize /\ Size.attention = QSize
      /\ Size.projection \in Nat /\ Size.projection >= model.hidden
      /\ Size.gate = model.ff /\ Size.up = model.ff /\ Size.activation = model.ff
      /\ Size.kCache = MaxContext * KvSize /\ Size.vCache = MaxContext * KvSize
  BY <1>1, SizeFacts DEF Buffers
<1>4. QED
  BY <1>2, <1>3

LEMMA BufferNames ==
  /\ "x" \in Buffers /\ "norm" \in Buffers /\ "q" \in Buffers /\ "k" \in Buffers
      /\ "v" \in Buffers
  /\ "attention" \in Buffers /\ "projection" \in Buffers /\ "gate" \in Buffers /\ "up" \in Buffers
  /\ "activation" \in Buffers /\ "ffnOutput" \in Buffers
  /\ "kCache" \in Buffers /\ "vCache" \in Buffers /\ "scores" \in Buffers
BY DEF Buffers

ProgramLength == 27

LEMMA ProgramSteps ==
  /\ Len(Program) = ProgramLength
  /\ Program[1] = Kernel("norm", "x", "attn_norm", "norm", model.hidden, 0)
  /\ Program[2] = Forward("attn_q", "norm", "q", model.hidden, QSize)
  /\ Program[3] = BiasIfPresent("attn_q", "q", QSize)
  /\ Program[4] = Forward("attn_k", "norm", "k", model.hidden, KvSize)
  /\ Program[5] = BiasIfPresent("attn_k", "k", KvSize)
  /\ Program[6] = Forward("attn_v", "norm", "v", model.hidden, KvSize)
  /\ Program[7] = BiasIfPresent("attn_v", "v", KvSize)
  /\ Program[8] = NormHeads("attn_q", "q", model.heads)
  /\ Program[9] = NormHeads("attn_k", "k", model.kv)
  /\ Program[10] = Kernel("rotate", "q", "q", RotatedQ, model.dim, model.heads)
  /\ Program[11] = Kernel("rotate", "k", "k", RotatedK, model.dim, model.kv)
  /\ Program[12] = Kernel("store", RotatedK, RotatedK, "kCache", KvSize, 0)
  /\ Program[13] = Kernel("store", "v", "v", "vCache", KvSize, 0)
  /\ Program[14] = Kernel("scores", RotatedQ, "kCache", "scores", 0, 0)
  /\ Program[15] = Kernel("weigh", "scores", "vCache", "attention", 0, 0)
  /\ Program[16] = Forward("attn_output", "attention", "projection", QSize, model.hidden)
  /\ Program[17] = BiasIfPresent("attn_output", "projection", model.hidden)
  /\ Program[18] = Kernel("add", "x", "projection", "x", model.hidden, 0)
  /\ Program[19] = Kernel("norm", "x", "ffn_norm", "norm", model.hidden, 0)
  /\ Program[20] = Forward("ffn_gate", "norm", "gate", model.hidden, model.ff)
  /\ Program[21] = BiasIfPresent("ffn_gate", "gate", model.ff)
  /\ Program[22] = Forward("ffn_up", "norm", "up", model.hidden, model.ff)
  /\ Program[23] = BiasIfPresent("ffn_up", "up", model.ff)
  /\ Program[24] = Kernel("swiglu", "gate", "up", "activation", model.ff, 0)
  /\ Program[25] = Forward("ffn_down", "activation", "ffnOutput", model.ff, model.hidden)
  /\ Program[26] = BiasIfPresent("ffn_down", "ffnOutput", model.hidden)
  /\ Program[27] = Kernel("add", "x", "ffnOutput", "x", model.hidden, 0)
BY DEF Program, ProgramLength

\* Where each writes.
LEMMA Targets ==
  ASSUME NEW w, NEW from, NEW to, NEW n, NEW m
  PROVE  /\ Forward(w, from, to, n, m).to = to
         /\ BiasIfPresent(w, to, m).to = to /\ NormHeads(w, to, m).to = to
<1>1. \A condition, k : k = Kernel(k.op, k.from, k.with, k.to, k.n, k.m)
        => When(condition, k).to = k.to
  BY DEF When, Kernel
<1>2. QED
  BY DEF Forward, BiasIfPresent, NormHeads, When, Kernel

LEMMA ProgramStays ==
  ASSUME LayerTypeOK, Supported, NEW n \in 1 .. ProgramLength
  PROVE  ~Strays(Program[n])
<1>1. CASE n = 1
  <2>1. Program[n] = Kernel("norm", "x", "attn_norm", "norm", model.hidden, 0)
    BY <1>1, ProgramSteps
  <2>2. QED
    BY <2>1, BufferNames, Room, NormStays
<1>2. CASE n = 2
  <2>1. Program[n] = Forward("attn_q", "norm", "q", model.hidden, QSize)
    BY <1>2, ProgramSteps
  <2>2. QED
    BY <2>1, BufferNames, Room, LayerFacts, ProductStays
<1>3. CASE n = 3
  <2>1. Program[n] = BiasIfPresent("attn_q", "q", QSize)
    BY <1>3, ProgramSteps
  <2>2. QED
    BY <2>1, BufferNames, Room, BiasStays
<1>4. CASE n = 4
  <2>1. Program[n] = Forward("attn_k", "norm", "k", model.hidden, KvSize)
    BY <1>4, ProgramSteps
  <2>2. QED
    BY <2>1, BufferNames, Room, LayerFacts, ProductStays
<1>5. CASE n = 5
  <2>1. Program[n] = BiasIfPresent("attn_k", "k", KvSize)
    BY <1>5, ProgramSteps
  <2>2. QED
    BY <2>1, BufferNames, Room, BiasStays
<1>6. CASE n = 6
  <2>1. Program[n] = Forward("attn_v", "norm", "v", model.hidden, KvSize)
    BY <1>6, ProgramSteps
  <2>2. QED
    BY <2>1, BufferNames, Room, LayerFacts, ProductStays
<1>7. CASE n = 7
  <2>1. Program[n] = BiasIfPresent("attn_v", "v", KvSize)
    BY <1>7, ProgramSteps
  <2>2. QED
    BY <2>1, BufferNames, Room, BiasStays
<1>8. CASE n = 8
  <2>1. Program[n] = NormHeads("attn_q", "q", model.heads)
    BY <1>8, ProgramSteps
  <2>2. QED
    BY <2>1, BufferNames, Room, LayerFacts, HeadsStay
<1>9. CASE n = 9
  <2>1. Program[n] = NormHeads("attn_k", "k", model.kv)
    BY <1>9, ProgramSteps
  <2>2. QED
    BY <2>1, BufferNames, Room, LayerFacts, HeadsStay
<1>10. CASE n = 10
  <2>1. Program[n] = Kernel("rotate", "q", "q", RotatedQ, model.dim, model.heads)
    BY <1>10, ProgramSteps
  <2>2. QED
    BY <2>1, BufferNames, Room, LayerFacts, RotateStays
<1>11. CASE n = 11
  <2>1. Program[n] = Kernel("rotate", "k", "k", RotatedK, model.dim, model.kv)
    BY <1>11, ProgramSteps
  <2>2. QED
    BY <2>1, BufferNames, Room, LayerFacts, RotateStays
<1>12. CASE n = 12
  <2>1. Program[n] = Kernel("store", RotatedK, RotatedK, "kCache", KvSize, 0)
    BY <1>12, ProgramSteps
  <2>2. QED
    BY <2>1, BufferNames, Room, LayerFacts, StoreStays
<1>13. CASE n = 13
  <2>1. Program[n] = Kernel("store", "v", "v", "vCache", KvSize, 0)
    BY <1>13, ProgramSteps
  <2>2. QED
    BY <2>1, BufferNames, Room, LayerFacts, StoreStays
<1>14. CASE n = 14
  <2>1. Program[n] = Kernel("scores", RotatedQ, "kCache", "scores", 0, 0)
    BY <1>14, ProgramSteps
  <2>2. QED
    BY <2>1, ScoresStay
<1>15. CASE n = 15
  <2>1. Program[n] = Kernel("weigh", "scores", "vCache", "attention", 0, 0)
    BY <1>15, ProgramSteps
  <2>2. QED
    BY <2>1, WeighStays
<1>16. CASE n = 16
  <2>1. Program[n] = Forward("attn_output", "attention", "projection", QSize, model.hidden)
    BY <1>16, ProgramSteps
  <2>2. QED
    BY <2>1, BufferNames, Room, LayerFacts, ProductStays
<1>17. CASE n = 17
  <2>1. Program[n] = BiasIfPresent("attn_output", "projection", model.hidden)
    BY <1>17, ProgramSteps
  <2>2. QED
    BY <2>1, BufferNames, Room, BiasStays
<1>18. CASE n = 18
  <2>1. Program[n] = Kernel("add", "x", "projection", "x", model.hidden, 0)
    BY <1>18, ProgramSteps
  <2>2. QED
    BY <2>1, AddStays
<1>19. CASE n = 19
  <2>1. Program[n] = Kernel("norm", "x", "ffn_norm", "norm", model.hidden, 0)
    BY <1>19, ProgramSteps
  <2>2. QED
    BY <2>1, BufferNames, Room, NormStays
<1>20. CASE n = 20
  <2>1. Program[n] = Forward("ffn_gate", "norm", "gate", model.hidden, model.ff)
    BY <1>20, ProgramSteps
  <2>2. QED
    BY <2>1, BufferNames, Room, LayerFacts, ProductStays
<1>21. CASE n = 21
  <2>1. Program[n] = BiasIfPresent("ffn_gate", "gate", model.ff)
    BY <1>21, ProgramSteps
  <2>2. QED
    BY <2>1, BufferNames, Room, BiasStays
<1>22. CASE n = 22
  <2>1. Program[n] = Forward("ffn_up", "norm", "up", model.hidden, model.ff)
    BY <1>22, ProgramSteps
  <2>2. QED
    BY <2>1, BufferNames, Room, LayerFacts, ProductStays
<1>23. CASE n = 23
  <2>1. Program[n] = BiasIfPresent("ffn_up", "up", model.ff)
    BY <1>23, ProgramSteps
  <2>2. QED
    BY <2>1, BufferNames, Room, BiasStays
<1>24. CASE n = 24
  <2>1. Program[n] = Kernel("swiglu", "gate", "up", "activation", model.ff, 0)
    BY <1>24, ProgramSteps
  <2>2. QED
    BY <2>1, SwigluStays
<1>25. CASE n = 25
  <2>1. Program[n] = Forward("ffn_down", "activation", "ffnOutput", model.ff, model.hidden)
    BY <1>25, ProgramSteps
  <2>2. QED
    BY <2>1, BufferNames, Room, LayerFacts, ProductStays
<1>26. CASE n = 26
  <2>1. Program[n] = BiasIfPresent("ffn_down", "ffnOutput", model.hidden)
    BY <1>26, ProgramSteps
  <2>2. QED
    BY <2>1, BufferNames, Room, BiasStays
<1>27. CASE n = 27
  <2>1. Program[n] = Kernel("add", "x", "ffnOutput", "x", model.hidden, 0)
    BY <1>27, ProgramSteps
  <2>2. QED
    BY <2>1, AddStays
<1>28. QED
  BY <1>1, <1>2, <1>3, <1>4, <1>5, <1>6, <1>7, <1>8, <1>9, <1>10, <1>11, <1>12, <1>13, <1>14,
     <1>15, <1>16, <1>17, <1>18, <1>19, <1>20, <1>21, <1>22, <1>23, <1>24, <1>25, <1>26,
         <1>27 DEF ProgramLength

\* What memory holds after n steps for the token at hand, and some later step
\* reads; the rows of the caches are those of the tokens stored so far.
MemoryAfter(n, mem) ==
  /\ Held(mem["x"], IF n < 18 THEN Input ELSE IF n < 27 THEN AfterAttention ELSE Output,
          position, model.hidden)
  /\ n \in 1 .. 5 => Held(mem["norm"], <<"norm", "attn_norm">>, position, model.hidden)
  /\ n = 2 => Held(mem["q"], <<"product", "attn_q">>, position, QSize)
  /\ n \in 3 .. 7 => Held(mem["q"], Projected("attn_q"), position, QSize)
  /\ n \in 8 .. 9 => Held(mem["q"], Normed("attn_q"), position, QSize)
  /\ n \in 10 .. 13 => Held(mem[RotatedQ], <<"rotated", "attn_q">>, position, QSize)
  /\ n = 4 => Held(mem["k"], <<"product", "attn_k">>, position, KvSize)
  /\ n \in 5 .. 8 => Held(mem["k"], Projected("attn_k"), position, KvSize)
  /\ n \in 9 .. 10 => Held(mem["k"], Normed("attn_k"), position, KvSize)
  /\ n = 11 => Held(mem[RotatedK], <<"rotated", "attn_k">>, position, KvSize)
  /\ n = 6 => Held(mem["v"], <<"product", "attn_v">>, position, KvSize)
  /\ n \in 7 .. 12 => Held(mem["v"], Projected("attn_v"), position, KvSize)
  /\ Rows(mem["kCache"], <<"rotated", "attn_k">>, IF n < 12 THEN position ELSE position + 1)
  /\ Rows(mem["vCache"], Projected("attn_v"), IF n < 13 THEN position ELSE position + 1)
  /\ n = 14 => Scored(mem["scores"], position)
  /\ n = 15 => Held(mem["attention"], <<"attended", "heads">>, position, QSize)
  /\ n = 16 => Held(mem["projection"], <<"product", "attn_output">>, position, model.hidden)
  /\ n = 17 => Held(mem["projection"], Projected("attn_output"), position, model.hidden)
  /\ n \in 19 .. 21 => Held(mem["norm"], <<"norm", "ffn_norm">>, position, model.hidden)
  /\ n = 20 => Held(mem["gate"], <<"product", "ffn_gate">>, position, model.ff)
  /\ n \in 21 .. 23 => Held(mem["gate"], Projected("ffn_gate"), position, model.ff)
  /\ n = 22 => Held(mem["up"], <<"product", "ffn_up">>, position, model.ff)
  /\ n = 23 => Held(mem["up"], Projected("ffn_up"), position, model.ff)
  /\ n = 24 => Held(mem["activation"], <<"activation", "gate">>, position, model.ff)
  /\ n = 25 => Held(mem["ffnOutput"], <<"product", "ffn_down">>, position, model.hidden)
  /\ n = 26 => Held(mem["ffnOutput"], Projected("ffn_down"), position, model.hidden)

\* Memory after kernel k.
With(k) == [memory EXCEPT ![k.to] = AfterKernel(k)]

LEMMA WithKernel ==
  ASSUME LayerTypeOK, NEW k, k.to \in Buffers
  PROVE  /\ With(k)[k.to] = AfterKernel(k)
         /\ \A b \in Buffers : b # k.to => With(k)[b] = memory[b]
BY DEF With, LayerTypeOK

\* Each step leaves what the mathematics says, if those before it did.
LEMMA StepComputes ==
  ASSUME LayerTypeOK, Supported, Defined, NEW n \in 1 .. ProgramLength, MemoryAfter(n - 1, memory)
  PROVE  MemoryAfter(n, With(Program[n]))
<1>1. CASE n = 1
  <2>1. PICK k : k = Program[n] /\ k = Kernel("norm", "x", "attn_norm", "norm", model.hidden, 0)
    BY <1>1, ProgramSteps
  <2>2. Held(memory["x"], Normalized("attn_norm"), position, model.hidden)
    BY <1>1 DEF MemoryAfter, Normalized
  <2>3. Held(AfterKernel(k), <<"norm", "attn_norm">>, position, model.hidden)
    BY BufferNames, <2>1, <2>2, Room, NormHeld
  <2>4. k.to = "norm"
    BY <2>1, KernelFields
  <2>5. With(k)["norm"] = AfterKernel(k) /\ \A b \in Buffers : b # "norm"
          => With(k)[b] = memory[b]
    BY BufferNames, <2>4, WithKernel
  <2>6. QED
    BY <1>1, BufferNames, <2>1, <2>3, <2>5 DEF MemoryAfter
<1>2. CASE n = 2
  <2>1. PICK k : k = Program[n] /\ k = Forward("attn_q", "norm", "q", model.hidden, QSize)
    BY <1>2, ProgramSteps
  <2>2. Held(memory["norm"], Operand("attn_q"), position, model.hidden)
    BY <1>2 DEF MemoryAfter, Operand
  <2>3. Held(AfterKernel(k), <<"product", "attn_q">>, position, QSize)
    BY BufferNames, <2>1, <2>2, Room, LayerFacts, ProductHeld DEF Features, Matrices
  <2>4. k.to = "q"
    BY <2>1, Targets
  <2>5. With(k)["q"] = AfterKernel(k) /\ \A b \in Buffers : b # "q" => With(k)[b] = memory[b]
    BY BufferNames, <2>4, WithKernel
  <2>6. QED
    BY <1>2, BufferNames, <2>1, <2>3, <2>5 DEF MemoryAfter
<1>3. CASE n = 3
  <2>1. PICK k : k = Program[n] /\ k = BiasIfPresent("attn_q", "q", QSize)
    BY <1>3, ProgramSteps
  <2>2. Held(memory["q"], <<"product", "attn_q">>, position, QSize)
    BY <1>3 DEF MemoryAfter
  <2>3. Held(AfterKernel(k), Projected("attn_q"), position, QSize)
    BY BufferNames, <2>1, <2>2, Room, BiasHeld DEF Matrices
  <2>4. k.to = "q"
    BY <2>1, Targets
  <2>5. With(k)["q"] = AfterKernel(k) /\ \A b \in Buffers : b # "q" => With(k)[b] = memory[b]
    BY BufferNames, <2>4, WithKernel
  <2>6. QED
    BY <1>3, BufferNames, <2>1, <2>3, <2>5 DEF MemoryAfter
<1>4. CASE n = 4
  <2>1. PICK k : k = Program[n] /\ k = Forward("attn_k", "norm", "k", model.hidden, KvSize)
    BY <1>4, ProgramSteps
  <2>2. Held(memory["norm"], Operand("attn_k"), position, model.hidden)
    BY <1>4 DEF MemoryAfter, Operand
  <2>3. Held(AfterKernel(k), <<"product", "attn_k">>, position, KvSize)
    BY BufferNames, <2>1, <2>2, Room, LayerFacts, ProductHeld DEF Features, Matrices
  <2>4. k.to = "k"
    BY <2>1, Targets
  <2>5. With(k)["k"] = AfterKernel(k) /\ \A b \in Buffers : b # "k" => With(k)[b] = memory[b]
    BY BufferNames, <2>4, WithKernel
  <2>6. QED
    BY <1>4, BufferNames, <2>1, <2>3, <2>5 DEF MemoryAfter
<1>5. CASE n = 5
  <2>1. PICK k : k = Program[n] /\ k = BiasIfPresent("attn_k", "k", KvSize)
    BY <1>5, ProgramSteps
  <2>2. Held(memory["k"], <<"product", "attn_k">>, position, KvSize)
    BY <1>5 DEF MemoryAfter
  <2>3. Held(AfterKernel(k), Projected("attn_k"), position, KvSize)
    BY BufferNames, <2>1, <2>2, Room, BiasHeld DEF Matrices
  <2>4. k.to = "k"
    BY <2>1, Targets
  <2>5. With(k)["k"] = AfterKernel(k) /\ \A b \in Buffers : b # "k" => With(k)[b] = memory[b]
    BY BufferNames, <2>4, WithKernel
  <2>6. QED
    BY <1>5, BufferNames, <2>1, <2>3, <2>5 DEF MemoryAfter
<1>6. CASE n = 6
  <2>1. PICK k : k = Program[n] /\ k = Forward("attn_v", "norm", "v", model.hidden, KvSize)
    BY <1>6, ProgramSteps
  <2>2. Held(memory["norm"], Operand("attn_v"), position, model.hidden)
    BY <1>6 DEF MemoryAfter, Operand
  <2>3. Held(AfterKernel(k), <<"product", "attn_v">>, position, KvSize)
    BY BufferNames, <2>1, <2>2, Room, LayerFacts, ProductHeld DEF Features, Matrices
  <2>4. k.to = "v"
    BY <2>1, Targets
  <2>5. With(k)["v"] = AfterKernel(k) /\ \A b \in Buffers : b # "v" => With(k)[b] = memory[b]
    BY BufferNames, <2>4, WithKernel
  <2>6. QED
    BY <1>6, BufferNames, <2>1, <2>3, <2>5 DEF MemoryAfter
<1>7. CASE n = 7
  <2>1. PICK k : k = Program[n] /\ k = BiasIfPresent("attn_v", "v", KvSize)
    BY <1>7, ProgramSteps
  <2>2. Held(memory["v"], <<"product", "attn_v">>, position, KvSize)
    BY <1>7 DEF MemoryAfter
  <2>3. Held(AfterKernel(k), Projected("attn_v"), position, KvSize)
    BY BufferNames, <2>1, <2>2, Room, BiasHeld DEF Matrices
  <2>4. k.to = "v"
    BY <2>1, Targets
  <2>5. With(k)["v"] = AfterKernel(k) /\ \A b \in Buffers : b # "v" => With(k)[b] = memory[b]
    BY BufferNames, <2>4, WithKernel
  <2>6. QED
    BY <1>7, BufferNames, <2>1, <2>3, <2>5 DEF MemoryAfter
<1>8. CASE n = 8
  <2>1. PICK k : k = Program[n] /\ k = NormHeads("attn_q", "q", model.heads)
    BY <1>8, ProgramSteps
  <2>2. Held(memory["q"], Projected("attn_q"), position, QSize)
    BY <1>8 DEF MemoryAfter
  <2>3. Held(AfterKernel(k), Normed("attn_q"), position, QSize)
    BY BufferNames, <2>1, <2>2, Room, LayerFacts, HeadsHeld DEF Heads
  <2>4. k.to = "q"
    BY <2>1, Targets
  <2>5. With(k)["q"] = AfterKernel(k) /\ \A b \in Buffers : b # "q" => With(k)[b] = memory[b]
    BY BufferNames, <2>4, WithKernel
  <2>6. QED
    BY <1>8, BufferNames, <2>1, <2>3, <2>5 DEF MemoryAfter, RotatedQ, RotatedK
<1>9. CASE n = 9
  <2>1. PICK k : k = Program[n] /\ k = NormHeads("attn_k", "k", model.kv)
    BY <1>9, ProgramSteps
  <2>2. Held(memory["k"], Projected("attn_k"), position, KvSize)
    BY <1>9 DEF MemoryAfter
  <2>3. Held(AfterKernel(k), Normed("attn_k"), position, KvSize)
    BY BufferNames, <2>1, <2>2, Room, LayerFacts, HeadsHeld DEF Heads
  <2>4. k.to = "k"
    BY <2>1, Targets
  <2>5. With(k)["k"] = AfterKernel(k) /\ \A b \in Buffers : b # "k" => With(k)[b] = memory[b]
    BY BufferNames, <2>4, WithKernel
  <2>6. QED
    BY <1>9, BufferNames, <2>1, <2>3, <2>5 DEF MemoryAfter, RotatedQ, RotatedK
<1>10. CASE n = 10
  <2>1. PICK k : k = Program[n]
          /\ k = Kernel("rotate", "q", "q", RotatedQ, model.dim, model.heads)
    BY <1>10, ProgramSteps
  <2>2. Held(memory["q"], Normed("attn_q"), position, QSize)
    BY <1>10 DEF MemoryAfter
  <2>3. Held(AfterKernel(k), <<"rotated", "attn_q">>, position, QSize)
    BY BufferNames, <2>1, <2>2, Room, LayerFacts, RotateHeld DEF Heads
  <2>4. k.to = RotatedQ
    BY <2>1, KernelFields
  <2>5. With(k)[RotatedQ] = AfterKernel(k) /\ \A b \in Buffers : b # RotatedQ
          => With(k)[b] = memory[b]
    BY BufferNames, <2>4, WithKernel, LayerFacts
  <2>6. QED
    BY <1>10, BufferNames, <2>1, <2>3, <2>5 DEF MemoryAfter, RotatedQ, RotatedK
<1>11. CASE n = 11
  <2>1. PICK k : k = Program[n] /\ k = Kernel("rotate", "k", "k", RotatedK, model.dim, model.kv)
    BY <1>11, ProgramSteps
  <2>2. Held(memory["k"], Normed("attn_k"), position, KvSize)
    BY <1>11 DEF MemoryAfter
  <2>3. Held(AfterKernel(k), <<"rotated", "attn_k">>, position, KvSize)
    BY BufferNames, <2>1, <2>2, Room, LayerFacts, RotateHeld DEF Heads
  <2>4. k.to = RotatedK
    BY <2>1, KernelFields
  <2>5. With(k)[RotatedK] = AfterKernel(k) /\ \A b \in Buffers : b # RotatedK
          => With(k)[b] = memory[b]
    BY BufferNames, <2>4, WithKernel, LayerFacts
  <2>6. QED
    BY <1>11, BufferNames, <2>1, <2>3, <2>5 DEF MemoryAfter, RotatedQ, RotatedK
<1>12. CASE n = 12
  <2>1. PICK k : k = Program[n] /\ k = Kernel("store", RotatedK, RotatedK, "kCache", KvSize, 0)
    BY <1>12, ProgramSteps
  <2>2. /\ Held(memory[RotatedK], <<"rotated", "attn_k">>, position, KvSize)
        /\ Rows(memory["kCache"], <<"rotated", "attn_k">>, position)
    BY <1>12 DEF MemoryAfter
  <2>3. Rows(AfterKernel(k), <<"rotated", "attn_k">>, position + 1)
    BY BufferNames, <2>1, <2>2, Room, LayerFacts, StoreHeld
  <2>4. k.to = "kCache"
    BY <2>1, KernelFields
  <2>5. With(k)["kCache"] = AfterKernel(k) /\ \A b \in Buffers : b # "kCache"
          => With(k)[b] = memory[b]
    BY BufferNames, <2>4, WithKernel
  <2>6. QED
    BY <1>12, BufferNames, <2>1, <2>3, <2>5 DEF MemoryAfter, RotatedQ, RotatedK
<1>13. CASE n = 13
  <2>1. PICK k : k = Program[n] /\ k = Kernel("store", "v", "v", "vCache", KvSize, 0)
    BY <1>13, ProgramSteps
  <2>2. /\ Held(memory["v"], Projected("attn_v"), position, KvSize)
        /\ Rows(memory["vCache"], Projected("attn_v"), position)
    BY <1>13 DEF MemoryAfter
  <2>3. Rows(AfterKernel(k), Projected("attn_v"), position + 1)
    BY BufferNames, <2>1, <2>2, Room, StoreHeld
  <2>4. k.to = "vCache"
    BY <2>1, KernelFields
  <2>5. With(k)["vCache"] = AfterKernel(k) /\ \A b \in Buffers : b # "vCache"
          => With(k)[b] = memory[b]
    BY BufferNames, <2>4, WithKernel
  <2>6. QED
    BY <1>13, BufferNames, <2>1, <2>3, <2>5 DEF MemoryAfter, RotatedQ, RotatedK
<1>14. CASE n = 14
  <2>1. PICK k : k = Program[n] /\ k = Kernel("scores", RotatedQ, "kCache", "scores", 0, 0)
    BY <1>14, ProgramSteps
  <2>2. /\ Held(memory[RotatedQ], <<"rotated", "attn_q">>, position, QSize)
        /\ Rows(memory["kCache"], <<"rotated", "attn_k">>, position + 1)
    BY <1>14 DEF MemoryAfter
  <2>3. Scored(AfterKernel(k), position)
    BY BufferNames, <2>1, <2>2, LayerFacts, ScoresHeld
  <2>4. k.to = "scores"
    BY <2>1, KernelFields
  <2>5. With(k)["scores"] = AfterKernel(k) /\ \A b \in Buffers : b # "scores"
          => With(k)[b] = memory[b]
    BY BufferNames, <2>4, WithKernel
  <2>6. QED
    BY <1>14, BufferNames, <2>1, <2>3, <2>5 DEF MemoryAfter, RotatedQ, RotatedK
<1>15. CASE n = 15
  <2>1. PICK k : k = Program[n] /\ k = Kernel("weigh", "scores", "vCache", "attention", 0, 0)
    BY <1>15, ProgramSteps
  <2>2. /\ Scored(memory["scores"], position)
        /\ Rows(memory["vCache"], Projected("attn_v"), position + 1)
    BY <1>15 DEF MemoryAfter
  <2>3. Held(AfterKernel(k), <<"attended", "heads">>, position, QSize)
    BY BufferNames, <2>1, <2>2, WeighHeld
  <2>4. k.to = "attention"
    BY <2>1, KernelFields
  <2>5. With(k)["attention"] = AfterKernel(k) /\ \A b \in Buffers : b # "attention"
          => With(k)[b] = memory[b]
    BY BufferNames, <2>4, WithKernel
  <2>6. QED
    BY <1>15, BufferNames, <2>1, <2>3, <2>5 DEF MemoryAfter
<1>16. CASE n = 16
  <2>1. PICK k : k = Program[n]
          /\ k = Forward("attn_output", "attention", "projection", QSize, model.hidden)
    BY <1>16, ProgramSteps
  <2>2. Held(memory["attention"], Operand("attn_output"), position, QSize)
    BY <1>16 DEF MemoryAfter, Operand
  <2>3. Held(AfterKernel(k), <<"product", "attn_output">>, position, model.hidden)
    BY BufferNames, <2>1, <2>2, Room, LayerFacts, ProductHeld DEF Features, Matrices
  <2>4. k.to = "projection"
    BY <2>1, Targets
  <2>5. With(k)["projection"] = AfterKernel(k) /\ \A b \in Buffers : b # "projection"
          => With(k)[b] = memory[b]
    BY BufferNames, <2>4, WithKernel
  <2>6. QED
    BY <1>16, BufferNames, <2>1, <2>3, <2>5 DEF MemoryAfter
<1>17. CASE n = 17
  <2>1. PICK k : k = Program[n] /\ k = BiasIfPresent("attn_output", "projection", model.hidden)
    BY <1>17, ProgramSteps
  <2>2. Held(memory["projection"], <<"product", "attn_output">>, position, model.hidden)
    BY <1>17 DEF MemoryAfter
  <2>3. Held(AfterKernel(k), Projected("attn_output"), position, model.hidden)
    BY BufferNames, <2>1, <2>2, Room, BiasHeld DEF Matrices
  <2>4. k.to = "projection"
    BY <2>1, Targets
  <2>5. With(k)["projection"] = AfterKernel(k) /\ \A b \in Buffers : b # "projection"
          => With(k)[b] = memory[b]
    BY BufferNames, <2>4, WithKernel
  <2>6. QED
    BY <1>17, BufferNames, <2>1, <2>3, <2>5 DEF MemoryAfter
<1>18. CASE n = 18
  <2>1. PICK k : k = Program[n] /\ k = Kernel("add", "x", "projection", "x", model.hidden, 0)
    BY <1>18, ProgramSteps
  <2>2. /\ Held(memory["x"], Residual("attn_output"), position, model.hidden)
        /\ Held(memory["projection"], Projected("attn_output"), position, model.hidden)
    BY <1>18 DEF MemoryAfter, Residual
  <2>3. Held(AfterKernel(k), <<"sum", "attn_output">>, position, model.hidden)
    BY BufferNames, <2>1, <2>2, Room, AddHeld
  <2>4. k.to = "x"
    BY <2>1, KernelFields
  <2>5. With(k)["x"] = AfterKernel(k) /\ \A b \in Buffers : b # "x" => With(k)[b] = memory[b]
    BY BufferNames, <2>4, WithKernel
  <2>6. QED
    BY <1>18, BufferNames, <2>1, <2>3, <2>5 DEF MemoryAfter, AfterAttention, Output
<1>19. CASE n = 19
  <2>1. PICK k : k = Program[n] /\ k = Kernel("norm", "x", "ffn_norm", "norm", model.hidden, 0)
    BY <1>19, ProgramSteps
  <2>2. Held(memory["x"], Normalized("ffn_norm"), position, model.hidden)
    BY <1>19 DEF MemoryAfter, Normalized
  <2>3. Held(AfterKernel(k), <<"norm", "ffn_norm">>, position, model.hidden)
    BY BufferNames, <2>1, <2>2, Room, NormHeld
  <2>4. k.to = "norm"
    BY <2>1, KernelFields
  <2>5. With(k)["norm"] = AfterKernel(k) /\ \A b \in Buffers : b # "norm"
          => With(k)[b] = memory[b]
    BY BufferNames, <2>4, WithKernel
  <2>6. QED
    BY <1>19, BufferNames, <2>1, <2>3, <2>5 DEF MemoryAfter
<1>20. CASE n = 20
  <2>1. PICK k : k = Program[n] /\ k = Forward("ffn_gate", "norm", "gate", model.hidden, model.ff)
    BY <1>20, ProgramSteps
  <2>2. Held(memory["norm"], Operand("ffn_gate"), position, model.hidden)
    BY <1>20 DEF MemoryAfter, Operand
  <2>3. Held(AfterKernel(k), <<"product", "ffn_gate">>, position, model.ff)
    BY BufferNames, <2>1, <2>2, Room, LayerFacts, ProductHeld DEF Features, Matrices
  <2>4. k.to = "gate"
    BY <2>1, Targets
  <2>5. With(k)["gate"] = AfterKernel(k) /\ \A b \in Buffers : b # "gate"
          => With(k)[b] = memory[b]
    BY BufferNames, <2>4, WithKernel
  <2>6. QED
    BY <1>20, BufferNames, <2>1, <2>3, <2>5 DEF MemoryAfter
<1>21. CASE n = 21
  <2>1. PICK k : k = Program[n] /\ k = BiasIfPresent("ffn_gate", "gate", model.ff)
    BY <1>21, ProgramSteps
  <2>2. Held(memory["gate"], <<"product", "ffn_gate">>, position, model.ff)
    BY <1>21 DEF MemoryAfter
  <2>3. Held(AfterKernel(k), Projected("ffn_gate"), position, model.ff)
    BY BufferNames, <2>1, <2>2, Room, BiasHeld DEF Matrices
  <2>4. k.to = "gate"
    BY <2>1, Targets
  <2>5. With(k)["gate"] = AfterKernel(k) /\ \A b \in Buffers : b # "gate"
          => With(k)[b] = memory[b]
    BY BufferNames, <2>4, WithKernel
  <2>6. QED
    BY <1>21, BufferNames, <2>1, <2>3, <2>5 DEF MemoryAfter
<1>22. CASE n = 22
  <2>1. PICK k : k = Program[n] /\ k = Forward("ffn_up", "norm", "up", model.hidden, model.ff)
    BY <1>22, ProgramSteps
  <2>2. Held(memory["norm"], Operand("ffn_up"), position, model.hidden)
    BY <1>22 DEF MemoryAfter, Operand
  <2>3. Held(AfterKernel(k), <<"product", "ffn_up">>, position, model.ff)
    BY BufferNames, <2>1, <2>2, Room, LayerFacts, ProductHeld DEF Features, Matrices
  <2>4. k.to = "up"
    BY <2>1, Targets
  <2>5. With(k)["up"] = AfterKernel(k) /\ \A b \in Buffers : b # "up" => With(k)[b] = memory[b]
    BY BufferNames, <2>4, WithKernel
  <2>6. QED
    BY <1>22, BufferNames, <2>1, <2>3, <2>5 DEF MemoryAfter
<1>23. CASE n = 23
  <2>1. PICK k : k = Program[n] /\ k = BiasIfPresent("ffn_up", "up", model.ff)
    BY <1>23, ProgramSteps
  <2>2. Held(memory["up"], <<"product", "ffn_up">>, position, model.ff)
    BY <1>23 DEF MemoryAfter
  <2>3. Held(AfterKernel(k), Projected("ffn_up"), position, model.ff)
    BY BufferNames, <2>1, <2>2, Room, BiasHeld DEF Matrices
  <2>4. k.to = "up"
    BY <2>1, Targets
  <2>5. With(k)["up"] = AfterKernel(k) /\ \A b \in Buffers : b # "up" => With(k)[b] = memory[b]
    BY BufferNames, <2>4, WithKernel
  <2>6. QED
    BY <1>23, BufferNames, <2>1, <2>3, <2>5 DEF MemoryAfter
<1>24. CASE n = 24
  <2>1. PICK k : k = Program[n] /\ k = Kernel("swiglu", "gate", "up", "activation", model.ff, 0)
    BY <1>24, ProgramSteps
  <2>2. /\ Held(memory["gate"], Projected("ffn_gate"), position, model.ff)
        /\ Held(memory["up"], Projected("ffn_up"), position, model.ff)
    BY <1>24 DEF MemoryAfter
  <2>3. Held(AfterKernel(k), <<"activation", "gate">>, position, model.ff)
    BY BufferNames, <2>1, <2>2, SwigluHeld
  <2>4. k.to = "activation"
    BY <2>1, KernelFields
  <2>5. With(k)["activation"] = AfterKernel(k) /\ \A b \in Buffers : b # "activation"
          => With(k)[b] = memory[b]
    BY BufferNames, <2>4, WithKernel
  <2>6. QED
    BY <1>24, BufferNames, <2>1, <2>3, <2>5 DEF MemoryAfter
<1>25. CASE n = 25
  <2>1. PICK k : k = Program[n]
          /\ k = Forward("ffn_down", "activation", "ffnOutput", model.ff, model.hidden)
    BY <1>25, ProgramSteps
  <2>2. Held(memory["activation"], Operand("ffn_down"), position, model.ff)
    BY <1>25 DEF MemoryAfter, Operand
  <2>3. Held(AfterKernel(k), <<"product", "ffn_down">>, position, model.hidden)
    BY BufferNames, <2>1, <2>2, Room, LayerFacts, ProductHeld DEF Features, Matrices
  <2>4. k.to = "ffnOutput"
    BY <2>1, Targets
  <2>5. With(k)["ffnOutput"] = AfterKernel(k) /\ \A b \in Buffers : b # "ffnOutput"
          => With(k)[b] = memory[b]
    BY BufferNames, <2>4, WithKernel
  <2>6. QED
    BY <1>25, BufferNames, <2>1, <2>3, <2>5 DEF MemoryAfter
<1>26. CASE n = 26
  <2>1. PICK k : k = Program[n] /\ k = BiasIfPresent("ffn_down", "ffnOutput", model.hidden)
    BY <1>26, ProgramSteps
  <2>2. Held(memory["ffnOutput"], <<"product", "ffn_down">>, position, model.hidden)
    BY <1>26 DEF MemoryAfter
  <2>3. Held(AfterKernel(k), Projected("ffn_down"), position, model.hidden)
    BY BufferNames, <2>1, <2>2, Room, BiasHeld DEF Matrices
  <2>4. k.to = "ffnOutput"
    BY <2>1, Targets
  <2>5. With(k)["ffnOutput"] = AfterKernel(k) /\ \A b \in Buffers : b # "ffnOutput"
          => With(k)[b] = memory[b]
    BY BufferNames, <2>4, WithKernel
  <2>6. QED
    BY <1>26, BufferNames, <2>1, <2>3, <2>5 DEF MemoryAfter
<1>27. CASE n = 27
  <2>1. PICK k : k = Program[n] /\ k = Kernel("add", "x", "ffnOutput", "x", model.hidden, 0)
    BY <1>27, ProgramSteps
  <2>2. /\ Held(memory["x"], Residual("ffn_down"), position, model.hidden)
        /\ Held(memory["ffnOutput"], Projected("ffn_down"), position, model.hidden)
    BY <1>27 DEF MemoryAfter, Residual
  <2>3. Held(AfterKernel(k), <<"sum", "ffn_down">>, position, model.hidden)
    BY BufferNames, <2>1, <2>2, Room, AddHeld
  <2>4. k.to = "x"
    BY <2>1, KernelFields
  <2>5. With(k)["x"] = AfterKernel(k) /\ \A b \in Buffers : b # "x" => With(k)[b] = memory[b]
    BY BufferNames, <2>4, WithKernel
  <2>6. QED
    BY <1>27, BufferNames, <2>1, <2>3, <2>5 DEF MemoryAfter, AfterAttention, Output
<1>28. QED
  BY <1>1, <1>2, <1>3, <1>4, <1>5, <1>6, <1>7, <1>8, <1>9, <1>10, <1>11, <1>12, <1>13, <1>14,
     <1>15, <1>16, <1>17, <1>18, <1>19, <1>20, <1>21, <1>22, <1>23, <1>24, <1>25, <1>26,
         <1>27 DEF ProgramLength

-----------------------------------------------------------------------------
(* The invariant. *)

\* The rows of both caches for the tokens before n.
Cached(mem, n) ==
  Rows(mem["kCache"], <<"rotated", "attn_k">>, n) /\ Rows(mem["vCache"], Projected("attn_v"), n)

LayerInv ==
  /\ LayerTypeOK
  /\ phase \in {"running", "computed"} => Supported
  /\ phase = "computed" => at = ProgramLength
  /\ phase \in {"running", "computed"} /\ Defined => MemoryAfter(at, memory)
  /\ phase = "ready" /\ Defined => Cached(memory, position)
  /\ ~strayed

LEMMA ProgramTargets ==
  ASSUME NEW n \in 1 .. ProgramLength
  PROVE  Program[n].to \in Buffers
<1>1. Program[2].to = "q" /\ Program[4].to = "k" /\ Program[6].to = "v"
  BY DEF Program, Kernel, Forward, BiasIfPresent, NormHeads, When
<1>2. Program[16].to = "projection" /\ Program[20].to = "gate"
  BY DEF Program, Kernel, Forward, BiasIfPresent, NormHeads, When
<1>3. Program[22].to = "up" /\ Program[25].to = "ffnOutput"
  BY DEF Program, Kernel, Forward, BiasIfPresent, NormHeads, When
<1>4. Program[3].to = "q" /\ Program[5].to = "k" /\ Program[7].to = "v"
  BY DEF Program, Kernel, Forward, BiasIfPresent, NormHeads, When
<1>5. Program[17].to = "projection" /\ Program[21].to = "gate"
  BY DEF Program, Kernel, Forward, BiasIfPresent, NormHeads, When
<1>6. Program[23].to = "up" /\ Program[26].to = "ffnOutput"
  BY DEF Program, Kernel, Forward, BiasIfPresent, NormHeads, When
<1>7. Program[8].to = "q" /\ Program[9].to = "k"
  BY DEF Program, Kernel, Forward, BiasIfPresent, NormHeads, When
<1>8. Program[1].to = "norm" /\ Program[10].to = RotatedQ /\ Program[11].to = RotatedK
  BY DEF Program, Kernel, Forward, BiasIfPresent, NormHeads, When
<1>9. Program[12].to = "kCache" /\ Program[13].to = "vCache"
  BY DEF Program, Kernel, Forward, BiasIfPresent, NormHeads, When
<1>10. Program[14].to = "scores" /\ Program[15].to = "attention"
  BY DEF Program, Kernel, Forward, BiasIfPresent, NormHeads, When
<1>11. Program[18].to = "x" /\ Program[19].to = "norm"
  BY DEF Program, Kernel, Forward, BiasIfPresent, NormHeads, When
<1>12. Program[24].to = "activation" /\ Program[27].to = "x"
  BY DEF Program, Kernel, Forward, BiasIfPresent, NormHeads, When
<1>13. QED
  BY <1>1, <1>2, <1>3, <1>4, <1>5, <1>6, <1>7, <1>8, <1>9, <1>10, <1>11, <1>12 DEF ProgramLength,
     Buffers, RotatedQ, RotatedK

\* What the vectors are depends on the model, the backend and the token only.
LEMMA SameLayer ==
  ASSUME UNCHANGED <<backend, model>>
  PROVE  /\ Size' = Size /\ Supported' = Supported /\ Defined' = Defined
         /\ QSize' = QSize /\ KvSize' = KvSize
         /\ RotatedQ' = RotatedQ /\ RotatedK' = RotatedK
         /\ \A w : Projected(w)' = Projected(w) /\ Normed(w)' = Normed(w)
         /\ \A mem, n : Cached(mem, n)' = Cached(mem, n)
<1>1. QSize' = QSize /\ KvSize' = KvSize
  BY DEF QSize, KvSize
<1>2. Size' = Size
  BY DEF Size, QSize, KvSize
<1>3. Supported' = Supported /\ Defined' = Defined
  BY DEF Supported, Defined, Offloadable, Acceptable
<1>4. RotatedQ' = RotatedQ /\ RotatedK' = RotatedK
  BY DEF RotatedQ, RotatedK
<1>5. \A w : Projected(w)' = Projected(w) /\ Normed(w)' = Normed(w)
  BY DEF Projected, Normed
<1>6. \A mem, n : Cached(mem, n)' = Cached(mem, n)
  BY <1>1, <1>5 DEF Cached, Rows
<1>7. QED
  BY <1>1, <1>2, <1>3, <1>4, <1>5, <1>6

LEMMA SameToken ==
  ASSUME UNCHANGED <<backend, model, position>>, NEW n, NEW mem, MemoryAfter(n, mem)
  PROVE  MemoryAfter(n, mem)'
BY SameLayer DEF MemoryAfter, Held, Rows, Scored, AfterAttention, Output, Input

LEMMA LayerInvInit ==
  ASSUME LayerInit
  PROVE  LayerInv
<1>1. LayerTypeOK
  <2>1. backend \in {"pc", "phone"} /\ model \in Models /\ phase = "ready" /\ position = 0
          /\ at = 0
        /\ strayed = FALSE
            /\ memory = [b \in DOMAIN Size |-> [i \in 0 .. Size[b] - 1 |-> Garbage]]
    BY DEF LayerInit
  <2>2. DOMAIN Size = Buffers
    BY <2>1, SizeFacts
  <2>3. DOMAIN memory = Buffers /\ \A b \in Buffers : DOMAIN memory[b] = 0 .. Size[b] - 1
    BY <2>1, <2>2
  <2>4. position \in 0 .. MaxContext - 1 /\ at \in 0 .. Len(Program)
    BY <2>1, ProgramSteps, LayerMathAssumption DEF ProgramLength
  <2>5. QED
    BY <2>1, <2>3, <2>4 DEF LayerTypeOK
<1>2. phase = "ready" /\ position = 0 /\ ~strayed
  BY DEF LayerInit
<1>3. Cached(memory, position)
  BY <1>2 DEF Cached, Rows
<1>4. QED
  BY <1>1, <1>2, <1>3 DEF LayerInv

\* Types after a step that leaves the memory alone.
LEMMA TypeOfSame ==
  ASSUME LayerTypeOK, UNCHANGED <<backend, model, memory>>,
         phase' \in {"ready", "running", "computed", "refused"},
         position' \in 0 .. MaxContext - 1, at' \in 0 .. ProgramLength, strayed' \in BOOLEAN
  PROVE  LayerTypeOK'
<1>1. Size' = Size
  BY SameLayer
<1>2. (Len(Program) = ProgramLength)'
  BY ProgramSteps, PTL
<1>3. QED
  BY <1>1, <1>2 DEF LayerTypeOK, ProgramLength

LEMMA RefuseKeeps ==
  ASSUME LayerInv, Refuse
  PROVE  LayerInv'
<1>1. LayerTypeOK /\ ~strayed /\ phase' = "refused"
        /\ UNCHANGED <<backend, model, position, at, memory, strayed>>
  BY DEF LayerInv, Refuse
<1>2. LayerTypeOK'
  BY <1>1, TypeOfSame, ProgramSteps DEF LayerTypeOK
<1>3. QED
  BY <1>1, <1>2 DEF LayerInv

LEMMA StartKeeps ==
  ASSUME LayerInv, Start
  PROVE  LayerInv'
<1>1. /\ LayerTypeOK /\ ~strayed /\ phase = "ready" /\ Supported /\ (Defined
        => Cached(memory, position))
      /\ phase' = "running" /\ at' = 0 /\ UNCHANGED <<backend, model, position, strayed>>
      /\ memory' = [memory EXCEPT !["x"] = Part(Input, position, 0, model.hidden)]
  BY DEF LayerInv, Start, Supported
<1>2. "x" \in Buffers /\ "kCache" \in Buffers /\ "vCache" \in Buffers
  BY DEF Buffers
<1>3. /\ DOMAIN memory' = Buffers
      /\ memory'["x"] = Part(Input, position, 0, model.hidden)
      /\ \A b \in Buffers : b # "x" => memory'[b] = memory[b]
  BY <1>1, <1>2 DEF LayerTypeOK
<1>4. LayerTypeOK'
  <2>1. Size' = Size /\ Size["x"] = model.hidden
    BY <1>1, SameLayer, SizeFacts DEF LayerTypeOK
  <2>2. DOMAIN memory'["x"] = 0 .. Size["x"] - 1
    BY <1>3, <2>1 DEF Part
  <2>3. \A b \in Buffers : DOMAIN memory'[b] = 0 .. Size'[b] - 1
    BY <1>1, <1>3, <2>1, <2>2 DEF LayerTypeOK
  <2>4. (Len(Program) = ProgramLength)'
    BY ProgramSteps, PTL
  <2>5. QED
    BY <1>1, <1>3, <2>3, <2>4 DEF LayerTypeOK, ProgramLength
<1>5. ASSUME Defined PROVE MemoryAfter(at, memory)'
  <2>1. PICK mem : mem = memory'
    OBVIOUS
  <2>2. Held(memory'["x"], Input, position, model.hidden)
    <3>1. \A i \in 0 .. model.hidden - 1 : memory'["x"][i] = <<Input, position, 0 + i>>
            /\ 0 + i = i
      BY <1>3 DEF Part
    <3>2. QED
      BY <3>1 DEF Held
  <2>3. Rows(memory'["kCache"], <<"rotated", "attn_k">>, position)
        /\ Rows(memory'["vCache"], Projected("attn_v"), position)
    BY <1>1, <1>2, <1>3, <1>5 DEF Cached
  <2>4. MemoryAfter(0, mem)
    BY <2>1, <2>2, <2>3 DEF MemoryAfter
  <2>5. MemoryAfter(0, mem)'
    BY <1>1, <2>4, SameToken
  <2>6. QED
    BY <1>1, <2>1, <2>5
<1>6. Supported' /\ Defined' = Defined
  BY <1>1, SameLayer
<1>7. QED
  BY <1>1, <1>4, <1>5, <1>6 DEF LayerInv

LEMMA RunKeeps ==
  ASSUME LayerInv, Run
  PROVE  LayerInv'
<1>1. /\ LayerTypeOK /\ ~strayed /\ phase = "running" /\ Supported /\ (Defined
        => MemoryAfter(at, memory))
      /\ phase' = "running" /\ UNCHANGED <<backend, model, phase, position>>
  BY DEF LayerInv, Run
<1>2. PICK n \in 1 .. ProgramLength : n = at + 1 /\ at = n - 1
  BY <1>1, ProgramSteps DEF Run, LayerTypeOK, ProgramLength
<1>3. PICK k : k = Program[n] /\ k.to \in Buffers
  BY ProgramTargets
<1>4. at' = n /\ memory' = With(k) /\ strayed' = (strayed \/ Strays(k))
  BY <1>2, <1>3 DEF Run, With, Strays
<1>5. LayerTypeOK'
  <2>1. Size' = Size
    BY <1>1, SameLayer
  <2>2. DOMAIN memory' = Buffers
    BY <1>1, <1>4 DEF With, LayerTypeOK
  <2>3. DOMAIN AfterKernel(k) = DOMAIN memory[k.to]
    BY DEF AfterKernel
  <2>4. \A b \in Buffers : DOMAIN memory'[b] = 0 .. Size'[b] - 1
    BY <1>1, <1>3, <1>4, <2>1, <2>3, WithKernel DEF LayerTypeOK
  <2>5. (Len(Program) = ProgramLength)'
    BY ProgramSteps, PTL
  <2>6. strayed' \in BOOLEAN
    BY <1>1, <1>4 DEF Strays
  <2>7. QED
    BY <1>1, <1>4, <2>2, <2>4, <2>5, <2>6 DEF LayerTypeOK
<1>6. ~strayed'
  BY <1>1, <1>3, <1>4, ProgramStays
<1>7. ASSUME Defined PROVE MemoryAfter(at, memory)'
  <2>1. PICK mem : mem = memory'
    OBVIOUS
  <2>2. MemoryAfter(n, mem)
    BY <1>1, <1>2, <1>3, <1>4, <1>7, <2>1, StepComputes
  <2>3. MemoryAfter(n, mem)'
    BY <1>1, <2>2, SameToken
  <2>4. QED
    BY <1>4, <2>1, <2>3
<1>8. Supported' /\ Defined' = Defined
  BY <1>1, SameLayer
<1>9. QED
  BY <1>1, <1>5, <1>6, <1>7, <1>8 DEF LayerInv

LEMMA FinishKeeps ==
  ASSUME LayerInv, Finish
  PROVE  LayerInv'
<1>1. /\ LayerTypeOK /\ ~strayed /\ phase = "running" /\ Supported /\ (Defined
        => MemoryAfter(at, memory))
      /\ phase' = "computed" /\ at = ProgramLength
          /\ UNCHANGED <<backend, model, position, at, memory, strayed>>
  BY ProgramSteps DEF LayerInv, Finish
<1>2. LayerTypeOK'
  BY <1>1, TypeOfSame, ProgramSteps DEF LayerTypeOK
<1>3. Supported' /\ Defined' = Defined
  BY <1>1, SameLayer
<1>4. ASSUME Defined PROVE MemoryAfter(at, memory)'
  BY <1>1, <1>4, SameToken
<1>5. QED
  BY <1>1, <1>2, <1>3, <1>4 DEF LayerInv

LEMMA NextTokenKeeps ==
  ASSUME LayerInv, NextToken
  PROVE  LayerInv'
<1>1. /\ LayerTypeOK /\ ~strayed /\ phase = "computed" /\ at = ProgramLength /\ (Defined
        => MemoryAfter(ProgramLength, memory))
      /\ phase' = "ready" /\ at' = 0 /\ position' = position + 1 /\ position + 1 < MaxContext
      /\ UNCHANGED <<backend, model, memory, strayed>>
  BY DEF LayerInv, NextToken
<1>2. LayerTypeOK'
  <2>1. position' \in 0 .. MaxContext - 1 /\ at' \in 0 .. ProgramLength
    BY <1>1, LayerMathAssumption DEF LayerTypeOK, ProgramLength
  <2>2. QED
    BY <1>1, <2>1, TypeOfSame DEF LayerTypeOK
<1>3. Defined' = Defined
  BY <1>1, SameLayer
<1>4. ASSUME Defined PROVE Cached(memory, position)'
  <2>1. Cached(memory, position + 1)
    BY <1>1, <1>4 DEF MemoryAfter, Cached, ProgramLength
  <2>2. \A mem, n : Cached(mem, n)' = Cached(mem, n)
    BY <1>1, SameLayer
  <2>3. QED
    BY <1>1, <2>1, <2>2
<1>5. QED
  BY <1>1, <1>2, <1>3, <1>4 DEF LayerInv

LEMMA LayerInvariant == LayerSpec => []LayerInv
<1>1. LayerInit => LayerInv
  BY LayerInvInit
<1>2. LayerInv /\ [LayerNext]_layerVars => LayerInv'
  <2> SUFFICES ASSUME LayerInv, [LayerNext]_layerVars PROVE LayerInv'
    OBVIOUS
  <2>1. CASE LayerNext
    BY <2>1, RefuseKeeps, StartKeeps, RunKeeps, FinishKeeps, NextTokenKeeps DEF LayerNext
  <2>2. CASE UNCHANGED layerVars
    <3>1. UNCHANGED <<backend, model, phase, position, at, memory, strayed>>
      BY <2>2 DEF layerVars
    <3>2. LayerTypeOK'
      BY <3>1, TypeOfSame, ProgramSteps DEF LayerInv, LayerTypeOK
    <3>3. Supported' = Supported /\ Defined' = Defined
            /\ \A mem, n : Cached(mem, n)' = Cached(mem, n)
      BY <3>1, SameLayer
    <3>4. ASSUME MemoryAfter(at, memory) PROVE MemoryAfter(at, memory)'
      BY <3>1, <3>4, SameToken
    <3>5. QED
      BY <3>1, <3>2, <3>3, <3>4 DEF LayerInv
  <2>3. QED
    BY <2>1, <2>2
<1>3. QED
  BY <1>1, <1>2, PTL DEF LayerSpec

\* Buffers keep the elements they were allocated with, and the token at hand
\* stays within the context.
THEOREM LayerTypeCorrect == LayerSpec => []LayerTypeOK
<1>1. LayerInv => LayerTypeOK
  BY DEF LayerInv
<1>2. QED
  BY <1>1, LayerInvariant, PTL

\* No kernel writes outside of its buffer: for all models and sizes of groups,
\* and on the PC for odd heads too.
THEOREM KernelsStayInside == LayerSpec => []NothingStrays
<1>1. LayerInv => NothingStrays
  BY DEF LayerInv, NothingStrays
<1>2. QED
  BY <1>1, LayerInvariant, PTL

\* A layer computes what the mathematics says on either backend, for all models,
\* contexts and sizes of groups, token after token.
THEOREM LayersComputeAsDefined == LayerSpec => []AsDefined
<1>1. LayerInv => AsDefined
  <2> SUFFICES ASSUME LayerInv, phase = "computed", Defined
               PROVE  /\ \A i \in DOMAIN memory.x : memory.x[i] = <<Output, position, i>>
                      /\ \A t \in 0 .. position, i \in 0 .. KvSize - 1 :
                           /\ memory.kCache[t * KvSize + i] = <<<<"rotated", "attn_k">>, t, i>>
                           /\ memory.vCache[t * KvSize + i] = <<Projected("attn_v"), t, i>>
    BY DEF AsDefined
  <2>1. LayerTypeOK /\ MemoryAfter(ProgramLength, memory)
    BY DEF LayerInv
  <2>2. /\ Held(memory["x"], Output, position, model.hidden)
        /\ Rows(memory["kCache"], <<"rotated", "attn_k">>, position + 1)
        /\ Rows(memory["vCache"], Projected("attn_v"), position + 1)
    BY <2>1 DEF MemoryAfter, ProgramLength
  <2>3. DOMAIN memory["x"] = 0 .. model.hidden - 1
    BY <2>1, SizeFacts DEF LayerTypeOK, Buffers
  <2>4. \A t \in 0 .. position : t \in 0 .. (position + 1) - 1
    BY <2>1 DEF LayerTypeOK
  <2>5. QED
    BY <2>2, <2>3, <2>4 DEF Held, Rows
<1>2. QED
  BY <1>1, LayerInvariant, PTL

================================================================================
