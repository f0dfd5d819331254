---------------------------- MODULE RequestProofs ----------------------------
(***************************************************************************)
(* What holds of a request inside its frame and on the phone, for every    *)
(* value of the constants.  First LayerRuntime: the memory, the caches and *)
(* the counters of a layer range being carried out.  Then Payloads: the    *)
(* encodings and decodings of both programs, with the induction over the   *)
(* elements of a sequence that their hash and their products need.         *)
(***************************************************************************)
EXTENDS TLAPS, SequenceTheorems, WellFoundedInduction, LayerRuntime, Payloads

-----------------------------------------------------------------------------
(* LayerRuntime: products of natural numbers. *)

\* A product grows with its first factor.
LEMMA ProductMonotone ==
  ASSUME NEW a \in Nat, NEW b \in Nat, NEW c \in Nat, a <= b
  PROVE  a * c <= b * c
  OBVIOUS

\* One layer more costs its sets once more.
LEMMA ProductStep ==
  ASSUME NEW a \in Nat, NEW b \in Nat, NEW c \in Nat
  PROVE  (a + 1 - b) * c = (a - b) * c + c
  OBVIOUS

\* A product of natural numbers is one.
LEMMA ProductNat ==
  ASSUME NEW a \in Nat, NEW b \in Nat
  PROVE  a * b \in Nat
  OBVIOUS

\* A multiple of a positive number that is positive is at least that number.
LEMMA DivisorSmaller ==
  ASSUME NEW a \in Nat, NEW b \in Nat, a > 0, b > 0, a % b = 0
  PROVE  b <= a
  OBVIOUS

-----------------------------------------------------------------------------
(* LayerRuntime: what is known at each stage of a request, as one invariant. *)

\* The layer being recorded is one of the request, a valid one; before
\* recording it is the first.
AtInv ==
  stage # "idle" =>
    /\ Valid(req)
    /\ at \in req.first .. req.last
    /\ stage \in {"work", "pools"} => at = req.first

\* Past ensure_execution_runtime the work buffers are large enough.
WorkReady ==
  stage \in {"pools", "layers", "submit"} =>
    \A b \in WorkBuffers : Work(req)[b] <= capacity[b]

\* Without failing cache allocations, what a layer remembers of its caches is
\* true, and those of the recorded layers are large enough.
KnownFits ==
  "cache" \notin mayFail =>
    \A l \in Layers :
      /\ known[l].context * (known[l].kv * 2) <= kCache[l]
      /\ known[l].context * (known[l].kv * 2) <= vCache[l]
CachesGrown ==
  "cache" \notin mayFail =>
    \A l \in Recorded : CacheBytes(req) <= kCache[l] /\ CacheBytes(req) <= vCache[l]

\* Without failing command objects, the command pool stands for all of them.
ObjectsInv ==
  "command_objects" \notin mayFail =>
    /\ "command_pool" \in made => made = Objects
    /\ stage \in {"layers", "submit"} => made = Objects

\* While layers are recorded, the sets taken are those of the layers so far.
SetsCounted == stage = "layers" => sets = (at - req.first) * SetsPerLayer

IInv == TypeOK /\ AtInv /\ WorkReady /\ KnownFits /\ CachesGrown /\ ObjectsInv /\ SetsCounted

-----------------------------------------------------------------------------
(* Sizes. *)

\* The fields of a request, and the dimensions of its model.
LEMMA RequestFields ==
  ASSUME NEW r \in Requests
  PROVE  /\ r.model \in Models /\ r.context \in Nat /\ r.position \in Nat
         /\ r.first \in Layers /\ r.last \in Layers
         /\ Dims[r.model].hidden \in Nat /\ Dims[r.model].ffn \in Nat
         /\ Dims[r.model].heads \in Nat /\ Dims[r.model].kvHeads \in Nat
         /\ Dims[r.model].headDim \in Nat
<1>2. /\ r.model \in Models /\ r.context \in Contexts /\ r.position \in Nat
      /\ r.first \in Layers /\ r.last \in Layers
  BY RequestAssumption
<1>3. r.context \in Nat
  BY <1>2, RuntimeAssumption
<1>4. Dims[r.model] \in [hidden : Nat, ffn : Nat, heads : Nat, kvHeads : Nat, headDim : Nat]
  BY <1>2, DimsAssumption
<1> QED BY <1>2, <1>3, <1>4

\* The sizes are natural numbers.
LEMMA SizesAreNat ==
  ASSUME NEW r \in Requests
  PROVE  /\ KvElements(r.model) \in Nat
         /\ HiddenBytes(r) \in Nat /\ QBytes(r) \in Nat /\ KvBytes(r) \in Nat
         /\ FfnBytes(r) \in Nat /\ CacheBytes(r) \in Nat /\ ScoreBytes(r) \in Nat
<1>1. /\ r.model \in Models /\ r.context \in Nat
      /\ Dims[r.model].hidden \in Nat /\ Dims[r.model].ffn \in Nat
      /\ Dims[r.model].heads \in Nat /\ Dims[r.model].kvHeads \in Nat
      /\ Dims[r.model].headDim \in Nat
  BY RequestFields
<1>2. KvElements(r.model) \in Nat
  BY <1>1, ProductNat DEF KvElements
<1>3. KvBytes(r) \in Nat
  BY <1>2 DEF KvBytes
<1>4. CacheBytes(r) \in Nat
  BY <1>1, <1>3, ProductNat DEF CacheBytes
<1>5. Heads(r) * HeadDim(r) \in Nat /\ Heads(r) * r.context \in Nat
  BY <1>1, ProductNat DEF Heads, HeadDim
<1>6. QBytes(r) \in Nat /\ ScoreBytes(r) \in Nat
  BY <1>5 DEF QBytes, ScoreBytes
<1>7. HiddenBytes(r) \in Nat /\ FfnBytes(r) \in Nat
  BY <1>1 DEF HiddenBytes, FfnBytes, Hidden, Ffn
<1> QED BY <1>2, <1>3, <1>4, <1>6, <1>7

\* So are the capacities that a request asks for.
LEMMA WorkIsNat ==
  ASSUME NEW r \in Requests
  PROVE  Work(r) \in [WorkBuffers -> Nat]
BY SizesAreNat DEF Work, WorkBuffers, Larger

\* A model has at most as many keys as queries.
LEMMA KeyFitsQuery ==
  ASSUME NEW r \in Requests
  PROVE  KvBytes(r) <= QBytes(r)
<1>1. r.model \in Models /\ Dims[r.model].heads \in Nat /\ Dims[r.model].kvHeads \in Nat
      /\ Dims[r.model].headDim \in Nat
  BY RequestFields
<1>2. Dims[r.model].kvHeads <= Dims[r.model].heads
  BY <1>1, DivisorSmaller, ShapeAssumption
<1>3. Dims[r.model].kvHeads * Dims[r.model].headDim
        <= Dims[r.model].heads * Dims[r.model].headDim
  BY <1>1, <1>2, ProductMonotone
<1>4. /\ Dims[r.model].kvHeads * Dims[r.model].headDim \in Nat
      /\ Dims[r.model].heads * Dims[r.model].headDim \in Nat
  BY <1>1, ProductNat
<1> QED BY <1>3, <1>4 DEF KvBytes, KvElements, QBytes, Heads, HeadDim

\* The copy of a valid request ends inside the cache.
LEMMA RowInCache ==
  ASSUME NEW r \in Requests, Valid(r)
  PROVE  RowEnd(r) <= CacheBytes(r)
<1>1. r.position + 1 \in Nat /\ r.context \in Nat /\ r.position + 1 <= r.context
  BY RequestFields DEF Valid
<1> QED BY <1>1, SizesAreNat, ProductMonotone DEF RowEnd, CacheBytes

\* Ensuring a size gives at least that size, and never less than before.
LEMMA EnsuredFact ==
  ASSUME NEW have \in Nat, NEW bytes \in Nat
  PROVE  /\ Ensured(have, bytes) \in Nat
         /\ bytes <= Ensured(have, bytes)
         /\ have <= Ensured(have, bytes)
BY DEF Ensured

-----------------------------------------------------------------------------
\* No buffer, no object, no request.
LEMMA InitInvariant == Init => IInv
<1> SUFFICES ASSUME Init PROVE IInv
  OBVIOUS
<1> USE DEF Init
<1>1. TypeOK
  BY RuntimeAssumption DEF TypeOK, Stages, Layers
<1>2. AtInv /\ WorkReady /\ SetsCounted
  BY DEF AtInv, WorkReady, SetsCounted
<1>3. KnownFits
  BY DEF KnownFits
<1>4. CachesGrown /\ ObjectsInv
  BY DEF CachesGrown, ObjectsInv, Recorded
<1> QED BY <1>1, <1>2, <1>3, <1>4 DEF IInv
-----------------------------------------------------------------------------
(* Every part of the invariant is preserved by every step. *)

\* What may fail does not change.
LEMMA MayFailStays ==
  ASSUME [Next]_vars
  PROVE  mayFail' = mayFail
BY DEF Next, RunLayerRange, StoreLayer, Receive, EnsureWork, MakePools, LayerRefused,
       CacheAllocationFails, RecordLayer, Submit, vars

\* Recording ends the call, or goes on to a layer of the range, or submits.
LEMMA NextLayer ==
  ASSUME TypeOK, AtInv, RecordLayer
  PROVE  \/ Leave
         \/ /\ req' = req /\ at' \in req.first .. req.last /\ at' \in Layers
            /\ ~PoolExhausted
            /\ sets' = sets + SetsPerLayer
            /\ \/ stage' = "submit" /\ at = req.last /\ at' = at
               \/ stage' = "layers" /\ at' = at + 1
<1>1. /\ req \in Requests /\ req.first \in Layers /\ req.last \in Layers
      /\ at \in req.first .. req.last /\ at \in Layers
  BY RequestFields DEF RecordLayer, TypeOK, AtInv
<1>2. /\ req.first \in Nat /\ req.last \in Nat /\ at \in Nat
      /\ NumLayers \in Nat /\ req.last <= NumLayers - 1
  BY <1>1, RuntimeAssumption DEF Layers
<1>3. CASE PoolExhausted
  BY <1>3 DEF RecordLayer
<1>4. CASE ~PoolExhausted /\ at = req.last
  BY <1>1, <1>4 DEF RecordLayer
<1>5. CASE ~PoolExhausted /\ at # req.last
  <2>1. req' = req /\ at' = at + 1 /\ stage' = "layers" /\ sets' = sets + SetsPerLayer
    BY <1>5 DEF RecordLayer
  <2>2. at + 1 \in req.first .. req.last /\ at + 1 \in Layers
    BY <1>1, <1>2, <1>5 DEF Layers
  <2> QED BY <1>5, <2>1, <2>2
<1> QED BY <1>3, <1>4, <1>5

\* Types: the only numbers computed are sizes, the layer and the set count.
LEMMA TypeStep ==
  ASSUME TypeOK, AtInv, [Next]_vars
  PROVE  TypeOK'
<1> USE DEF TypeOK
<1>1. ASSUME NEW l \in Layers, NEW m \in Models, StoreLayer(l, m)
      PROVE  TypeOK'
  BY <1>1 DEF StoreLayer, runtime
<1>2. ASSUME NEW r \in Requests, Receive(r)
      PROVE  TypeOK'
  BY <1>2, RequestFields, RequestAssumption DEF Receive, runtime, Stages
<1>3. CASE EnsureWork
  <2>1. Work(req) \in [WorkBuffers -> Nat]
    BY <1>3, WorkIsNat DEF EnsureWork, Stages
  <2>2. capacity' \in [WorkBuffers -> Nat]
    BY <1>3, <2>1 DEF EnsureWork, Ensured
  <2>3. /\ stage' \in Stages /\ req' \in Requests \cup {NoRequest}
        /\ (req' = NoRequest) <=> (stage' = "idle")
        /\ at' \in Layers
    BY <1>3, RuntimeAssumption DEF EnsureWork, Leave, Stages, Layers
  <2> QED BY <1>3, <2>2, <2>3 DEF EnsureWork
<1>4. CASE MakePools
  <2>1. made' \subseteq Objects
    BY <1>4 DEF MakePools, Objects, FirstObjects, CommandObjects
  <2>2. sets' \in 0 .. MaxSets
    BY <1>4, RuntimeAssumption DEF MakePools, Reset
  <2>3. /\ stage' \in Stages /\ req' \in Requests \cup {NoRequest}
        /\ (req' = NoRequest) <=> (stage' = "idle")
        /\ at' \in Layers
    BY <1>4, RuntimeAssumption DEF MakePools, Leave, Stages, Layers
  <2> QED BY <1>4, <2>1, <2>2, <2>3 DEF MakePools
<1>5. CASE LayerRefused \/ Submit
  <2>1. at' \in Layers
    BY <1>5, RuntimeAssumption, SMTT(30) DEF LayerRefused, Submit, Leave, Layers
  <2>2. stage' = "idle" /\ req' = NoRequest /\ UNCHANGED <<mayFail, stored, runtime>>
    BY <1>5 DEF LayerRefused, Submit, Leave
  <2> QED BY <2>1, <2>2 DEF runtime, Stages
<1>6. CASE CacheAllocationFails
  <2>1. CacheBytes(req) \in Nat /\ KvElements(req.model) \in Nat /\ req.context \in Nat
    BY <1>6, SizesAreNat, RequestFields DEF CacheAllocationFails
  <2>2. kCache' \in [Layers -> Nat] /\ vCache' \in [Layers -> Nat]
    BY <1>6, <2>1 DEF CacheAllocationFails, Grown, Ensured
  <2>3. known' \in [Layers -> [context : Nat, kv : Nat]]
    BY <1>6, <2>1 DEF CacheAllocationFails, Remembered
  <2>4. stage' \in Stages /\ req' = NoRequest /\ stage' = "idle" /\ at' \in Layers
    BY <1>6, RuntimeAssumption DEF CacheAllocationFails, Leave, Stages, Layers
  <2> QED BY <1>6, <2>2, <2>3, <2>4 DEF CacheAllocationFails
<1>7. CASE RecordLayer
  <2>1. /\ CacheBytes(req) \in Nat /\ KvElements(req.model) \in Nat /\ req.context \in Nat
        /\ req.last \in Layers /\ req \in Requests
    BY <1>7, SizesAreNat, RequestFields DEF RecordLayer
  <2>2. kCache' \in [Layers -> Nat] /\ vCache' \in [Layers -> Nat]
    BY <1>7, <2>1 DEF RecordLayer, Grown, Ensured
  <2>3. known' \in [Layers -> [context : Nat, kv : Nat]]
    BY <1>7, <2>1 DEF RecordLayer, Remembered
  <2>4. sets' \in 0 .. MaxSets
    BY <1>7, RuntimeAssumption DEF RecordLayer, PoolExhausted
  <2>5. at' \in Layers
    <3>1. 0 \in Layers
      BY RuntimeAssumption DEF Layers
    <3> QED BY <1>7, <3>1, NextLayer DEF Leave
  <2>6. /\ stage' \in Stages /\ req' \in Requests \cup {NoRequest}
        /\ (req' = NoRequest) <=> (stage' = "idle")
    BY <1>7, <2>1 DEF RecordLayer, Leave, Stages
  <2> QED BY <1>7, <2>2, <2>3, <2>4, <2>5, <2>6 DEF RecordLayer
<1>8. CASE UNCHANGED vars
  BY <1>8 DEF vars, runtime
<1> QED BY <1>1, <1>2, <1>3, <1>4, <1>5, <1>6, <1>7, <1>8 DEF Next, RunLayerRange

\* The layer stays inside the request's range.
LEMMA AtStep ==
  ASSUME TypeOK, AtInv, [Next]_vars
  PROVE  AtInv'
<1> USE DEF AtInv, TypeOK
<1>1. ASSUME NEW l \in Layers, NEW m \in Models, StoreLayer(l, m)
      PROVE  AtInv'
  BY <1>1 DEF StoreLayer, Valid
<1>2. ASSUME NEW r \in Requests, Receive(r)
      PROVE  AtInv'
  BY <1>2, RequestFields DEF Receive, Valid, Layers
<1>3. CASE EnsureWork
  BY <1>3 DEF EnsureWork, Leave, Valid
<1>4. CASE MakePools
  BY <1>4 DEF MakePools, Leave, Valid
<1>5. CASE LayerRefused \/ CacheAllocationFails \/ Submit
  BY <1>5 DEF LayerRefused, CacheAllocationFails, Submit, Leave
<1>6. CASE RecordLayer
  <2>1. CASE Leave
    BY <2>1 DEF Leave
  <2>2. CASE ~Leave
    <3>1. req' = req /\ at' \in req.first .. req.last /\ stage' \in {"layers", "submit"}
      BY <1>6, <2>2, NextLayer
    <3>2. Valid(req) /\ Valid(req')
      BY <1>6, <3>1 DEF RecordLayer, Valid
    <3> QED BY <3>1, <3>2
  <2> QED BY <2>1, <2>2
<1>7. CASE UNCHANGED vars
  BY <1>7 DEF vars, Valid
<1> QED BY <1>1, <1>2, <1>3, <1>4, <1>5, <1>6, <1>7 DEF Next, RunLayerRange

\* Work buffers change only in EnsureWork, which makes all of them or gives up.
LEMMA WorkStep ==
  ASSUME TypeOK, WorkReady, [Next]_vars
  PROVE  WorkReady'
<1> USE DEF WorkReady
<1>1. CASE EnsureWork
  <2>1. Work(req) \in [WorkBuffers -> Nat] /\ capacity \in [WorkBuffers -> Nat]
    BY <1>1, WorkIsNat DEF EnsureWork, TypeOK
  <2>2. CASE stage' = "pools"
    <3>1. /\ req' = req
          /\ capacity' = [b \in WorkBuffers |-> Ensured(capacity[b], Work(req)[b])]
      BY <1>1, <2>2 DEF EnsureWork, Leave
    <3>2. \A b \in WorkBuffers : Work(req)[b] <= Ensured(capacity[b], Work(req)[b])
      BY <2>1, EnsuredFact
    <3>3. \A b \in WorkBuffers : Work(req)[b] <= capacity'[b]
      BY <3>1, <3>2
    <3>4. Work(req') = Work(req)
      BY <3>1
    <3> QED BY <3>3, <3>4
  <2>3. CASE stage' # "pools"
    BY <1>1, <2>3 DEF EnsureWork, Leave
  <2> QED BY <2>2, <2>3
<1>2. CASE stage' \in {"idle", "work"}
  BY <1>2
<1>3. CASE /\ stage' \in {"pools", "layers", "submit"}
           /\ stage \in {"pools", "layers", "submit"}
           /\ req' = req /\ capacity' = capacity
  <2>1. Work(req') = Work(req)
    BY <1>3
  <2> QED BY <1>3, <2>1
<1>4. ASSUME ~EnsureWork
      PROVE  \/ stage' \in {"idle", "work"}
             \/ /\ stage' \in {"pools", "layers", "submit"}
                /\ stage \in {"pools", "layers", "submit"}
                /\ req' = req /\ capacity' = capacity
  BY <1>4 DEF Next, RunLayerRange, StoreLayer, Receive, MakePools, LayerRefused,
              CacheAllocationFails, RecordLayer, Submit, Leave, vars, runtime,
              TypeOK, Stages
<1> QED BY <1>1, <1>2, <1>3, <1>4
\* The caches of the layer just handled are as large as the request wants, if
\* the cache was looked at or what was remembered of it is true.
LEMMA CacheGrows ==
  ASSUME TypeOK, KnownFits, "cache" \notin mayFail, RecordLayer
  PROVE  /\ KnownFits'
         /\ \A l \in Layers : kCache[l] <= kCache'[l] /\ vCache[l] <= vCache'[l]
         /\ CacheBytes(req) <= kCache'[at] /\ CacheBytes(req) <= vCache'[at]
<1> DEFINE ctx == req.context
           kv == KvElements(req.model)
           bytes == CacheBytes(req)
<1>1. /\ req \in Requests /\ ctx \in Nat /\ kv \in Nat /\ bytes \in Nat
      /\ at \in Layers
      /\ kCache \in [Layers -> Nat] /\ vCache \in [Layers -> Nat]
  BY SizesAreNat, RequestFields DEF RecordLayer, TypeOK
<1>2. bytes = ctx * (kv * 2)
  BY DEF CacheBytes, KvBytes
<1>3. CASE Changed(at)
  <2>1. /\ known' = [known EXCEPT ![at] = [context |-> ctx, kv |-> kv]]
        /\ kCache' = [kCache EXCEPT ![at] = Ensured(kCache[at], bytes)]
        /\ vCache' = [vCache EXCEPT ![at] = Ensured(vCache[at], bytes)]
    BY <1>3 DEF RecordLayer, Remembered, Grown
  <2>2. /\ bytes <= Ensured(kCache[at], bytes) /\ kCache[at] <= Ensured(kCache[at], bytes)
        /\ bytes <= Ensured(vCache[at], bytes) /\ vCache[at] <= Ensured(vCache[at], bytes)
    BY <1>1, EnsuredFact
  <2>3. known'[at] = [context |-> ctx, kv |-> kv]
    BY <1>1, <2>1 DEF TypeOK
  <2>4. /\ known'[at].context * (known'[at].kv * 2) <= kCache'[at]
        /\ known'[at].context * (known'[at].kv * 2) <= vCache'[at]
    BY <1>1, <1>2, <2>1, <2>2, <2>3
  <2>5. ASSUME NEW l \in Layers, l # at
        PROVE  known'[l] = known[l] /\ kCache'[l] = kCache[l] /\ vCache'[l] = vCache[l]
    BY <1>1, <2>1, <2>5 DEF TypeOK
  <2>6. KnownFits'
    BY <2>4, <2>5 DEF KnownFits
  <2>7. \A l \in Layers : kCache[l] <= kCache'[l] /\ vCache[l] <= vCache'[l]
    BY <1>1, <2>1, <2>2, <2>5
  <2> QED BY <1>1, <2>1, <2>2, <2>6, <2>7
<1>4. CASE ~Changed(at)
  <2>1. UNCHANGED <<known, kCache, vCache>>
    BY <1>4 DEF RecordLayer
  <2>2. known[at].context = ctx /\ known[at].kv = kv
    BY <1>4 DEF Changed
  <2>3. bytes <= kCache[at] /\ bytes <= vCache[at]
    BY <1>1, <1>2, <2>2 DEF KnownFits
  <2>4. KnownFits'
    BY <2>1 DEF KnownFits
  <2> QED BY <1>1, <2>1, <2>3, <2>4
<1> QED BY <1>3, <1>4

\* The steps that touch neither the caches nor what is remembered of them.
LEMMA CacheQuiet ==
  ASSUME "cache" \notin mayFail, [Next]_vars, ~RecordLayer
  PROVE  UNCHANGED <<known, kCache, vCache>>
BY DEF Next, RunLayerRange, StoreLayer, Receive, EnsureWork, MakePools, LayerRefused,
       CacheAllocationFails, Submit, vars, runtime

\* They record no layer either: the recorded ones stay, or the call is over, or
\* it has not come to them.
LEMMA RecordedQuiet ==
  ASSUME TypeOK, AtInv, [Next]_vars, ~RecordLayer
  PROVE  Recorded' = {} \/ (Recorded' = Recorded /\ req' = req)
<1>1. CASE stage' \in {"idle", "work", "pools"}
  BY <1>1 DEF Recorded
<1>2. CASE MakePools
  <2>1. CASE stage' = "idle"
    BY <2>1 DEF Recorded
  <2>2. CASE stage' # "idle"
    <3>1. stage' = "layers" /\ req' = req /\ at' = req.first /\ req \in Requests
      BY <1>2, <2>2 DEF MakePools, Leave, AtInv, TypeOK
    <3>2. req.first \in Nat
      BY <3>1, RequestFields DEF Layers
    <3>3. req.first .. req.first - 1 = {}
      BY <3>2
    <3> QED BY <3>1, <3>3 DEF Recorded
  <2> QED BY <2>1, <2>2
<1>3. CASE UNCHANGED <<stage, req, at>>
  BY <1>3 DEF Recorded
<1>4. stage' \in {"idle", "work", "pools"} \/ MakePools \/ UNCHANGED <<stage, req, at>>
  BY DEF Next, RunLayerRange, StoreLayer, Receive, EnsureWork, LayerRefused,
         CacheAllocationFails, Submit, Leave, vars
<1> QED BY <1>1, <1>2, <1>3, <1>4

\* The caches fit after every step.
LEMMA CacheStep ==
  ASSUME TypeOK, AtInv, KnownFits, CachesGrown, [Next]_vars
  PROVE  KnownFits' /\ CachesGrown'
<1>1. CASE "cache" \in mayFail
  BY <1>1, MayFailStays DEF KnownFits, CachesGrown
<1>2. CASE "cache" \notin mayFail /\ RecordLayer
  <2>1. /\ KnownFits'
        /\ \A l \in Layers : kCache[l] <= kCache'[l] /\ vCache[l] <= vCache'[l]
        /\ CacheBytes(req) <= kCache'[at] /\ CacheBytes(req) <= vCache'[at]
    BY <1>2, CacheGrows
  <2>2. CASE Leave
    BY <2>1, <2>2 DEF CachesGrown, Recorded, Leave
  <2>3. CASE ~Leave
    <3>1. /\ req \in Requests /\ req.first \in Layers /\ req.last \in Layers
          /\ at \in req.first .. req.last /\ at \in Layers /\ stage = "layers"
          /\ CacheBytes(req) \in Nat
          /\ kCache \in [Layers -> Nat] /\ vCache \in [Layers -> Nat]
          /\ kCache' \in [Layers -> Nat] /\ vCache' \in [Layers -> Nat]
      BY <1>2, RequestFields, SizesAreNat, TypeStep DEF RecordLayer, TypeOK, AtInv
    <3>2. /\ req.first \in Nat /\ req.last \in Nat /\ at \in Nat
          /\ NumLayers \in Nat /\ req.last <= NumLayers - 1
      BY <3>1, RuntimeAssumption DEF Layers
    <3>3. /\ req' = req
          /\ Recorded' = req.first .. at
      BY <1>2, <2>3, <3>2, NextLayer DEF Recorded
    <3>4. \A l \in req.first .. at - 1 :
             l \in Layers /\ CacheBytes(req) <= kCache[l] /\ CacheBytes(req) <= vCache[l]
      <4>1. Recorded = req.first .. at - 1
        BY <3>1 DEF Recorded
      <4>2. \A l \in req.first .. at - 1 : l \in Layers
        BY <3>1, <3>2 DEF Layers
      <4> QED BY <1>2, <4>1, <4>2 DEF CachesGrown
    <3>5. ASSUME NEW l \in req.first .. at
          PROVE  CacheBytes(req) <= kCache'[l] /\ CacheBytes(req) <= vCache'[l]
      <4>1. CASE l = at
        BY <2>1, <4>1
      <4>2. CASE l # at
        <5>1. l \in req.first .. at - 1
          BY <3>2, <4>2
        <5>2. /\ l \in Layers /\ CacheBytes(req) <= kCache[l] /\ CacheBytes(req) <= vCache[l]
          BY <3>4, <5>1
        <5>3. kCache[l] <= kCache'[l] /\ vCache[l] <= vCache'[l]
          BY <2>1, <5>2
        <5>4. /\ kCache[l] \in Nat /\ kCache'[l] \in Nat
              /\ vCache[l] \in Nat /\ vCache'[l] \in Nat
          BY <3>1, <5>2
        <5> QED BY <3>1, <5>2, <5>3, <5>4
      <4> QED BY <4>1, <4>2
    <3>6. CacheBytes(req') = CacheBytes(req)
      BY <3>3
    <3> QED BY <2>1, <3>3, <3>5, <3>6 DEF CachesGrown
  <2> QED BY <2>2, <2>3
<1>3. CASE "cache" \notin mayFail /\ ~RecordLayer
  <2>1. UNCHANGED <<known, kCache, vCache>>
    BY <1>3, CacheQuiet
  <2>2. KnownFits'
    BY <1>3, <2>1, MayFailStays DEF KnownFits
  <2>3. \/ Recorded' = {}
        \/ Recorded' = Recorded /\ req' = req
    BY <1>3, RecordedQuiet
  <2>4. CASE Recorded' = {}
    BY <2>2, <2>4 DEF CachesGrown
  <2>5. CASE Recorded' = Recorded /\ req' = req
    <3>1. CacheBytes(req') = CacheBytes(req)
      BY <2>5
    <3> QED BY <1>3, <2>1, <2>2, <2>5, <3>1, MayFailStays DEF CachesGrown
  <2> QED BY <2>2, <2>3, <2>4, <2>5
<1> QED BY <1>1, <1>2, <1>3
\* The command objects are made together.
LEMMA ObjectsStep ==
  ASSUME TypeOK, ObjectsInv, [Next]_vars
  PROVE  ObjectsInv'
<1> SUFFICES ASSUME "command_objects" \notin mayFail PROVE ObjectsInv'
  BY MayFailStays DEF ObjectsInv
<1>1. CASE MakePools
  <2>1. CASE stage' = "layers"
    <3>1. made' = Objects
      BY <1>1, <2>1 DEF MakePools, Leave, ObjectsInv, Objects
    <3> QED BY <3>1 DEF ObjectsInv
  <2>2. CASE stage' # "layers"
    <3>1. made' = made /\ stage' = "idle"
      BY <1>1, <2>2 DEF MakePools, Leave
    <3> QED BY <3>1 DEF ObjectsInv
  <2> QED BY <2>1, <2>2
<1>2. CASE made' = made /\ (stage' \in {"layers", "submit"} => stage \in {"layers", "submit"})
  BY <1>2 DEF ObjectsInv
<1>3. ASSUME ~MakePools
      PROVE  made' = made /\ (stage' \in {"layers", "submit"} => stage \in {"layers", "submit"})
  BY <1>3 DEF Next, RunLayerRange, StoreLayer, Receive, EnsureWork, LayerRefused,
              CacheAllocationFails, RecordLayer, Submit, Leave, vars, runtime
<1> QED BY <1>1, <1>2, <1>3

\* The sets taken are counted from the reset on.
LEMMA SetsStep ==
  ASSUME TypeOK, AtInv, SetsCounted, [Next]_vars
  PROVE  SetsCounted'
<1>1. CASE stage' # "layers"
  BY <1>1 DEF SetsCounted
<1>2. CASE MakePools /\ stage' = "layers"
  <2>1. sets' = 0 /\ at' = req.first /\ req' = req /\ req \in Requests
    BY <1>2 DEF MakePools, Leave, Reset, AtInv, TypeOK
  <2>2. req.first \in Nat
    BY <2>1, RequestFields DEF Layers
  <2>3. (req.first - req.first) * SetsPerLayer = 0
    BY <2>2, RuntimeAssumption
  <2> QED BY <2>1, <2>3 DEF SetsCounted
<1>3. CASE RecordLayer /\ stage' = "layers"
  <2>1. /\ req' = req /\ at' = at + 1 /\ sets' = sets + SetsPerLayer /\ req \in Requests
        /\ stage = "layers"
    BY <1>3, NextLayer DEF RecordLayer, Leave, TypeOK
  <2>2. req.first \in Nat /\ at \in Nat /\ SetsPerLayer \in Nat /\ at - req.first \in Nat
    <3>1. /\ req.first \in Layers /\ at \in Layers /\ at \in req.first .. req.last
          /\ req.last \in Layers
      BY <2>1, RequestFields DEF TypeOK, AtInv
    <3>2. req.first \in Nat /\ at \in Nat /\ req.last \in Nat /\ SetsPerLayer \in Nat
      BY <3>1, RuntimeAssumption DEF Layers
    <3> QED BY <3>1, <3>2
  <2>3. sets = (at - req.first) * SetsPerLayer
    BY <2>1 DEF SetsCounted
  <2>4. (at + 1 - req.first) * SetsPerLayer = (at - req.first) * SetsPerLayer + SetsPerLayer
    BY <2>2, ProductStep
  <2>5. (at' - req'.first) * SetsPerLayer = (at + 1 - req.first) * SetsPerLayer
    <3>1. at' = at + 1 /\ req'.first = req.first
      BY <2>1
    <3> QED BY <3>1, <2>2
  <2> QED BY <2>1, <2>3, <2>4, <2>5 DEF SetsCounted
<1>4. CASE stage' = "layers" /\ UNCHANGED <<stage, req, at, sets>>
  BY <1>4 DEF SetsCounted
<1>5. stage' # "layers" \/ MakePools \/ RecordLayer \/ UNCHANGED <<stage, req, at, sets>>
  BY DEF Next, RunLayerRange, StoreLayer, Receive, EnsureWork, LayerRefused,
         CacheAllocationFails, Submit, Leave, vars, runtime
<1> QED BY <1>1, <1>2, <1>3, <1>4, <1>5

\* All parts together.
LEMMA Inductive == IInv /\ [Next]_vars => IInv'
BY TypeStep, AtStep, WorkStep, CacheStep, ObjectsStep, SetsStep DEF IInv

-----------------------------------------------------------------------------
\* The runtime's variables keep their types.
THEOREM TypeCorrect == Spec => []TypeOK
<1>1. IInv => TypeOK
  BY DEF IInv
<1> QED BY InitInvariant, Inductive, <1>1, PTL DEF Spec

\* Whatever was allocated, grown or lost before, the dispatches of a request
\* stay inside the work buffers.
THEOREM WorkAlwaysFits == Spec => []WorkFits
<1>1. IInv => WorkFits
  <2> SUFFICES ASSUME IInv, stage \in {"layers", "submit"}
               PROVE  \A b \in Bound(req) : b[2] <= capacity[b[1]]
    BY DEF WorkFits
  <2>1. /\ req \in Requests /\ capacity \in [WorkBuffers -> Nat]
        /\ \A b \in WorkBuffers : Work(req)[b] <= capacity[b]
    BY DEF IInv, TypeOK, WorkReady
  <2>2. /\ HiddenBytes(req) \in Nat /\ QBytes(req) \in Nat /\ KvBytes(req) \in Nat
        /\ KvBytes(req) <= QBytes(req)
    BY <2>1, SizesAreNat, KeyFitsQuery
  <2>3. /\ HiddenBytes(req) <= capacity["x"] /\ HiddenBytes(req) <= capacity["norm"]
        /\ QBytes(req) <= capacity["q"] /\ KvBytes(req) <= capacity["k"]
        /\ KvBytes(req) <= capacity["v"] /\ QBytes(req) <= capacity["attention"]
        /\ Larger(HiddenBytes(req), QBytes(req)) <= capacity["projection"]
        /\ FfnBytes(req) <= capacity["gate"] /\ FfnBytes(req) <= capacity["up"]
        /\ FfnBytes(req) <= capacity["activation"]
        /\ HiddenBytes(req) <= capacity["ffn_output"]
        /\ ScoreBytes(req) <= capacity["scores"]
    BY <2>1 DEF Work, WorkBuffers
  <2>4. capacity["attention"] \in Nat /\ capacity["projection"] \in Nat
    BY <2>1 DEF WorkBuffers
  <2>5. KvBytes(req) <= capacity["attention"]
    BY <2>2, <2>3, <2>4
  <2>6. QBytes(req) <= capacity["projection"] /\ HiddenBytes(req) <= capacity["projection"]
    BY <2>2, <2>3, <2>4 DEF Larger
  <2> QED BY <2>3, <2>5, <2>6 DEF Bound
<1> QED BY InitInvariant, Inductive, <1>1, PTL DEF Spec

\* Without failing cache allocations no attention reads and no copy writes past
\* the end of a cache, although a cache is looked at only when the context
\* differs from the last request's.
THEOREM CachesAlwaysFit == Spec => []CachesFitUnlessLost
<1>1. IInv => CachesFitUnlessLost
  <2> SUFFICES ASSUME IInv, "cache" \notin mayFail, NEW l \in Recorded
               PROVE  /\ CacheBytes(req) <= kCache[l] /\ CacheBytes(req) <= vCache[l]
                      /\ RowEnd(req) <= kCache[l] /\ RowEnd(req) <= vCache[l]
    BY DEF CachesFitUnlessLost, CachesFit
  <2>1. CacheBytes(req) <= kCache[l] /\ CacheBytes(req) <= vCache[l]
    BY DEF IInv, CachesGrown
  <2>2. stage \in {"layers", "submit"}
    BY DEF Recorded
  <2>3. req \in Requests /\ Valid(req) /\ l \in Layers
    <3>1. req \in Requests /\ Valid(req) /\ at \in req.first .. req.last
      BY <2>2 DEF IInv, TypeOK, AtInv
    <3>2. req.first \in Nat /\ req.last \in Nat /\ NumLayers \in Nat /\ req.last <= NumLayers - 1
      BY <3>1, RequestFields, RuntimeAssumption DEF Layers
    <3>3. at \in Nat /\ at <= req.last
      BY <3>1, <3>2
    <3>4. l \in req.first .. req.last \/ l \in req.first .. at - 1
      BY <2>2 DEF Recorded
    <3>5. l \in Layers
      BY <3>2, <3>3, <3>4 DEF Layers
    <3> QED BY <3>1, <3>5
  <2>4. RowEnd(req) <= CacheBytes(req)
    BY <2>3, RowInCache
  <2>5. CacheBytes(req) \in Nat /\ RowEnd(req) \in Nat /\ kCache[l] \in Nat /\ vCache[l] \in Nat
    <3>1. req.position + 1 \in Nat /\ KvBytes(req) \in Nat
      BY <2>3, RequestFields, SizesAreNat
    <3>2. RowEnd(req) \in Nat
      BY <3>1, ProductNat DEF RowEnd
    <3> QED BY <2>3, <3>2, SizesAreNat DEF IInv, TypeOK
  <2> QED BY <2>1, <2>4, <2>5
<1> QED BY InitInvariant, Inductive, <1>1, PTL DEF Spec

\* Without failing command objects the runtime is complete when it is used.
THEOREM ObjectsAlwaysReady == Spec => []ObjectsReadyUnlessLost
<1>1. IInv => ObjectsReadyUnlessLost
  BY DEF IInv, ObjectsInv, ObjectsReady, ObjectsReadyUnlessLost
<1> QED BY InitInvariant, Inductive, <1>1, PTL DEF Spec

\* Without failing cache allocations, a range whose layers are stored and that
\* the pool has sets for is recorded to its end after any history.
THEOREM RuntimeNeverWornOut == Spec => NeverWornOut
<1>1. IInv /\ [Next]_vars => [stage = "layers" /\ Served(req) => stage' # "idle"]_vars
  <2> SUFFICES ASSUME IInv, Next, stage = "layers", Served(req)
               PROVE  stage' # "idle"
    OBVIOUS
  <2>1. /\ req \in Requests /\ at \in req.first .. req.last
        /\ sets = (at - req.first) * SetsPerLayer
    BY DEF IInv, TypeOK, AtInv, SetsCounted
  <2>2. /\ req.first \in Nat /\ req.last \in Nat /\ at \in Nat
        /\ SetsPerLayer \in Nat /\ MaxSets \in Nat
    BY <2>1, RequestFields, RuntimeAssumption DEF Layers
  <2>3. at <= req.last /\ req.first <= at
    BY <2>1, <2>2
  <2>4. at - req.first + 1 \in Nat /\ req.last - req.first + 1 \in Nat
        /\ at - req.first + 1 <= req.last - req.first + 1
    BY <2>2, <2>3
  <2>5. (at - req.first + 1) * SetsPerLayer <= (req.last - req.first + 1) * SetsPerLayer
    BY <2>2, <2>4, ProductMonotone
  <2>6. (at - req.first + 1) * SetsPerLayer = sets + SetsPerLayer
    BY <2>1, <2>2
  <2>7. ~PoolExhausted
    BY <2>2, <2>4, <2>5, <2>6, ProductNat DEF Served, PoolExhausted
  <2>8. SameDims(stored[at], req.model) /\ "cache" \notin mayFail
    BY <2>1 DEF Served
  <2>9. RecordLayer \/ stage' = "layers"
    BY <2>8 DEF Next, RunLayerRange, StoreLayer, Receive, EnsureWork, MakePools,
                LayerRefused, CacheAllocationFails, Submit
  <2> QED BY <2>7, <2>9 DEF RecordLayer
<1> QED BY InitInvariant, Inductive, <1>1, PTL DEF Spec, NeverWornOut

-----------------------------------------------------------------------------
(* Payloads *)


-----------------------------------------------------------------------------
(* Induction, from the fact that the natural numbers are well-founded. *)

\* A set of natural numbers that is not empty has a least element.
LEMMA LeastNatural ==
  ASSUME NEW T, T \subseteq Nat, T # {}
  PROVE  \E x \in T : \A y \in T : x <= y
<1> DEFINE R == OpToRel(<, Nat)
<1>1. IsWellFoundedOn(R, Nat)
  BY NatLessThanWellFounded, Zenon
<1>2. \A x, y \in Nat : x < y => <<x, y>> \in R
  BY DEF OpToRel
<1> HIDE DEF R
<1>3. PICK x \in T : \A y \in T : ~ (<<y, x>> \in R)
  BY <1>1, WFMin, Zenon
<1>4. ASSUME NEW y \in T PROVE x <= y
  <2>1. ~(y < x)
    BY <1>2, <1>3
  <2>2. QED
    BY <2>1
<1>5. QED
  BY <1>4

\* A set with 0 that holds the successor of each of its elements up to a
\* number holds everything up to that number.
LEMMA InductionUpTo ==
  ASSUME NEW n \in Nat, NEW S, 0 \in S, \A i \in 1 .. n : i - 1 \in S => i \in S
  PROVE  0 .. n \subseteq S
<1> SUFFICES ASSUME (0 .. n) \ S # {}
             PROVE  FALSE
  OBVIOUS
<1>1. (0 .. n) \ S \subseteq Nat
  OBVIOUS
<1>2. PICK x \in (0 .. n) \ S : \A y \in (0 .. n) \ S : x <= y
  BY <1>1, LeastNatural
<1>3. x \in 1 .. n /\ x - 1 \in 0 .. n /\ ~ (x <= x - 1)
  BY <1>2
<1>4. x - 1 \in S
  BY <1>2, <1>3
<1>5. QED
  BY <1>2, <1>3, <1>4

\* f starts with base and goes on by step up to n.
Follows(f, n, base, step) ==
  /\ f[0] = base
  /\ \A i \in 1 .. n : f[i] = step[i][f[i - 1]]

\* A start and a step define a function on the numbers up to n.
LEMMA RecursionUpTo ==
  ASSUME NEW V, NEW base \in V, NEW n \in Nat, NEW step \in [1 .. n -> [V -> V]]
  PROVE  \E f \in [0 .. n -> V] : Follows(f, n, base, step)
<1> DEFINE S == {m \in 0 .. n : \E f \in [0 .. n -> V] : Follows(f, m, base, step)}
<1>1. 0 \in S
  <2> DEFINE g == [i \in 0 .. n |-> base]
  <2>1. g \in [0 .. n -> V] /\ g[0] = base
    OBVIOUS
  <2> HIDE DEF g
  <2>2. Follows(g, 0, base, step) /\ 0 \in 0 .. n
    BY <2>1 DEF Follows
  <2>3. QED
    BY <2>1, <2>2
<1>2. ASSUME NEW m \in 1 .. n, m - 1 \in S
      PROVE  m \in S
  <2>1. PICK f \in [0 .. n -> V] : Follows(f, m - 1, base, step)
    BY <1>2
  <2>2. step[m][f[m - 1]] \in V
    OBVIOUS
  <2> DEFINE g == [f EXCEPT ![m] = step[m][f[m - 1]]]
  <2>3. g \in [0 .. n -> V] /\ g[m] = step[m][f[m - 1]]
        /\ \A i \in 0 .. n : i # m => g[i] = f[i]
    BY <2>2
  <2> HIDE DEF g
  <2>4. g[0] = base
    BY <2>1, <2>3 DEF Follows
  <2>5. ASSUME NEW i \in 1 .. m
        PROVE  g[i] = step[i][g[i - 1]]
    <3>1. g[i - 1] = f[i - 1]
      BY <2>3
    <3>2. CASE i = m
      BY <2>3, <3>1, <3>2
    <3>3. CASE i # m
      <4>1. i \in 1 .. m - 1 /\ i \in 0 .. n
        BY <3>3
      <4>2. f[i] = step[i][f[i - 1]]
        BY <2>1, <4>1 DEF Follows
      <4>3. QED
        BY <2>3, <3>1, <3>3, <4>1, <4>2
    <3>4. QED
      BY <3>2, <3>3
  <2>6. Follows(g, m, base, step)
    BY <2>4, <2>5 DEF Follows
  <2>7. QED
    BY <2>3, <2>6
<1> HIDE DEF S
<1>3. 0 .. n \subseteq S
  BY <1>1, <1>2, InductionUpTo
<1>4. n \in S
  BY <1>3
<1>5. QED
  BY <1>4 DEF S

-----------------------------------------------------------------------------
(* The hash and the products. *)

\* Cells are the natural numbers below Word, and None is none of them.
LEMMA CellFacts ==
  /\ Word \in Nat /\ Word > 1
  /\ \A c : c \in Cells <=> c \in Nat /\ c < Word
  /\ None \notin Cells
  BY PayloadsAssumption DEF Cells

\* A number below the word is its own remainder.
LEMMA BelowWord ==
  ASSUME NEW y \in Nat, NEW w \in Nat, y < w
  PROVE  y % w = y
  OBVIOUS

\* The hash of a sequence of cells is a cell.
LEMMA HashIsCell ==
  ASSUME NEW bytes \in Seq(Cells)
  PROVE  Hash(bytes) \in Cells
<1>1. PICK n \in Nat : n = Len(bytes)
  OBVIOUS
<1> DEFINE Step(i, v) == (ExclusiveOr(v, bytes[i]) * Prime) % Word
           step == [i \in 1 .. n |-> [v \in Cells |-> Step(i, v)]]
           f == CHOOSE g : g = [i \in 0 .. n |-> IF i = 0 THEN Basis ELSE Step(i, g[i - 1])]
<1>2. \A i \in 1 .. n, v \in Cells : Step(i, v) \in Cells
  <2>1. ASSUME NEW i \in 1 .. n, NEW v \in Cells
        PROVE  Step(i, v) \in Cells
    <3>1. bytes[i] \in Cells
      BY <1>1
    <3>2. ExclusiveOr(v, bytes[i]) \in Nat
      BY <3>1, PayloadsAssumption
    <3>3. ExclusiveOr(v, bytes[i]) * Prime \in Nat
      BY <3>2, PayloadsAssumption
    <3>4. PICK x \in Nat : x = ExclusiveOr(v, bytes[i]) * Prime
      BY <3>3
    <3>5. x % Word \in 0 .. Word - 1
      BY PayloadsAssumption
    <3>6. QED
      BY <3>4, <3>5 DEF Cells
  <2>2. QED
    BY <2>1
<1>3. Hash(bytes) = f[n]
  BY <1>1 DEF Hash
<1> HIDE DEF Step
<1>4. step \in [1 .. n -> [Cells -> Cells]]
  BY <1>2
<1>a. Basis \in Cells
  BY PayloadsAssumption
<1>b. \A i \in 1 .. n, v \in Cells : step[i][v] = Step(i, v)
  OBVIOUS
<1> HIDE DEF step, f
<1>5. PICK g \in [0 .. n -> Cells] : Follows(g, n, Basis, step)
  BY <1>4, <1>a, RecursionUpTo
<1>6. g = [i \in 0 .. n |-> IF i = 0 THEN Basis ELSE Step(i, g[i - 1])]
  <2>1. ASSUME NEW i \in 1 .. n
        PROVE  g[i] = Step(i, g[i - 1])
    <3>1. g[i - 1] \in Cells
      BY <1>5
    <3>2. QED
      BY <1>5, <1>b, <3>1 DEF Follows
  <2>2. QED
    BY <1>5, <2>1 DEF Follows
<1> USE DEF f
<1>7. f = [i \in 0 .. n |-> IF i = 0 THEN Basis ELSE Step(i, f[i - 1])]
  BY <1>6
<1> HIDE DEF f
<1>8. f[0] = Basis /\ \A i \in 1 .. n : f[i] = Step(i, f[i - 1])
  BY <1>7
<1> DEFINE S == {i \in 0 .. n : f[i] \in Cells}
<1>9. 0 .. n \subseteq S
  <2>1. 0 \in S
    BY <1>8, PayloadsAssumption
  <2>2. ASSUME NEW i \in 1 .. n, i - 1 \in S
        PROVE  i \in S
    BY <1>2, <1>8, <2>2
  <2> HIDE DEF S
  <2>3. QED
    BY <2>1, <2>2, InductionUpTo
<1>10. QED
  BY <1>3, <1>9

\* Product(dims) is the last of the products of its prefixes.
LEMMA ProductUnfolds ==
  ASSUME NEW dims \in Seq(Cells)
  PROVE  \E f \in [0 .. Len(dims) -> Nat] :
           /\ f[0] = 1 /\ Product(dims) = f[Len(dims)]
           /\ \A i \in 1 .. Len(dims) : f[i] = f[i - 1] * dims[i]
<1>1. PICK n \in Nat : n = Len(dims)
  OBVIOUS
<1>2. \A i \in 1 .. n : dims[i] \in Nat
  <2>1. \A i \in 1 .. n : dims[i] \in Cells
    BY <1>1
  <2>2. QED
    BY <2>1, CellFacts
<1> DEFINE step == [i \in 1 .. n |-> [v \in Nat |-> v * dims[i]]]
           f == CHOOSE g : g = [i \in 0 .. n |-> IF i = 0 THEN 1 ELSE g[i - 1] * dims[i]]
<1>3. Product(dims) = f[n]
  BY <1>1 DEF Product
<1>4. \A i \in 1 .. n, v \in Nat : v * dims[i] \in Nat
  BY <1>2
<1>5. step \in [1 .. n -> [Nat -> Nat]]
  BY <1>4
<1>6. \A i \in 1 .. n, v \in Nat : step[i][v] = v * dims[i]
  OBVIOUS
<1> HIDE DEF step
<1>7. PICK g \in [0 .. n -> Nat] : Follows(g, n, 1, step)
  BY <1>5, RecursionUpTo
<1>8. g = [i \in 0 .. n |-> IF i = 0 THEN 1 ELSE g[i - 1] * dims[i]]
  <2>1. ASSUME NEW i \in 1 .. n
        PROVE  g[i] = g[i - 1] * dims[i]
    <3>1. g[i - 1] \in Nat
      BY <1>7
    <3>2. QED
      BY <1>6, <1>7, <3>1 DEF Follows
  <2>2. QED
    BY <1>7, <2>1 DEF Follows
<1>9. f = [i \in 0 .. n |-> IF i = 0 THEN 1 ELSE f[i - 1] * dims[i]]
  BY <1>8
<1> HIDE DEF f
<1>10. f[0] = 1 /\ \A i \in 1 .. n : f[i] = f[i - 1] * dims[i]
  BY <1>9
<1> DEFINE S == {i \in 0 .. n : f[i] \in Nat}
<1>11. 0 .. n \subseteq S
  <2>1. 0 \in S
    BY <1>10
  <2>2. ASSUME NEW i \in 1 .. n, i - 1 \in S
        PROVE  i \in S
    <3>1. f[i - 1] * dims[i] \in Nat
      BY <1>4, <2>2
    <3>2. QED
      BY <1>10, <3>1
  <2> HIDE DEF S
  <2>3. QED
    BY <2>1, <2>2, InductionUpTo
<1>12. f \in [0 .. n -> Nat]
  BY <1>9, <1>11
<1>13. QED
  BY <1>1, <1>3, <1>10, <1>12, Zenon

\* One more dimension is counted as long as the product is one.
LEMMA MultiplyIsCounted ==
  ASSUME NEW v \in Cells \cup {None}, NEW d \in Cells
  PROVE  Multiply(v, d) \in Cells \cup {None}
<1>1. \A x \in Nat : x % Word \in Cells
  BY PayloadsAssumption DEF Cells
<1>2. v # None => v * d \in Nat
  BY PayloadsAssumption DEF Cells
<1>3. QED
  BY <1>1, <1>2 DEF Multiply

\* Counted(dims) is the last of the counts of its prefixes.
LEMMA CountedUnfolds ==
  ASSUME NEW dims \in Seq(Cells)
  PROVE  \E f \in [0 .. Len(dims) -> Cells \cup {None}] :
           /\ f[0] = 1 /\ Counted(dims) = f[Len(dims)]
           /\ \A i \in 1 .. Len(dims) : f[i] = Multiply(f[i - 1], dims[i])
<1>1. PICK n \in Nat : n = Len(dims)
  OBVIOUS
<1> DEFINE V == Cells \cup {None}
           step == [i \in 1 .. n |-> [v \in V |-> Multiply(v, dims[i])]]
           f == CHOOSE g : g = [i \in 0 .. n |-> IF i = 0 THEN 1 ELSE Multiply(g[i - 1], dims[i])]
<1>2. Counted(dims) = f[n]
  BY <1>1 DEF Counted
<1>3. 1 \in V
  BY PayloadsAssumption DEF Cells
<1>4. \A i \in 1 .. n, v \in V : Multiply(v, dims[i]) \in V
  BY <1>1, MultiplyIsCounted
<1> HIDE DEF V
<1>5. step \in [1 .. n -> [V -> V]]
  BY <1>4
<1>6. \A i \in 1 .. n, v \in V : step[i][v] = Multiply(v, dims[i])
  OBVIOUS
<1> HIDE DEF step
<1>7. PICK g \in [0 .. n -> V] : Follows(g, n, 1, step)
  BY <1>3, <1>5, RecursionUpTo
<1>8. g = [i \in 0 .. n |-> IF i = 0 THEN 1 ELSE Multiply(g[i - 1], dims[i])]
  <2>1. ASSUME NEW i \in 1 .. n
        PROVE  g[i] = Multiply(g[i - 1], dims[i])
    <3>1. g[i - 1] \in V
      BY <1>7
    <3>2. QED
      BY <1>6, <1>7, <3>1 DEF Follows
  <2>2. QED
    BY <1>7, <2>1 DEF Follows
<1>9. f = [i \in 0 .. n |-> IF i = 0 THEN 1 ELSE Multiply(f[i - 1], dims[i])]
  BY <1>8
<1> HIDE DEF f
<1>10. f[0] = 1 /\ \A i \in 1 .. n : f[i] = Multiply(f[i - 1], dims[i])
  BY <1>9
<1> DEFINE S == {i \in 0 .. n : f[i] \in V}
<1>11. 0 .. n \subseteq S
  <2>1. 0 \in S
    BY <1>3, <1>10
  <2>2. ASSUME NEW i \in 1 .. n, i - 1 \in S
        PROVE  i \in S
    BY <1>4, <1>10, <2>2
  <2> HIDE DEF S
  <2>3. QED
    BY <2>1, <2>2, InductionUpTo
<1>12. f \in [0 .. n -> V]
  BY <1>9, <1>11
<1>13. QED
  BY <1>1, <1>2, <1>10, <1>12 DEF V

\* More than the quotient is more than the whole.
LEMMA OverQuotient ==
  ASSUME NEW a \in Nat, NEW b \in Nat, NEW d \in Nat \ {0}
  PROVE  a > b \div d <=> a * d > b
<1>1. PICK q \in Nat : q = b \div d
  OBVIOUS
<1>2. q * d <= b /\ b < q * d + d
  BY <1>1
<1>3. a > q => a * d >= q * d + d
  <2>1. ASSUME a > q PROVE a * d >= q * d + d
    <3>1. PICK e \in Nat : a = q + 1 + e
      <4>1. a - q - 1 \in Nat /\ a = q + 1 + (a - q - 1)
        BY <2>1
      <4>2. QED
        BY <4>1
    <3>2. a * d = q * d + d + e * d /\ e * d \in Nat /\ q * d \in Nat
      BY <3>1
    <3>3. QED
      BY <3>2
  <2>2. QED
    BY <2>1
<1>4. a <= q => a * d <= q * d
  <2>1. ASSUME a <= q PROVE a * d <= q * d
    <3>1. PICK e \in Nat : q = a + e
      <4>1. q - a \in Nat /\ q = a + (q - a)
        BY <2>1
      <4>2. QED
        BY <4>1
    <3>2. q * d = a * d + e * d /\ e * d \in Nat /\ a * d \in Nat
      BY <3>1
    <3>3. QED
      BY <3>2
  <2>2. QED
    BY <2>1
<1>5. q * d \in Nat /\ a * d \in Nat
  OBVIOUS
<1>6. QED
  BY <1>1, <1>2, <1>3, <1>4, <1>5

\* The phone counts the elements where their number is positive and fits a
\* word, and refuses everything else.
LEMMA CountedIsProduct ==
  ASSUME NEW dims \in Seq(Cells)
  PROVE  /\ Product(dims) \in Nat
         /\ IF Product(dims) \in 1 .. Word - 1 THEN Counted(dims) = Product(dims)
                                              ELSE Counted(dims) = None
<1>1. PICK n \in Nat : n = Len(dims)
  OBVIOUS
<1>2. PICK f \in [0 .. n -> Nat] :
        /\ f[0] = 1 /\ Product(dims) = f[n]
        /\ \A i \in 1 .. n : f[i] = f[i - 1] * dims[i]
  BY <1>1, ProductUnfolds
<1>3. PICK g \in [0 .. n -> Cells \cup {None}] :
        /\ g[0] = 1 /\ Counted(dims) = g[n]
        /\ \A i \in 1 .. n : g[i] = Multiply(g[i - 1], dims[i])
  BY <1>1, CountedUnfolds
<1> DEFINE Refused(i) == g[i] = None /\ (f[i] = 0 \/ f[i] > Word - 1)
           Exact(i) == g[i] = f[i] /\ f[i] \in 1 .. Word - 1
           S == {i \in 0 .. n : Refused(i) \/ Exact(i)}
<1>4. 0 \in S
  <2>1. 0 \in 0 .. n /\ 1 \in 1 .. Word - 1
    BY PayloadsAssumption
  <2>2. Exact(0)
    BY <1>2, <1>3, <2>1
  <2>3. QED
    BY <2>1, <2>2
<1>5. ASSUME NEW i \in 1 .. n, i - 1 \in S
      PROVE  i \in S
  <2>1. PICK x \in Nat, d \in Nat : x = f[i - 1] /\ d = dims[i] /\ d \in Cells
    <3>1. dims[i] \in Cells /\ f[i - 1] \in Nat
      BY <1>1, <1>2
    <3>2. QED
      BY <3>1, CellFacts
  <2>2. PICK y \in Nat : y = x * d
    BY <2>1
  <2>3. f[i] = y /\ g[i] = Multiply(g[i - 1], d)
    BY <1>2, <1>3, <2>1, <2>2
  <2>4. CASE d = 0
    BY <2>2, <2>3, <2>4 DEF Multiply
  <2>5. CASE d # 0 /\ Refused(i - 1)
    <3>1. x = 0 => y = 0
      BY <2>2
    <3>2. y >= x
      BY <2>2, <2>5
    <3>3. g[i] = None
      BY <2>3, <2>5 DEF Multiply
    <3>4. f[i - 1] > Word - 1 => y > Word - 1
      BY <2>1, <3>2, PayloadsAssumption
    <3>5. QED
      BY <2>1, <2>3, <2>5, <3>1, <3>3, <3>4
  <2>6. CASE d # 0 /\ Exact(i - 1)
    <3>1. g[i - 1] = x /\ x \in 1 .. Word - 1
      BY <2>1, <2>6
    <3>2. x # None
      <4>1. x \in Nat /\ x < Word
        BY <3>1, CellFacts
      <4>2. x \in Cells
        BY <4>1, CellFacts
      <4>3. QED
        BY <4>2, CellFacts
    <3>3. Word - 1 \in Nat /\ d \in Nat \ {0}
      BY <2>1, <2>6, PayloadsAssumption
    <3>4. x > (Word - 1) \div d <=> y > Word - 1
      BY <2>2, <3>3, OverQuotient
    <3>5. CASE y > Word - 1
      <4>1. g[i] = None
        BY <2>3, <3>1, <3>4, <3>5 DEF Multiply
      <4>2. QED
        BY <2>3, <3>5, <4>1
    <3>6. CASE ~ (y > Word - 1)
      <4>1. g[i] = y % Word
        BY <2>2, <2>3, <2>6, <3>1, <3>2, <3>4, <3>6 DEF Multiply
      <4>2. y >= x
        BY <2>2, <3>3
      <4>3. y \in 1 .. Word - 1
        BY <3>1, <3>6, <4>2, PayloadsAssumption
      <4>4. y % Word = y
        <5>1. Word \in Nat /\ y < Word
          BY <4>3, CellFacts
        <5>2. QED
          BY <5>1, BelowWord
      <4>5. QED
        BY <2>3, <4>1, <4>3, <4>4
    <3>7. QED
      BY <3>5, <3>6
  <2>7. QED
    BY <1>5, <2>4, <2>5, <2>6
<1>6. 0 .. n \subseteq S
  <2> HIDE DEF S
  <2>1. QED
    BY <1>4, <1>5, InductionUpTo
<1>7. n \in S
  BY <1>6
<1>8. QED
  BY <1>2, <1>3, <1>7, PayloadsAssumption

-----------------------------------------------------------------------------
(* Payloads as sequences of pieces. *)

\* The middle one of three pieces is found where the lengths say.
LEMMA Pieces ==
  ASSUME NEW S, NEW a \in Seq(S), NEW b \in Seq(S), NEW c \in Seq(S)
  PROVE  LET p == (a \o b) \o c
         IN  /\ p \in Seq(S) /\ Len(p) = Len(a) + Len(b) + Len(c)
             /\ \A i \in 1 .. Len(a) : p[i] = a[i]
             /\ SubSeq(p, Len(a) + 1, Len(a) + Len(b)) = b
<1> DEFINE ab == a \o b
           p == ab \o c
<1>1. PICK x \in Nat, y \in Nat, z \in Nat : x = Len(a) /\ y = Len(b) /\ z = Len(c)
  OBVIOUS
<1>2. /\ ab \in Seq(S) /\ Len(ab) = x + y
      /\ \A i \in 1 .. x + y : ab[i] = IF i <= x THEN a[i] ELSE b[i - x]
  BY <1>1, ConcatProperties
<1> HIDE DEF ab
<1>3. /\ p \in Seq(S) /\ Len(p) = x + y + z
      /\ \A i \in 1 .. x + y + z : p[i] = IF i <= x + y THEN ab[i] ELSE c[i - (x + y)]
  <2>1. /\ p \in Seq(S) /\ Len(p) = Len(ab) + Len(c)
        /\ \A i \in 1 .. Len(ab) + Len(c) : p[i] = IF i <= Len(ab) THEN ab[i] ELSE c[i - Len(ab)]
    BY <1>2, ConcatProperties
  <2> HIDE DEF p
  <2>2. Len(ab) = x + y /\ Len(c) = z
    BY <1>1, <1>2
  <2>3. QED
    BY <2>1, <2>2
<1> HIDE DEF p
<1>4. \A i \in 1 .. x : p[i] = a[i]
  BY <1>2, <1>3
<1>5. \A i \in 1 .. y : p[x + i] = b[i]
  <2>1. ASSUME NEW i \in 1 .. y PROVE p[x + i] = b[i]
    <3>1. x + i \in 1 .. x + y /\ x + i \in 1 .. x + y + z /\ ~ (x + i <= x) /\ x + i - x = i
      OBVIOUS
    <3>2. QED
      BY <1>2, <1>3, <3>1
  <2>2. QED
    BY <2>1
<1>6. SubSeq(p, x + 1, x + y) = b
  <2>1. PICK m \in Int, n \in Int : m = x + 1 /\ n = x + y
    OBVIOUS
  <2>2. \A i \in m .. n : p[i] \in S
    BY <1>3, <2>1
  <2> DEFINE q == SubSeq(p, m, n)
  <2>3. /\ q \in Seq(S) /\ Len(q) = (IF m <= n THEN n - m + 1 ELSE 0)
        /\ \A i \in 1 .. n - m + 1 : q[i] = p[m + i - 1]
    BY <2>2, SubSeqProperties
  <2> HIDE DEF q
  <2>4. Len(q) = y
    BY <2>1, <2>3
  <2>5. \A i \in 1 .. y : q[i] = b[i]
    <3>1. ASSUME NEW i \in 1 .. y PROVE q[i] = b[i]
      <4>1. i \in 1 .. n - m + 1 /\ m + i - 1 = x + i
        BY <2>1
      <4>2. QED
        BY <1>5, <2>3, <4>1
    <3>2. QED
      BY <3>1
  <2>6. q = b
    <3>1. Len(q) = Len(b) /\ \A i \in 1 .. Len(q) : q[i] = b[i]
      BY <1>1, <2>4, <2>5
    <3>2. QED
      BY <2>3, <3>1, SeqEqual
  <2>7. QED
    BY <2>1, <2>6 DEF q
<1>7. /\ p \in Seq(S)
      /\ Len(p) = Len(a) + Len(b) + Len(c)
      /\ \A i \in 1 .. Len(a) : p[i] = a[i]
      /\ SubSeq(p, Len(a) + 1, Len(a) + Len(b)) = b
  BY <1>1, <1>3, <1>4, <1>6, Zenon
<1>8. QED
  BY <1>7 DEF p, ab

\* A sequence is cut at any place into two.
LEMMA CutInTwo ==
  ASSUME NEW S, NEW p \in Seq(S), NEW i \in Nat, NEW j \in Nat, i <= j, j <= Len(p)
  PROVE  /\ SubSeq(p, i + 1, j) \in Seq(S)
         /\ Len(SubSeq(p, i + 1, j)) = j - i
         /\ \A k \in 1 .. j - i : SubSeq(p, i + 1, j)[k] = p[i + k]
         /\ SubSeq(p, 1, j) = SubSeq(p, 1, i) \o SubSeq(p, i + 1, j)
<1>1. PICK n \in Nat : n = Len(p)
  OBVIOUS
<1>2. ASSUME NEW a \in Nat, NEW b \in Nat, a <= b, b <= n
      PROVE  /\ SubSeq(p, a + 1, b) \in Seq(S)
             /\ Len(SubSeq(p, a + 1, b)) = b - a
             /\ \A k \in 1 .. b - a : SubSeq(p, a + 1, b)[k] = p[a + k]
  <2>1. \A k \in a + 1 .. b : p[k] \in S
    BY <1>1, <1>2
  <2> DEFINE q == SubSeq(p, a + 1, b)
  <2>2. /\ q \in Seq(S)
        /\ Len(q) = IF a + 1 <= b THEN b - (a + 1) + 1 ELSE 0
        /\ \A k \in 1 .. b - (a + 1) + 1 : q[k] = p[a + 1 + k - 1]
    BY <2>1, SubSeqProperties
  <2> HIDE DEF q
  <2>3. Len(q) = b - a
    BY <1>2, <2>2
  <2>4. ASSUME NEW k \in 1 .. b - a PROVE q[k] = p[a + k]
    <3>1. k \in 1 .. b - (a + 1) + 1 /\ a + 1 + k - 1 = a + k
      OBVIOUS
    <3>2. QED
      BY <2>2, <3>1
  <2>5. QED
    BY <2>2, <2>3, <2>4 DEF q
<1>3. /\ SubSeq(p, i + 1, j) \in Seq(S)
      /\ Len(SubSeq(p, i + 1, j)) = j - i
      /\ \A k \in 1 .. j - i : SubSeq(p, i + 1, j)[k] = p[i + k]
  BY <1>1, <1>2
<1>4. SubSeq(p, 1, i) \o SubSeq(p, i + 1, j) = SubSeq(p, 1, j)
  <2>1. 1 \in 1 .. Len(p) + 1 /\ i \in 1 - 1 .. Len(p) /\ j \in i .. Len(p)
    BY <1>1
  <2>2. QED
    BY <2>1, ConcatAdjacentSubSeq
<1>5. QED
  BY <1>3, <1>4, Zenon

\* The fields of a tensor and of a layer range are cells, and their lengths are.
TensorCells(t) ==
  /\ t.type \in Cells
  /\ t.dims \in Seq(Cells) /\ t.name \in Seq(Cells) /\ t.data \in Seq(Cells)
  /\ Len(t.dims) \in Cells /\ Len(t.name) \in Cells /\ Len(t.data) \in Cells

RangeCells(r) ==
  /\ r.first \in Cells /\ r.last \in Cells /\ r.position \in Cells /\ r.max_context \in Cells
  /\ r.ffn \in Cells /\ r.heads \in Cells /\ r.kv_heads \in Cells /\ r.head_dim \in Cells
  /\ r.epsilon \in Cells /\ r.theta \in Cells
  /\ r.input \in Seq(Cells) /\ Len(r.input) \in Cells

\* Eight cells are a sequence of cells.
LEMMA EightCells ==
  ASSUME NEW a \in Cells, NEW b \in Cells, NEW c \in Cells, NEW d \in Cells,
         NEW e \in Cells, NEW f \in Cells, NEW g \in Cells, NEW h \in Cells
  PROVE  /\ <<a, b, c, d, e, f, g, h>> \in Seq(Cells)
         /\ Len(<<a, b, c, d, e, f, g, h>>) = 8
  OBVIOUS

\* Twelve too.
LEMMA TwelveCells ==
  ASSUME NEW a \in Cells, NEW b \in Cells, NEW c \in Cells, NEW d \in Cells,
         NEW e \in Cells, NEW f \in Cells, NEW g \in Cells, NEW h \in Cells,
         NEW i \in Cells, NEW j \in Cells, NEW k \in Cells, NEW l \in Cells
  PROVE  /\ <<a, b, c, d, e, f, g, h, i, j, k, l>> \in Seq(Cells)
         /\ Len(<<a, b, c, d, e, f, g, h, i, j, k, l>>) = 12
  OBVIOUS

\* The number of elements is a cell whatever the dimensions are.
LEMMA ElementCountIsCell ==
  ASSUME NEW dims \in Seq(Cells)
  PROVE  ElementCount(dims) \in Cells
<1>1. PICK x \in Nat : x = Product(dims)
  BY CountedIsProduct
<1>2. x % Word \in Nat /\ x % Word < Word
  BY CellFacts
<1>3. QED
  BY <1>1, <1>2, CellFacts DEF ElementCount

\* What the phone reads of the payload of a tensor is the tensor.
LEMMA TensorPieces ==
  ASSUME NEW t, TensorCells(t), NEW p, p = TensorPayload(t)
  PROVE  /\ p \in Seq(Cells)
         /\ Len(p) = 8 + Len(t.dims) + Len(t.name) + Len(t.data)
         /\ p[1] = t.type /\ p[2] = Len(t.dims) /\ p[3] = 0 /\ p[4] = ElementCount(t.dims)
         /\ p[5] = Len(t.data) /\ p[6] = Hash(t.data) /\ p[7] = Len(t.name) /\ p[8] = 0
         /\ Metadata(p) = 8 + Len(t.dims) + Len(t.name)
         /\ DimsOf(p) = t.dims /\ NameOf(p) = t.name /\ DataOf(p) = t.data
<1> DEFINE h == <<t.type, Len(t.dims), 0, ElementCount(t.dims), Len(t.data), Hash(t.data),
                  Len(t.name), 0>>
<1>1. 0 \in Cells /\ ElementCount(t.dims) \in Cells /\ Hash(t.data) \in Cells
  <2>1. 0 \in Cells
    BY CellFacts
  <2>2. QED
    BY <2>1, ElementCountIsCell, HashIsCell DEF TensorCells
<1>2. h \in Seq(Cells) /\ Len(h) = 8
  BY <1>1, EightCells DEF TensorCells
<1>3. /\ h[1] = t.type /\ h[2] = Len(t.dims) /\ h[3] = 0 /\ h[4] = ElementCount(t.dims)
      /\ h[5] = Len(t.data) /\ h[6] = Hash(t.data) /\ h[7] = Len(t.name) /\ h[8] = 0
  OBVIOUS
<1>4. p = ((h \o t.dims) \o t.name) \o t.data
  BY DEF TensorPayload
<1> HIDE DEF h
<1>5. PICK d \in Seq(Cells), n \in Seq(Cells), x \in Seq(Cells) :
        d = t.dims /\ n = t.name /\ x = t.data
  BY DEF TensorCells
<1>6. PICK ld \in Nat, ln \in Nat, lx \in Nat : ld = Len(d) /\ ln = Len(n) /\ lx = Len(x)
  OBVIOUS
<1>7. p = ((h \o d) \o n) \o x
  BY <1>4, <1>5
<1>8. PICK hd \in Seq(Cells) : hd = h \o d /\ Len(hd) = 8 + ld
  <2>1. h \o d \in Seq(Cells) /\ Len(h \o d) = Len(h) + Len(d)
    BY <1>2, ConcatProperties
  <2>2. QED
    BY <1>2, <1>6, <2>1
<1>9. PICK hdn \in Seq(Cells) : hdn = hd \o n /\ Len(hdn) = 8 + ld + ln
  <2>1. hd \o n \in Seq(Cells) /\ Len(hd \o n) = Len(hd) + Len(n)
    BY ConcatProperties
  <2>2. QED
    BY <1>6, <1>8, <2>1
<1>10. PICK r \in Seq(Cells) : r = n \o x
  BY ConcatProperties
<1>11. p = hdn \o x /\ p = hd \o r
  <2>1. p = (hd \o n) \o x
    BY <1>7, <1>8, Zenon
  <2>2. (hd \o n) \o x = hd \o (n \o x)
    BY ConcatAssociative, SMTT(30)
  <2>3. QED
    BY <1>9, <1>10, <2>1, <2>2, Zenon
<1>12. /\ p \in Seq(Cells) /\ Len(p) = 8 + ld + ln + lx
       /\ SubSeq(p, 8 + ld + 1, 8 + ld + ln) = n
  <2> DEFINE q == (hd \o n) \o x
  <2>1. /\ q \in Seq(Cells) /\ Len(q) = Len(hd) + Len(n) + Len(x)
        /\ SubSeq(q, Len(hd) + 1, Len(hd) + Len(n)) = n
    BY Pieces
  <2>2. q = p
    BY <1>9, <1>11
  <2> HIDE DEF q
  <2>3. QED
    BY <1>6, <1>8, <2>1, <2>2
<1>13. (\A i \in 1 .. 8 : p[i] = h[i]) /\ SubSeq(p, 9, 8 + ld) = d
  <2> DEFINE q == (h \o d) \o r
  <2>0. h \in Seq(Cells)
    BY <1>2
  <2>1. /\ \A i \in 1 .. Len(h) : q[i] = h[i]
        /\ SubSeq(q, Len(h) + 1, Len(h) + Len(d)) = d
    BY <2>0, Pieces
  <2>2. q = p
    BY <1>8, <1>11
  <2> HIDE DEF q
  <2>3. QED
    BY <1>2, <1>6, <2>1, <2>2
<1>a. SubSeq(p, 8 + ld + ln + 1, Len(p)) = x
  <2> DEFINE none == <<>>
           q == (hdn \o x) \o none
  <2>1. none \in Seq(Cells) /\ p \o none = p
    BY <1>12, ConcatEmptySeq
  <2> HIDE DEF none
  <2>2. SubSeq(q, Len(hdn) + 1, Len(hdn) + Len(x)) = x
    BY <2>1, Pieces
  <2>3. q = p
    BY <1>11, <2>1
  <2> HIDE DEF q
  <2>4. QED
    BY <1>6, <1>9, <1>12, <2>2, <2>3
<1>14. /\ p[1] = t.type /\ p[2] = Len(t.dims) /\ p[3] = 0 /\ p[4] = ElementCount(t.dims)
       /\ p[5] = Len(t.data) /\ p[6] = Hash(t.data) /\ p[7] = Len(t.name) /\ p[8] = 0
  BY <1>3, <1>13
<1>15. p[2] = ld /\ p[7] = ln /\ Len(t.dims) = ld /\ Len(t.name) = ln /\ Len(t.data) = lx
  BY <1>5, <1>6, <1>14
<1>16. Metadata(p) = 8 + ld + ln /\ Rank(p) = ld
  BY <1>15 DEF Metadata, Rank, NameLen
<1>17. DimsOf(p) = d /\ NameOf(p) = n /\ DataOf(p) = x
  <2>1. 9 + ld = 8 + ld + 1
    OBVIOUS
  <2>2. QED
    BY <2>1, <1>12, <1>13, <1>a, <1>16 DEF DimsOf, NameOf, DataOf
<1>18. QED
  BY <1>5, <1>12, <1>14, <1>15, <1>16, <1>17

\* A payload in which the lengths leave room is the first eight cells and the
\* pieces read behind them.
LEMMA TensorSplit ==
  ASSUME NEW p \in Seq(Cells), 8 <= Len(p), Metadata(p) <= Len(p)
  PROVE  /\ \A i \in 1 .. 8 : p[i] \in Cells
         /\ DimsOf(p) \in Seq(Cells) /\ NameOf(p) \in Seq(Cells) /\ DataOf(p) \in Seq(Cells)
         /\ Len(DimsOf(p)) = p[2] /\ Len(NameOf(p)) = p[7]
         /\ Len(DataOf(p)) = Len(p) - Metadata(p)
         /\ p = <<p[1], p[2], p[3], p[4], p[5], p[6], p[7], p[8]>>
                  \o DimsOf(p) \o NameOf(p) \o DataOf(p)
<1>1. PICK n \in Nat : n = Len(p)
  OBVIOUS
<1>2. \A i \in 1 .. 8 : p[i] \in Cells
  BY <1>1
<1>3. PICK r \in Nat, l \in Nat : r = p[2] /\ l = p[7]
  <2>1. p[2] \in Nat /\ p[7] \in Nat
    BY <1>2, CellFacts
  <2>2. QED
    BY <2>1
<1>4. Metadata(p) = 8 + r + l /\ 8 + r + l <= n /\ Rank(p) = r
  BY <1>1, <1>3 DEF Metadata, Rank, NameLen
<1>5. /\ SubSeq(p, 8 + 1, 8 + r) \in Seq(Cells) /\ Len(SubSeq(p, 8 + 1, 8 + r)) = 8 + r - 8
      /\ SubSeq(p, 1, 8 + r) = SubSeq(p, 1, 8) \o SubSeq(p, 8 + 1, 8 + r)
  <2>1. 8 \in Nat /\ 8 + r \in Nat /\ 8 <= 8 + r /\ 8 + r <= Len(p)
    BY <1>1, <1>4
  <2>2. QED
    BY <2>1, CutInTwo
<1>6. /\ SubSeq(p, 8 + r + 1, 8 + r + l) \in Seq(Cells)
      /\ Len(SubSeq(p, 8 + r + 1, 8 + r + l)) = 8 + r + l - (8 + r)
      /\ SubSeq(p, 1, 8 + r + l) = SubSeq(p, 1, 8 + r) \o SubSeq(p, 8 + r + 1, 8 + r + l)
  <2>1. 8 + r \in Nat /\ 8 + r + l \in Nat /\ 8 + r <= 8 + r + l /\ 8 + r + l <= Len(p)
    BY <1>1, <1>4
  <2>2. QED
    BY <2>1, CutInTwo
<1>7. /\ SubSeq(p, 8 + r + l + 1, n) \in Seq(Cells)
      /\ Len(SubSeq(p, 8 + r + l + 1, n)) = n - (8 + r + l)
      /\ SubSeq(p, 1, n) = SubSeq(p, 1, 8 + r + l) \o SubSeq(p, 8 + r + l + 1, n)
  <2>1. 8 + r + l \in Nat /\ n \in Nat /\ 8 + r + l <= n /\ n <= Len(p)
    BY <1>1, <1>4
  <2>2. QED
    BY <2>1, CutInTwo
<1>8. SubSeq(p, 1, n) = p
  BY <1>1, SubSeqFull
<1>9. SubSeq(p, 1, 8) = <<p[1], p[2], p[3], p[4], p[5], p[6], p[7], p[8]>>
  <2> DEFINE f == SubSeq(p, 0 + 1, 8)
             h == <<p[1], p[2], p[3], p[4], p[5], p[6], p[7], p[8]>>
  <2>1. 0 \in Nat /\ 8 \in Nat /\ 0 <= 8 /\ 8 <= Len(p)
    OBVIOUS
  <2>2. f \in Seq(Cells) /\ Len(f) = 8 - 0 /\ \A i \in 1 .. 8 - 0 : f[i] = p[0 + i]
    BY <2>1, CutInTwo
  <2>3. h \in Seq(Cells) /\ Len(h) = 8
    BY <1>2, EightCells
  <2>4. /\ h[1] = p[1] /\ h[2] = p[2] /\ h[3] = p[3] /\ h[4] = p[4]
        /\ h[5] = p[5] /\ h[6] = p[6] /\ h[7] = p[7] /\ h[8] = p[8]
    OBVIOUS
  <2> HIDE DEF f, h
  <2>5. \A i \in 1 .. 8 : f[i] = h[i]
    <3>1. ASSUME NEW i \in 1 .. 8 PROVE f[i] = h[i]
      <4>1. 0 + i = i /\ i \in 1 .. 8 - 0
        OBVIOUS
      <4>2. f[i] = p[i]
        BY <2>2, <4>1
      <4>3. i = 1 \/ i = 2 \/ i = 3 \/ i = 4 \/ i = 5 \/ i = 6 \/ i = 7 \/ i = 8
        OBVIOUS
      <4>4. QED
        BY <2>4, <4>2, <4>3
    <3>2. QED
      BY <3>1
  <2>6. f = h
    <3>1. Len(f) = 8
      BY <2>2
    <3>2. Len(f) = Len(h) /\ \A i \in 1 .. Len(f) : f[i] = h[i]
      BY <2>3, <2>5, <3>1
    <3>3. QED
      BY <2>2, <2>3, <3>2, SeqEqual
  <2>7. 0 + 1 = 1
    OBVIOUS
  <2>8. QED
    BY <2>6, <2>7 DEF f, h
<1>10. DimsOf(p) = SubSeq(p, 8 + 1, 8 + r) /\ NameOf(p) = SubSeq(p, 8 + r + 1, 8 + r + l)
       /\ DataOf(p) = SubSeq(p, 8 + r + l + 1, n)
  <2>1. 9 = 8 + 1 /\ 9 + r = 8 + r + 1
    OBVIOUS
  <2>2. QED
    BY <1>1, <1>4, <2>1, Zenon DEF DimsOf, NameOf, DataOf
<1>11. p = <<p[1], p[2], p[3], p[4], p[5], p[6], p[7], p[8]>>
            \o DimsOf(p) \o NameOf(p) \o DataOf(p)
  BY <1>5, <1>6, <1>7, <1>8, <1>9, <1>10, Zenon
<1>12. Len(DimsOf(p)) = r /\ Len(NameOf(p)) = l /\ Len(DataOf(p)) = n - Metadata(p)
  <2>1. 8 + r - 8 = r /\ 8 + r + l - (8 + r) = l
    OBVIOUS
  <2>2. QED
    BY <1>4, <1>5, <1>6, <1>7, <1>10, <2>1, Zenon
<1>13. QED
  BY <1>1, <1>2, <1>3, <1>5, <1>6, <1>7, <1>10, <1>11, <1>12, Zenon

\* A sequence in front of another.
LEMMA HeadAndRest ==
  ASSUME NEW S, NEW h \in Seq(S), NEW x \in Seq(S)
  PROVE  /\ h \o x \in Seq(S) /\ Len(h \o x) = Len(h) + Len(x)
         /\ \A i \in 1 .. Len(h) : (h \o x)[i] = h[i]
         /\ SubSeq(h \o x, Len(h) + 1, Len(h) + Len(x)) = x
<1> DEFINE none == <<>>
           q == (h \o x) \o none
<1>1. none \in Seq(S) /\ q = h \o x
  <2>1. h \o x \in Seq(S)
    BY ConcatProperties
  <2>2. QED
    BY <2>1, ConcatEmptySeq
<1>2. h \o x \in Seq(S) /\ Len(h \o x) = Len(h) + Len(x)
  BY ConcatProperties
<1> HIDE DEF none
<1>3. /\ \A i \in 1 .. Len(h) : q[i] = h[i]
      /\ SubSeq(q, Len(h) + 1, Len(h) + Len(x)) = x
  BY <1>1, Pieces
<1> HIDE DEF q
<1>4. QED
  BY <1>1, <1>2, <1>3, Zenon

\* What the phone reads of the payload of a layer range is the range.
LEMMA RangePieces ==
  ASSUME NEW r, RangeCells(r), NEW p, p = RangePayload(r)
  PROVE  /\ p \in Seq(Cells) /\ Len(p) = 12 + Len(r.input)
         /\ p[1] = r.first /\ p[2] = r.last /\ p[3] = r.position /\ p[4] = r.max_context
         /\ p[5] = Len(r.input) /\ p[6] = r.ffn /\ p[7] = r.heads /\ p[8] = r.kv_heads
         /\ p[9] = r.head_dim /\ p[10] = r.epsilon /\ p[11] = r.theta
         /\ p[12] = Hash(r.input)
         /\ SubSeq(p, 13, Len(p)) = r.input
<1> DEFINE h == <<r.first, r.last, r.position, r.max_context, Len(r.input), r.ffn, r.heads,
                  r.kv_heads, r.head_dim, r.epsilon, r.theta, Hash(r.input)>>
<1>1. Hash(r.input) \in Cells
  BY HashIsCell DEF RangeCells
<1>2. h \in Seq(Cells) /\ Len(h) = 12
  BY <1>1, TwelveCells DEF RangeCells
<1>3. /\ h[1] = r.first /\ h[2] = r.last /\ h[3] = r.position /\ h[4] = r.max_context
      /\ h[5] = Len(r.input) /\ h[6] = r.ffn /\ h[7] = r.heads /\ h[8] = r.kv_heads
      /\ h[9] = r.head_dim /\ h[10] = r.epsilon /\ h[11] = r.theta
      /\ h[12] = Hash(r.input)
  OBVIOUS
<1>4. p = h \o r.input
  BY DEF RangePayload
<1> HIDE DEF h
<1>5. PICK x \in Seq(Cells), n \in Nat : x = r.input /\ n = Len(x)
  BY DEF RangeCells
<1>6. /\ h \o x \in Seq(Cells) /\ Len(h \o x) = Len(h) + Len(x)
      /\ \A i \in 1 .. Len(h) : (h \o x)[i] = h[i]
      /\ SubSeq(h \o x, Len(h) + 1, Len(h) + Len(x)) = x
  <2>1. h \in Seq(Cells)
    BY <1>2
  <2>2. QED
    BY <2>1, HeadAndRest
<1>7. p = h \o x
  BY <1>4, <1>5
<1>8. /\ p \in Seq(Cells) /\ Len(p) = Len(h) + Len(x)
      /\ \A i \in 1 .. Len(h) : p[i] = h[i]
      /\ SubSeq(p, Len(h) + 1, Len(h) + Len(x)) = x
  BY <1>6, <1>7, Zenon
<1>9. /\ Len(p) = 12 + n
      /\ \A i \in 1 .. 12 : p[i] = h[i]
      /\ SubSeq(p, 13, Len(p)) = x
  BY <1>2, <1>5, <1>8
<1>10. QED
  BY <1>3, <1>5, <1>8, <1>9, SMTT(30)

\* A payload of at least twelve cells is twelve cells and the rest.
LEMMA RangeSplit ==
  ASSUME NEW p \in Seq(Cells), 12 <= Len(p)
  PROVE  /\ \A i \in 1 .. 12 : p[i] \in Cells
         /\ SubSeq(p, 13, Len(p)) \in Seq(Cells)
         /\ Len(SubSeq(p, 13, Len(p))) = Len(p) - 12
         /\ p = <<p[1], p[2], p[3], p[4], p[5], p[6], p[7], p[8], p[9], p[10], p[11], p[12]>>
                  \o SubSeq(p, 13, Len(p))
<1>1. PICK n \in Nat : n = Len(p)
  OBVIOUS
<1>2. \A i \in 1 .. 12 : p[i] \in Cells
  BY <1>1
<1>3. /\ SubSeq(p, 12 + 1, n) \in Seq(Cells) /\ Len(SubSeq(p, 12 + 1, n)) = n - 12
      /\ SubSeq(p, 1, n) = SubSeq(p, 1, 12) \o SubSeq(p, 12 + 1, n)
  <2>1. 12 \in Nat /\ n \in Nat /\ 12 <= n /\ n <= Len(p)
    BY <1>1
  <2>2. QED
    BY <2>1, CutInTwo
<1>4. SubSeq(p, 1, n) = p
  BY <1>1, SubSeqFull
<1> DEFINE f == SubSeq(p, 0 + 1, 12)
           h == <<p[1], p[2], p[3], p[4], p[5], p[6], p[7], p[8], p[9], p[10], p[11], p[12]>>
<1>5. f = h
  <2>1. 0 \in Nat /\ 12 \in Nat /\ 0 <= 12 /\ 12 <= Len(p)
    OBVIOUS
  <2>2. f \in Seq(Cells) /\ Len(f) = 12 - 0 /\ \A i \in 1 .. 12 - 0 : f[i] = p[0 + i]
    BY <2>1, CutInTwo
  <2>3. h \in Seq(Cells) /\ Len(h) = 12
    BY <1>2, TwelveCells
  <2>4. /\ h[1] = p[1] /\ h[2] = p[2] /\ h[3] = p[3] /\ h[4] = p[4]
        /\ h[5] = p[5] /\ h[6] = p[6] /\ h[7] = p[7] /\ h[8] = p[8]
        /\ h[9] = p[9] /\ h[10] = p[10] /\ h[11] = p[11] /\ h[12] = p[12]
    OBVIOUS
  <2> HIDE DEF f, h
  <2>5. \A i \in 1 .. 12 : f[i] = h[i]
    <3>1. ASSUME NEW i \in 1 .. 12 PROVE f[i] = h[i]
      <4>1. 0 + i = i /\ i \in 1 .. 12 - 0
        OBVIOUS
      <4>2. f[i] = p[i]
        BY <2>2, <4>1
      <4>3. \/ i = 1 \/ i = 2 \/ i = 3 \/ i = 4 \/ i = 5 \/ i = 6
            \/ i = 7 \/ i = 8 \/ i = 9 \/ i = 10 \/ i = 11 \/ i = 12
        OBVIOUS
      <4>4. QED
        BY <2>4, <4>2, <4>3
    <3>2. QED
      BY <3>1
  <2>6. Len(f) = 12
    BY <2>2
  <2>7. Len(f) = Len(h) /\ \A i \in 1 .. Len(f) : f[i] = h[i]
    BY <2>3, <2>5, <2>6
  <2>8. QED
    BY <2>2, <2>3, <2>7, SeqEqual
<1>6. SubSeq(p, 1, 12) = h
  <2>1. 0 + 1 = 1
    OBVIOUS
  <2> HIDE DEF h
  <2>2. QED
    BY <1>5, <2>1 DEF f
<1>7. 12 + 1 = 13
  OBVIOUS
<1>8. QED
  BY <1>1, <1>2, <1>3, <1>4, <1>6, <1>7, Zenon

-----------------------------------------------------------------------------
(* The calls, their payloads and what the phone makes of them. *)

\* What a call of each kind is made of.
LEMMA CallFacts ==
  ASSUME NEW c \in Calls
  PROVE  \/ /\ c.kind = "tensor" /\ TensorCells(c)
            /\ c = [kind |-> "tensor", type |-> c.type, dims |-> c.dims, name |-> c.name,
                    data |-> c.data]
         \/ /\ c.kind = "range" /\ RangeCells(c)
            /\ c = [kind |-> "range", first |-> c.first, last |-> c.last,
                    position |-> c.position, max_context |-> c.max_context, ffn |-> c.ffn,
                    heads |-> c.heads, kv_heads |-> c.kv_heads, head_dim |-> c.head_dim,
                    epsilon |-> c.epsilon, theta |-> c.theta, input |-> c.input]
         \/ \E b \in Cells : c = [kind |-> "hello", minimum |-> ProtocolVersion,
                                  maximum |-> ProtocolVersion, backend |-> b]
<1>1. CASE c \in {[kind |-> "tensor", type |-> t.type, dims |-> t.dims, name |-> t.name,
                    data |-> t.data] : t \in Tensors}
  <2>1. PICK t \in Tensors : c = [kind |-> "tensor", type |-> t.type, dims |-> t.dims,
                                  name |-> t.name, data |-> t.data]
    BY <1>1
  <2>2. /\ t.type \in Cells /\ t.dims \in Seq(Cells) /\ t.name \in Seq(Cells)
        /\ t.data \in Seq(Cells)
        /\ Len(t.dims) \in Cells /\ Len(t.name) \in Cells /\ Len(t.data) \in Cells
    <3>1. \A s \in {t.dims, t.name, t.data} : s \in Seq(Cells) /\ Len(s) \in Cells
      BY CallsAssumption
    <3>2. QED
      BY <3>1, CallsAssumption
  <2>3. QED
    BY <2>1, <2>2 DEF TensorCells
<1>2. CASE c \in {[kind |-> "range", first |-> r.first, last |-> r.last,
                    position |-> r.position, max_context |-> r.max_context, ffn |-> r.ffn,
                    heads |-> r.heads, kv_heads |-> r.kv_heads, head_dim |-> r.head_dim,
                    epsilon |-> r.epsilon, theta |-> r.theta, input |-> r.input] : r \in Ranges}
  <2>1. PICK r \in Ranges :
          c = [kind |-> "range", first |-> r.first, last |-> r.last,
               position |-> r.position, max_context |-> r.max_context, ffn |-> r.ffn,
               heads |-> r.heads, kv_heads |-> r.kv_heads, head_dim |-> r.head_dim,
               epsilon |-> r.epsilon, theta |-> r.theta, input |-> r.input]
    BY <1>2
  <2>2. RangeCells(r)
    <3>1. {r.first, r.last, r.position, r.max_context, r.ffn, r.heads, r.kv_heads, r.head_dim,
           r.epsilon, r.theta} \subseteq Cells
      BY CallsAssumption
    <3>2. r.input \in Seq(Cells) /\ Len(r.input) \in Cells
      BY CallsAssumption
    <3>3. QED
      BY <3>1, <3>2 DEF RangeCells
  <2>3. QED
    BY <2>1, <2>2 DEF RangeCells
<1>3. CASE c \in {[kind |-> "hello", minimum |-> ProtocolVersion, maximum |-> ProtocolVersion,
                    backend |-> b] : b \in Backends}
  BY <1>3, PayloadsAssumption
<1>4. QED
  BY <1>1, <1>2, <1>3 DEF Calls

\* The phone accepts the tensor the client may send if it has data and a
\* number of elements that is not zero and fits a word, and only then.
LEMMA TensorSent ==
  ASSUME NEW t, TensorCells(t), MaySendTensor(t), NEW p, p = TensorPayload(t)
  PROVE  TensorAccepted(p) <=> t.data # <<>> /\ Product(t.dims) \in 1 .. Word - 1
<1>1. PICK ld \in Nat, ln \in Nat, lx \in Nat :
        ld = Len(t.dims) /\ ln = Len(t.name) /\ lx = Len(t.data)
  <2>1. Len(t.dims) \in Nat /\ Len(t.name) \in Nat /\ Len(t.data) \in Nat
    BY CellFacts DEF TensorCells
  <2>2. QED
    BY <2>1
<1>2. /\ Len(p) = 8 + ld + ln + lx /\ p[2] = ld /\ p[3] = 0 /\ p[4] = ElementCount(t.dims)
      /\ p[5] = lx /\ p[6] = Hash(t.data) /\ p[7] = ln /\ p[8] = 0
      /\ Metadata(p) = 8 + ld + ln /\ DimsOf(p) = t.dims /\ DataOf(p) = t.data
  BY <1>1, TensorPieces
<1>3. ld \in 1 .. MaxRank /\ ln \in 1 .. MaxName /\ Len(p) <= MaxPayload
  BY <1>1 DEF MaySendTensor
<1>4. lx \in 1 .. MaxPayload <=> lx # 0
  BY <1>2, <1>3, PayloadsAssumption
<1>5. lx # 0 <=> t.data # <<>>
  BY <1>1, EmptySeq DEF TensorCells
<1>6. Counted(t.dims) = ElementCount(t.dims) <=> Product(t.dims) \in 1 .. Word - 1
  <2>1. PICK x \in Nat : x = Product(t.dims)
    BY CountedIsProduct DEF TensorCells
  <2>2. IF x \in 1 .. Word - 1 THEN Counted(t.dims) = x ELSE Counted(t.dims) = None
    BY <2>1, CountedIsProduct DEF TensorCells
  <2>3. ElementCount(t.dims) = x % Word /\ ElementCount(t.dims) \in Cells
    BY <2>1, ElementCountIsCell DEF ElementCount, TensorCells
  <2>4. x \in 1 .. Word - 1 => x % Word = x
    <3>1. Word \in Nat
      BY CellFacts
    <3>2. x \in 1 .. Word - 1 => x < Word
      BY <3>1
    <3>3. QED
      BY <3>1, <3>2, BelowWord
  <2>5. None \notin Cells
    BY CellFacts
  <2>6. QED
    BY <2>1, <2>2, <2>3, <2>4, <2>5, Zenon
<1>7. DataFits(p)
  <2>1. 8 + ld + ln <= 8 + ld + ln + lx /\ lx = 8 + ld + ln + lx - (8 + ld + ln)
    OBVIOUS
  <2>2. QED
    BY <1>2, <2>1 DEF DataFits
<1>8. 8 + ld + ln + lx >= 8
  OBVIOUS
<1>9. QED
  BY <1>2, <1>3, <1>4, <1>5, <1>6, <1>7, <1>8, Zenon DEF TensorAccepted, Rank, NameLen

\* What it accepts is the payload of what it decodes, and the count of the
\* elements in it is the product of the dimensions.
LEMMA TensorExact ==
  ASSUME NEW p \in Seq(Cells), TensorAccepted(p), NEW t, t = TensorDecoded(p)
  PROVE  /\ TensorCells(t) /\ t.kind = "tensor"
         /\ TensorPayload(t) = p /\ Product(t.dims) = p[4]
<1>1. PICK n \in Nat : n = Len(p)
  OBVIOUS
<1>2. /\ n >= 8 /\ p[3] = 0 /\ p[8] = 0 /\ Metadata(p) <= n /\ p[5] = n - Metadata(p)
      /\ Counted(DimsOf(p)) = p[4] /\ Hash(DataOf(p)) = p[6]
  BY <1>1 DEF TensorAccepted, DataFits
<1>3. /\ t.kind = "tensor" /\ t.type = p[1]
      /\ t.dims = DimsOf(p) /\ t.name = NameOf(p) /\ t.data = DataOf(p)
  BY DEF TensorDecoded
<1>4. /\ \A i \in 1 .. 8 : p[i] \in Cells
      /\ DimsOf(p) \in Seq(Cells) /\ NameOf(p) \in Seq(Cells) /\ DataOf(p) \in Seq(Cells)
      /\ Len(DimsOf(p)) = p[2] /\ Len(NameOf(p)) = p[7]
      /\ Len(DataOf(p)) = Len(p) - Metadata(p)
      /\ p = <<p[1], p[2], p[3], p[4], p[5], p[6], p[7], p[8]>>
               \o DimsOf(p) \o NameOf(p) \o DataOf(p)
  <2>1. 8 <= Len(p) /\ Metadata(p) <= Len(p)
    BY <1>1, <1>2
  <2>2. QED
    BY <2>1, TensorSplit
<1>5. TensorCells(t)
  <2>1. p[1] \in Cells /\ p[2] \in Cells /\ p[5] \in Cells /\ p[7] \in Cells
    BY <1>4
  <2>2. QED
    BY <1>1, <1>2, <1>3, <1>4, <2>1, Zenon DEF TensorCells
<1>6. Product(t.dims) = p[4] /\ ElementCount(t.dims) = p[4]
  <2>1. PICK x \in Nat : x = Product(DimsOf(p))
    BY <1>4, CountedIsProduct
  <2>2. IF x \in 1 .. Word - 1 THEN Counted(DimsOf(p)) = x ELSE Counted(DimsOf(p)) = None
    BY <1>4, <2>1, CountedIsProduct
  <2>3. p[4] \in Cells /\ p[4] # None
    BY <1>4, CellFacts
  <2>4. x = p[4] /\ x < Word
    BY <1>2, <2>2, <2>3, CellFacts
  <2>5. x % Word = x
    BY <2>4, BelowWord, CellFacts
  <2>6. QED
    BY <1>3, <2>1, <2>4, <2>5 DEF ElementCount
<1>7. TensorPayload(t) = p
  BY <1>1, <1>2, <1>3, <1>4, <1>6, Zenon DEF TensorPayload
<1>8. QED
  BY <1>3, <1>5, <1>6, <1>7

\* A number is a multiple of another, below the word, if it leaves no remainder.
LEMMA GroupsExist ==
  ASSUME NEW h \in Cells, NEW k \in Cells, k # 0
  PROVE  h % k = 0 <=> \E group \in Cells : h = group * k
<1>1. h \in Nat /\ h < Word /\ k \in Nat \ {0} /\ Word \in Nat
  BY CellFacts
<1>2. ASSUME h % k = 0 PROVE \E group \in Cells : h = group * k
  <2>1. PICK q \in Nat : q = h \div k
    BY <1>1
  <2>2. h = q * k
    BY <1>1, <1>2, <2>1
  <2>3. q <= q * k
    BY <1>1, <2>1
  <2>4. q \in Cells
    <3>1. q < Word
      BY <1>1, <2>2, <2>3
    <3>2. QED
      BY <3>1, CellFacts
  <2>5. QED
    BY <2>2, <2>4
<1>3. ASSUME NEW group \in Cells, h = group * k PROVE h % k = 0
  <2>1. group \in Nat
    BY CellFacts
  <2>2. \A g \in Nat, m \in Nat \ {0} : (g * m) % m = 0
    OBVIOUS
  <2>3. QED
    BY <1>1, <1>3, <2>1, <2>2
<1>4. QED
  BY <1>2, <1>3

\* The phone accepts the layer range the client may send if it can be carried
\* out, and only then.
LEMMA RangeSent ==
  ASSUME NEW r, RangeCells(r), r.first <= r.last, NEW p, p = RangePayload(r)
  PROVE  RangeAccepted(p) <=>
           /\ ~ (r.position >= r.max_context) /\ r.input # <<>>
           /\ 0 \notin {r.ffn, r.heads, r.kv_heads, r.head_dim, r.epsilon, r.theta}
           /\ \E group \in Cells : r.heads = group * r.kv_heads
<1>1. PICK n \in Nat : n = Len(r.input)
  BY CellFacts DEF RangeCells
<1>2. /\ Len(p) = 12 + n
      /\ p[1] = r.first /\ p[2] = r.last /\ p[3] = r.position /\ p[4] = r.max_context
      /\ p[5] = n /\ p[6] = r.ffn /\ p[7] = r.heads /\ p[8] = r.kv_heads
      /\ p[9] = r.head_dim /\ p[10] = r.epsilon /\ p[11] = r.theta
      /\ p[12] = Hash(r.input) /\ SubSeq(p, 13, Len(p)) = r.input
  BY <1>1, RangePieces, SMTT(30)
<1>3. /\ r.position \in Nat /\ r.max_context \in Nat /\ r.epsilon \in Nat /\ r.theta \in Nat
  BY CellFacts DEF RangeCells
<1>4. n # 0 <=> r.input # <<>>
  BY <1>1, EmptySeq DEF RangeCells
<1>5. r.max_context # 0 /\ r.position < r.max_context <=> ~ (r.position >= r.max_context)
  BY <1>3
<1>6. (\A i \in 5 .. 9 : p[i] # 0) <=>
        n # 0 /\ r.ffn # 0 /\ r.heads # 0 /\ r.kv_heads # 0 /\ r.head_dim # 0
  <2>1. (\A i \in 5 .. 9 : p[i] # 0) <=>
          p[5] # 0 /\ p[6] # 0 /\ p[7] # 0 /\ p[8] # 0 /\ p[9] # 0
    <3>1. 5 .. 9 = {5, 6, 7, 8, 9}
      OBVIOUS
    <3>2. QED
      BY <3>1, Zenon
  <2>2. QED
    BY <1>2, <2>1
<1>7. r.kv_heads # 0 =>
        (r.heads % r.kv_heads = 0 <=> \E group \in Cells : r.heads = group * r.kv_heads)
  BY GroupsExist DEF RangeCells
<1>8. (r.epsilon > 0 <=> r.epsilon # 0) /\ (r.theta > 0 <=> r.theta # 0) /\ 12 + n >= 12
  BY <1>3
<1>9. QED
  BY <1>2, <1>4, <1>5, <1>6, <1>7, <1>8, Zenon DEF RangeAccepted

\* What it accepts is the payload of what it decodes.
LEMMA RangeExact ==
  ASSUME NEW p \in Seq(Cells), RangeAccepted(p), NEW r, r = RangeDecoded(p)
  PROVE  RangeCells(r) /\ r.kind = "range" /\ RangePayload(r) = p
<1>1. PICK n \in Nat : n = Len(p)
  OBVIOUS
<1>2. n >= 12 /\ 12 + p[5] = n /\ Hash(SubSeq(p, 13, Len(p))) = p[12]
  BY <1>1 DEF RangeAccepted
<1>3. /\ r.first = p[1] /\ r.last = p[2] /\ r.position = p[3] /\ r.max_context = p[4]
      /\ r.ffn = p[6] /\ r.heads = p[7] /\ r.kv_heads = p[8] /\ r.head_dim = p[9]
      /\ r.epsilon = p[10] /\ r.theta = p[11] /\ r.input = SubSeq(p, 13, Len(p))
      /\ r.kind = "range"
  BY DEF RangeDecoded
<1>4. /\ \A i \in 1 .. 12 : p[i] \in Cells
      /\ SubSeq(p, 13, Len(p)) \in Seq(Cells)
      /\ Len(SubSeq(p, 13, Len(p))) = Len(p) - 12
      /\ p = <<p[1], p[2], p[3], p[4], p[5], p[6], p[7], p[8], p[9], p[10], p[11], p[12]>>
               \o SubSeq(p, 13, Len(p))
  <2>1. 12 <= Len(p)
    BY <1>1, <1>2
  <2>2. QED
    BY <2>1, RangeSplit
<1>5. Len(r.input) = p[5]
  <2>1. p[5] \in Nat
    BY <1>4, CellFacts, SMTT(30)
  <2>2. n - 12 = p[5]
    BY <1>2, <2>1
  <2>3. QED
    BY <1>1, <1>3, <1>4, <2>2
<1>6. RangeCells(r)
  <2>1. /\ p[1] \in Cells /\ p[2] \in Cells /\ p[3] \in Cells /\ p[4] \in Cells
        /\ p[5] \in Cells /\ p[6] \in Cells /\ p[7] \in Cells /\ p[8] \in Cells
        /\ p[9] \in Cells /\ p[10] \in Cells /\ p[11] \in Cells
    BY <1>4
  <2>2. QED
    BY <1>3, <1>4, <1>5, <2>1, Zenon DEF RangeCells
<1>7. RangePayload(r) = p
  BY <1>2, <1>3, <1>4, <1>5, Zenon DEF RangePayload
<1>8. QED
  BY <1>3, <1>6, <1>7

\* What the client reads of the answer to a tensor.
LEMMA TensorAnswer ==
  ASSUME NEW t, TensorCells(t), NEW p, p = TensorLoadedPayload(t, 1, 1)
  PROVE  /\ p \in Seq(Cells) /\ Len(p) = 7 + Len(t.name)
         /\ p[2] = t.type /\ p[3] = Len(t.data) /\ p[5] = Hash(t.data) /\ p[6] = Len(t.name)
         /\ SubSeq(p, 8, 7 + Len(t.name)) = t.name
<1> DEFINE h == <<1, t.type, Len(t.data), 1, Hash(t.data), Len(t.name), 0>>
<1>1. 0 \in Cells /\ 1 \in Cells /\ Hash(t.data) \in Cells
  <2>1. 0 \in Cells /\ 1 \in Cells
    BY CellFacts
  <2>2. QED
    BY <2>1, HashIsCell DEF TensorCells
<1>2. h \in Seq(Cells) /\ Len(h) = 7
  BY <1>1 DEF TensorCells
<1>3. /\ h[2] = t.type /\ h[3] = Len(t.data) /\ h[5] = Hash(t.data) /\ h[6] = Len(t.name)
  OBVIOUS
<1>4. p = h \o t.name
  BY DEF TensorLoadedPayload
<1> HIDE DEF h
<1>5. PICK x \in Seq(Cells), n \in Nat : x = t.name /\ n = Len(x)
  BY DEF TensorCells
<1>6. /\ h \o x \in Seq(Cells) /\ Len(h \o x) = Len(h) + Len(x)
      /\ \A i \in 1 .. Len(h) : (h \o x)[i] = h[i]
      /\ SubSeq(h \o x, Len(h) + 1, Len(h) + Len(x)) = x
  <2>1. h \in Seq(Cells)
    BY <1>2
  <2>2. QED
    BY <2>1, HeadAndRest
<1>7. p = h \o x
  BY <1>4, <1>5
<1>8. /\ p \in Seq(Cells) /\ Len(p) = Len(h) + Len(x)
      /\ \A i \in 1 .. Len(h) : p[i] = h[i]
      /\ SubSeq(p, Len(h) + 1, Len(h) + Len(x)) = x
  BY <1>6, <1>7, Zenon
<1>9. /\ Len(p) = 7 + n
      /\ \A i \in 1 .. 7 : p[i] = h[i]
      /\ SubSeq(p, 8, 7 + n) = x
  BY <1>2, <1>5, <1>8
<1>10. QED
  BY <1>3, <1>5, <1>8, <1>9

\* What the client reads of the answer to a layer range.
LEMMA RangeAnswer ==
  ASSUME NEW r, RangeCells(r), NEW output \in [1 .. Len(r.input) -> {0, Word - 1}],
         NEW p, p = ResultPayload(r, output, 1)
  PROVE  /\ p \in Seq(Cells) /\ Len(p) = 6 + Len(r.input)
         /\ p[1] = r.first /\ p[2] = r.last /\ p[3] = r.position
         /\ p[4] = Len(r.input) /\ p[5] = Hash(output)
         /\ SubSeq(p, 7, Len(p)) = output /\ output \in Seq(Cells)
<1> DEFINE h == <<r.first, r.last, r.position, Len(output), Hash(output), 1>>
<1>1. 1 \in Cells /\ 0 \in Cells /\ Word - 1 \in Cells
  BY CellFacts
<1>2. PICK n \in Nat : n = Len(r.input)
  BY CellFacts DEF RangeCells
<1>3. output \in Seq(Cells) /\ Len(output) = n
  <2>1. output \in [1 .. n -> Cells]
    BY <1>1, <1>2
  <2>2. QED
    BY <2>1
<1>4. h \in Seq(Cells) /\ Len(h) = 6
  <2>1. Len(output) \in Cells /\ Hash(output) \in Cells
    BY <1>2, <1>3, HashIsCell DEF RangeCells
  <2>2. QED
    BY <1>1, <2>1 DEF RangeCells
<1>5. /\ h[1] = r.first /\ h[2] = r.last /\ h[3] = r.position
      /\ h[4] = Len(output) /\ h[5] = Hash(output)
  OBVIOUS
<1>6. p = h \o output
  BY DEF ResultPayload
<1> HIDE DEF h
<1>7. /\ h \o output \in Seq(Cells) /\ Len(h \o output) = Len(h) + Len(output)
      /\ \A i \in 1 .. Len(h) : (h \o output)[i] = h[i]
      /\ SubSeq(h \o output, Len(h) + 1, Len(h) + Len(output)) = output
  <2>1. h \in Seq(Cells) /\ output \in Seq(Cells)
    BY <1>3, <1>4
  <2>2. QED
    BY <2>1, HeadAndRest
<1>8. /\ p \in Seq(Cells) /\ Len(p) = Len(h) + Len(output)
      /\ \A i \in 1 .. Len(h) : p[i] = h[i]
      /\ SubSeq(p, Len(h) + 1, Len(h) + Len(output)) = output
  BY <1>6, <1>7, Zenon
<1>9. /\ Len(p) = 6 + n
      /\ \A i \in 1 .. 6 : p[i] = h[i]
      /\ SubSeq(p, 7, Len(p)) = output
  <2>1. /\ Len(p) = 6 + n
        /\ \A i \in 1 .. 6 : p[i] = h[i]
        /\ SubSeq(p, 6 + 1, 6 + n) = output
    BY <1>3, <1>4, <1>8, Zenon
  <2>2. 6 + 1 = 7
    OBVIOUS
  <2>3. QED
    BY <2>1, <2>2, Zenon
<1>10. QED
  BY <1>2, <1>3, <1>5, <1>8, <1>9, SMTT(30)

\* The phone accepts the greeting of the client if it has the backend asked for.
LEMMA HelloSent ==
  ASSUME NEW b \in Cells
  PROVE  /\ <<ProtocolVersion, ProtocolVersion, b, 0>> \in Seq(Cells)
         /\ HelloAccepted(<<ProtocolVersion, ProtocolVersion, b, 0>>) <=> b \in {AutoBackend, VulkanGpu}
         /\ HelloDecoded(<<ProtocolVersion, ProtocolVersion, b, 0>>)
              = [kind |-> "hello", minimum |-> ProtocolVersion, maximum |-> ProtocolVersion,
                 backend |-> b]
<1>1. 0 \in Cells /\ ProtocolVersion \in Cells
  BY CellFacts DEF ProtocolVersion
<1> DEFINE p == <<ProtocolVersion, ProtocolVersion, b, 0>>
<1>2. p \in Seq(Cells) /\ Len(p) = 4
  BY <1>1
<1>3. p[1] = ProtocolVersion /\ p[2] = ProtocolVersion /\ p[3] = b /\ p[4] = 0
  OBVIOUS
<1> HIDE DEF p
<1>4. ProtocolVersion <= ProtocolVersion
  BY DEF ProtocolVersion
<1>5. /\ HelloAccepted(p) <=> b \in {AutoBackend, VulkanGpu}
      /\ HelloDecoded(p) = [kind |-> "hello", minimum |-> ProtocolVersion,
                            maximum |-> ProtocolVersion, backend |-> b]
  BY <1>2, <1>3, <1>4 DEF HelloAccepted, HelloDecoded
<1>6. QED
  BY <1>2, <1>5 DEF p

\* A greeting it accepts is the payload of what it decodes.
LEMMA HelloExact ==
  ASSUME NEW p \in Seq(Cells), HelloAccepted(p)
  PROVE  <<p[1], p[2], p[3], 0>> = p
<1>1. Len(p) = 4 /\ p[4] = 0
  BY DEF HelloAccepted
<1>2. p[1] \in Cells /\ p[2] \in Cells /\ p[3] \in Cells /\ 0 \in Cells
  <2>1. p[1] \in Cells /\ p[2] \in Cells /\ p[3] \in Cells
    BY <1>1
  <2>2. 0 \in Cells
    BY CellFacts
  <2>3. QED
    BY <2>1, <2>2
<1> DEFINE q == <<p[1], p[2], p[3], 0>>
<1>3. q \in Seq(Cells) /\ Len(q) = 4
  BY <1>2
<1>4. q[1] = p[1] /\ q[2] = p[2] /\ q[3] = p[3] /\ q[4] = 0
  OBVIOUS
<1> HIDE DEF q
<1>5. \A i \in 1 .. Len(q) : q[i] = p[i]
  <2>1. ASSUME NEW i \in 1 .. 4 PROVE q[i] = p[i]
    <3>1. i = 1 \/ i = 2 \/ i = 3 \/ i = 4
      OBVIOUS
    <3>2. QED
      BY <1>1, <1>4, <3>1
  <2>2. QED
    BY <1>3, <2>1
<1>6. q = p
  BY <1>1, <1>3, <1>5, SeqEqual
<1>7. QED
  BY <1>6 DEF q

-----------------------------------------------------------------------------
(* The call under way. *)

\* What the client may send is a sequence of cells that the phone accepts
\* unless the call is hopeless, and decodes to the call.
LEMMA SentIsUnderstood ==
  ASSUME call \in Calls
  PROVE  /\ Payload(call) \in Seq(Cells)
         /\ MaySend(call) => /\ Accepted(Payload(call)) <=> ~ Hopeless(call)
                             /\ Decoded(Payload(call)) = call
<1>1. CASE call.kind = "tensor"
  <2>1. /\ TensorCells(call)
        /\ call = [kind |-> "tensor", type |-> call.type, dims |-> call.dims,
                   name |-> call.name, data |-> call.data]
    BY <1>1, CallFacts
  <2>2. PICK p : p = TensorPayload(call)
    OBVIOUS
  <2>3. /\ p \in Seq(Cells) /\ p[1] = call.type
        /\ DimsOf(p) = call.dims /\ NameOf(p) = call.name /\ DataOf(p) = call.data
    BY <2>1, <2>2, TensorPieces
  <2>4. Payload(call) = p
    BY <1>1, <2>2 DEF Payload
  <2>5. Decoded(p) = call
    <3>1. TensorDecoded(p) = [kind |-> "tensor", type |-> call.type, dims |-> call.dims,
                              name |-> call.name, data |-> call.data]
      BY <2>3 DEF TensorDecoded
    <3>2. Decoded(p) = TensorDecoded(p)
      BY <1>1 DEF Decoded
    <3>3. QED
      BY <2>1, <3>1, <3>2, Zenon
  <2>6. MaySend(call) =>
          (Accepted(p) <=> call.data # <<>> /\ Product(call.dims) \in 1 .. Word - 1)
    <3>1. MaySend(call) = MaySendTensor(call) /\ Accepted(p) = TensorAccepted(p)
      BY <1>1 DEF MaySend, Accepted
    <3>2. QED
      BY <2>1, <2>2, <3>1, TensorSent
  <2>7. Hopeless(call) <=> call.data = <<>> \/ Product(call.dims) \notin 1 .. Word - 1
    BY <1>1, Zenon DEF Hopeless
  <2>8. QED
    BY <2>3, <2>4, <2>5, <2>6, <2>7, Zenon
<1>2. CASE call.kind = "range"
  <2>1. /\ RangeCells(call)
        /\ call = [kind |-> "range", first |-> call.first, last |-> call.last,
                   position |-> call.position, max_context |-> call.max_context,
                   ffn |-> call.ffn, heads |-> call.heads, kv_heads |-> call.kv_heads,
                   head_dim |-> call.head_dim, epsilon |-> call.epsilon,
                   theta |-> call.theta, input |-> call.input]
    BY <1>2, CallFacts
  <2>2. PICK p : p = RangePayload(call)
    OBVIOUS
  <2>3. /\ p \in Seq(Cells)
        /\ p[1] = call.first /\ p[2] = call.last /\ p[3] = call.position
        /\ p[4] = call.max_context /\ p[6] = call.ffn /\ p[7] = call.heads
        /\ p[8] = call.kv_heads /\ p[9] = call.head_dim /\ p[10] = call.epsilon
        /\ p[11] = call.theta /\ SubSeq(p, 13, Len(p)) = call.input
    BY <2>1, <2>2, RangePieces, SMTT(30)
  <2>4. Payload(call) = p
    BY <1>2, <2>2 DEF Payload
  <2>5. Decoded(p) = call
    <3>1. RangeDecoded(p) = [kind |-> "range", first |-> call.first, last |-> call.last,
                   position |-> call.position, max_context |-> call.max_context,
                   ffn |-> call.ffn, heads |-> call.heads, kv_heads |-> call.kv_heads,
                   head_dim |-> call.head_dim, epsilon |-> call.epsilon,
                   theta |-> call.theta, input |-> call.input]
      BY <2>3, Zenon DEF RangeDecoded
    <3>2. Decoded(p) = RangeDecoded(p)
      BY <1>2 DEF Decoded
    <3>3. QED
      BY <2>1, <3>1, <3>2, Zenon
  <2>6. MaySend(call) =>
          (Accepted(p) <=>
             /\ ~ (call.position >= call.max_context) /\ call.input # <<>>
             /\ 0 \notin {call.ffn, call.heads, call.kv_heads, call.head_dim, call.epsilon,
                          call.theta}
             /\ \E group \in Cells : call.heads = group * call.kv_heads)
    <3>1. (MaySend(call) => call.first <= call.last) /\ Accepted(p) = RangeAccepted(p)
      BY <1>2 DEF MaySend, Accepted
    <3>2. QED
      BY <2>1, <2>2, <3>1, RangeSent
  <2>7. Hopeless(call) <=>
          \/ call.position >= call.max_context \/ call.input = <<>>
          \/ 0 \in {call.ffn, call.heads, call.kv_heads, call.head_dim, call.epsilon, call.theta}
          \/ ~ \E group \in Cells : call.heads = group * call.kv_heads
    <3>1. call.kind # "tensor"
      BY <1>2
    <3>2. QED
      BY <1>2, <3>1, Zenon DEF Hopeless
  <2>8. QED
    BY <2>3, <2>4, <2>5, <2>6, <2>7, Zenon
<1>3. ASSUME NEW b \in Cells,
             call = [kind |-> "hello", minimum |-> ProtocolVersion,
                     maximum |-> ProtocolVersion, backend |-> b]
      PROVE  /\ Payload(call) \in Seq(Cells)
             /\ Accepted(Payload(call)) <=> ~ Hopeless(call)
             /\ Decoded(Payload(call)) = call
  <2>1. /\ call.kind = "hello" /\ call.kind # "tensor" /\ call.kind # "range"
        /\ call.minimum = ProtocolVersion /\ call.maximum = ProtocolVersion
        /\ call.backend = b
    BY <1>3
  <2>2. PICK p : p = <<ProtocolVersion, ProtocolVersion, b, 0>>
    OBVIOUS
  <2>3. Payload(call) = p /\ Accepted(p) = HelloAccepted(p) /\ Decoded(p) = HelloDecoded(p)
        /\ (Hopeless(call) <=> b \notin {AutoBackend, VulkanGpu})
    BY <2>1, <2>2, Zenon DEF Payload, Accepted, Decoded, Hopeless
  <2>4. p \in Seq(Cells) /\ (HelloAccepted(p) <=> b \in {AutoBackend, VulkanGpu})
    BY <2>2, HelloSent
  <2>5. HelloDecoded(p) = call
    BY <1>3, <2>2, HelloSent
  <2>6. QED
    BY <2>3, <2>4, <2>5, Zenon
<1>4. QED
  BY <1>1, <1>2, <1>3, CallFacts

\* Whatever payload the phone accepts, it is the one of what it decodes.
LEMMA AcceptedIsExact ==
  ASSUME call \in Calls, NEW p \in Seq(Cells), Accepted(p), NEW g, g = Decoded(p)
  PROVE  /\ g.kind = call.kind /\ Payload(g) = p
         /\ g.kind = "tensor" => TensorCells(g) /\ Product(g.dims) = p[4]
         /\ g.kind = "range" => RangeCells(g)
<1>1. CASE call.kind = "tensor"
  <2>1. TensorAccepted(p) /\ g = TensorDecoded(p)
    BY <1>1 DEF Accepted, Decoded
  <2>2. TensorCells(g) /\ g.kind = "tensor" /\ TensorPayload(g) = p /\ Product(g.dims) = p[4]
    BY <2>1, TensorExact
  <2>3. QED
    BY <1>1, <2>2 DEF Payload
<1>2. CASE call.kind = "range"
  <2>1. RangeAccepted(p) /\ g = RangeDecoded(p)
    BY <1>2 DEF Accepted, Decoded
  <2>2. RangeCells(g) /\ g.kind = "range" /\ RangePayload(g) = p
    BY <2>1, RangeExact
  <2>3. QED
    BY <1>2, <2>2 DEF Payload
<1>3. CASE call.kind = "hello"
  <2>1. call.kind # "tensor" /\ call.kind # "range"
    BY <1>3
  <2>2. HelloAccepted(p) /\ g = HelloDecoded(p)
    BY <2>1, Zenon DEF Accepted, Decoded
  <2>3. /\ g.kind = "hello" /\ g.minimum = p[1] /\ g.maximum = p[2] /\ g.backend = p[3]
        /\ g.kind # "tensor" /\ g.kind # "range"
    BY <2>2 DEF HelloDecoded
  <2>4. Payload(g) = <<p[1], p[2], p[3], 0>>
    BY <2>3, Zenon DEF Payload
  <2>5. QED
    BY <1>3, <2>2, <2>3, <2>4, HelloExact
<1>4. QED
  BY <1>1, <1>2, <1>3, CallFacts

\* The answer the phone gives after carrying out what it decoded.
Answers ==
  CASE call.kind = "tensor" -> answer = TensorLoadedPayload(got, 1, 1)
    [] call.kind = "range" ->
         \E output \in [1 .. Len(got.input) -> {0, Word - 1}] :
           answer = ResultPayload(got, output, 1)
    [] OTHER -> answer = CapabilitiesPayload

\* The phone carried out what it read on the wire; it refused it.
CarriedOut == MaySend(call) /\ Accepted(wire) /\ got = Decoded(wire) /\ Answers
Refused == got = None /\ (~ MaySend(call) \/ ~ Accepted(wire))

Phases ==
  /\ phase \in {"called", "sent"} => got = None
  /\ phase \in {"sent", "error"} => MaySend(call)
  /\ phase = "error" => Refused
  /\ phase = "answered" => CarriedOut
  /\ phase = "done" =>
       /\ CarriedOut /\ Verified(answer)
       /\ result = IF call.kind = "range" THEN SubSeq(answer, 7, Len(answer)) ELSE <<>>
  /\ phase = "failed" => Refused \/ (CarriedOut /\ ~ Verified(answer))

\* A payload in which nothing was changed is the one the client sent.
Unchanged ==
  phase # "called" /\ changes = 0 /\ MaySend(call) => wire = Payload(call)

PayloadsInv == PayloadsTypeOK /\ Phases /\ Unchanged

LEMMA PayloadsInitInv == PayloadsInit => PayloadsInv
<1> SUFFICES ASSUME PayloadsInit
             PROVE  PayloadsInv
  OBVIOUS
<1>1. /\ call \in Calls /\ wire = <<>> /\ changes = 0 /\ got = None /\ answer = <<>>
      /\ result = None /\ phase = "called"
  BY DEF PayloadsInit
<1>2. PayloadsTypeOK
  BY <1>1, PayloadsAssumption DEF PayloadsTypeOK
<1>3. Phases /\ Unchanged
  BY <1>1, Zenon DEF Phases, Unchanged
<1>4. QED
  BY <1>2, <1>3 DEF PayloadsInv

\* The answer is a sequence of cells.
LEMMA AnswerIsCells ==
  call \in Calls /\ wire \in Seq(Cells) /\ CarriedOut
    => answer \in Seq(Cells) /\ got.kind = call.kind
<1> SUFFICES ASSUME call \in Calls, wire \in Seq(Cells), CarriedOut
             PROVE  answer \in Seq(Cells) /\ got.kind = call.kind
  OBVIOUS
<1>1. /\ got.kind = call.kind
      /\ got.kind = "tensor" => TensorCells(got)
      /\ got.kind = "range" => RangeCells(got)
  BY AcceptedIsExact DEF CarriedOut
<1>2. CASE call.kind = "tensor"
  <2>1. answer = TensorLoadedPayload(got, 1, 1)
    BY <1>2 DEF CarriedOut, Answers
  <2>2. QED
    BY <1>1, <1>2, <2>1, TensorAnswer
<1>3. CASE call.kind = "range"
  <2>1. call.kind # "tensor"
    BY <1>3
  <2>2. PICK output \in [1 .. Len(got.input) -> {0, Word - 1}] :
          answer = ResultPayload(got, output, 1)
    BY <1>3, <2>1, Zenon DEF CarriedOut, Answers
  <2>3. QED
    BY <1>1, <1>3, <2>2, RangeAnswer
<1>4. CASE call.kind = "hello"
  <2>1. call.kind # "tensor" /\ call.kind # "range"
    BY <1>4
  <2>2. answer = CapabilitiesPayload
    BY <2>1, Zenon DEF CarriedOut, Answers
  <2>3. 0 \in Cells /\ 1 \in Cells
    BY CellFacts
  <2>4. QED
    BY <1>1, <2>2, <2>3 DEF CapabilitiesPayload, ProtocolVersion, VulkanGpu
<1>5. QED
  BY <1>2, <1>3, <1>4, CallFacts

LEMMA SendInv == PayloadsInv /\ Send => PayloadsInv'
<1> SUFFICES ASSUME PayloadsInv, Send
             PROVE  PayloadsInv'
  OBVIOUS
<1>1. PayloadsTypeOK /\ got = None
  BY DEF PayloadsInv, Phases, Send
<1>2. UNCHANGED <<call, changes, got, answer, result>>
  BY DEF Send
<1>3. CASE MaySend(call)
  <2>1. wire' = Payload(call) /\ phase' = "sent"
    BY <1>3 DEF Send
  <2>2. PayloadsTypeOK'
    BY <1>1, <1>2, <2>1, SentIsUnderstood DEF PayloadsTypeOK
  <2>3. MaySend(call)' /\ Payload(call)' = Payload(call)
    BY <1>2, <1>3
  <2>4. Phases' /\ Unchanged'
    BY <1>1, <1>2, <2>1, <2>3 DEF Phases, Unchanged
  <2>5. QED
    BY <2>2, <2>4 DEF PayloadsInv
<1>4. CASE ~ MaySend(call)
  <2>1. wire' = wire /\ phase' = "failed"
    BY <1>4 DEF Send
  <2>2. PayloadsTypeOK'
    BY <1>1, <1>2, <2>1 DEF PayloadsTypeOK
  <2>3. ~ MaySend(call)' /\ got' = None
    BY <1>1, <1>2, <1>4
  <2>4. Phases' /\ Unchanged'
    BY <2>1, <2>3 DEF Phases, Unchanged, Refused
  <2>5. QED
    BY <2>2, <2>4 DEF PayloadsInv
<1>5. QED
  BY <1>3, <1>4

LEMMA ChangeInv == PayloadsInv /\ Change => PayloadsInv'
<1> SUFFICES ASSUME PayloadsInv, Change
             PROVE  PayloadsInv'
  OBVIOUS
<1>1. /\ PayloadsTypeOK /\ got = None /\ MaySend(call)
      /\ phase = "sent" /\ changes < MaxChanges /\ changes' = changes + 1
      /\ UNCHANGED <<call, got, answer, result, phase>>
  BY DEF PayloadsInv, Phases, Change
<1>2. wire' \in Seq(Cells)
  <2>1. CASE \E i \in DOMAIN wire, v \in Cells : wire' = [wire EXCEPT ![i] = v]
    BY <1>1, <2>1 DEF PayloadsTypeOK
  <2>2. CASE wire # <<>> /\ wire' = Front(wire)
    BY <1>1, <2>2 DEF PayloadsTypeOK, Front
  <2>3. CASE \E v \in Cells : wire' = Append(wire, v)
    BY <1>1, <2>3 DEF PayloadsTypeOK
  <2>4. QED
    BY <2>1, <2>2, <2>3 DEF Change
<1>3. changes' \in 0 .. MaxChanges /\ changes' # 0
  BY <1>1, PayloadsAssumption DEF PayloadsTypeOK
<1>4. PayloadsTypeOK'
  BY <1>1, <1>2, <1>3 DEF PayloadsTypeOK
<1>5. MaySend(call)'
  BY <1>1
<1>6. Phases' /\ Unchanged'
  BY <1>1, <1>3, <1>5 DEF Phases, Unchanged
<1>7. QED
  BY <1>4, <1>6 DEF PayloadsInv

LEMMA DecodeInv == PayloadsInv /\ Decode => PayloadsInv'
<1> SUFFICES ASSUME PayloadsInv, Decode
             PROVE  PayloadsInv'
  OBVIOUS
<1>1. /\ PayloadsTypeOK /\ Unchanged /\ got = None /\ MaySend(call)
      /\ phase = "sent" /\ UNCHANGED <<call, wire, changes, result>>
  BY DEF PayloadsInv, Phases, Decode
<1>2. /\ MaySend(call)' = MaySend(call) /\ Accepted(wire)' = Accepted(wire)
      /\ Decoded(wire)' = Decoded(wire) /\ Payload(call)' = Payload(call)
  BY <1>1 DEF Accepted, Decoded
<1>3. Unchanged' <=> (phase' # "called" /\ changes = 0 /\ MaySend(call) => wire = Payload(call))
  BY <1>1, <1>2 DEF Unchanged
<1>4. Unchanged'
  BY <1>1, <1>3 DEF Unchanged
<1>5. CASE Accepted(wire)
  <2>1. got' = Decoded(wire) /\ phase' = "answered"
    BY <1>5 DEF Decode
  <2>2. Answers'
    <3>1. CASE call.kind = "tensor"
      <4>1. answer' = TensorLoadedPayload(got', 1, 1)
        BY <1>5, <3>1 DEF Decode
      <4>2. QED
        BY <1>1, <3>1, <4>1 DEF Answers
    <3>2. CASE call.kind = "range"
      <4>1. \E output \in [1 .. Len(got'.input) -> {0, Word - 1}] :
              answer' = ResultPayload(got', output, 1)
        BY <1>5, <3>2 DEF Decode
      <4>2. call.kind # "tensor"
        BY <3>2
      <4>3. QED
        BY <1>1, <3>2, <4>1, <4>2, Zenon DEF Answers
    <3>3. CASE call.kind = "hello"
      <4>1. call.kind # "tensor" /\ call.kind # "range"
        BY <3>3
      <4>2. answer' = CapabilitiesPayload
        BY <1>5, <4>1 DEF Decode
      <4>3. QED
        BY <1>1, <4>1, <4>2, Zenon DEF Answers, CapabilitiesPayload
    <3>4. QED
      BY <3>1, <3>2, <3>3, CallFacts, <1>1 DEF PayloadsTypeOK
  <2>3. CarriedOut'
    BY <1>1, <1>2, <1>5, <2>1, <2>2 DEF CarriedOut
  <2>4. answer' \in Seq(Cells) /\ got'.kind = call.kind
    <3>1. call' \in Calls /\ wire' \in Seq(Cells)
      BY <1>1 DEF PayloadsTypeOK
    <3>2. (call \in Calls /\ wire \in Seq(Cells) /\ CarriedOut
             => answer \in Seq(Cells) /\ got.kind = call.kind)'
      BY AnswerIsCells, PTL
    <3>3. QED
      BY <1>1, <2>3, <3>1, <3>2
  <2>5. PayloadsTypeOK'
    BY <1>1, <2>1, <2>4 DEF PayloadsTypeOK
  <2>6. Phases'
    BY <2>1, <2>3 DEF Phases
  <2>7. QED
    BY <1>4, <2>5, <2>6 DEF PayloadsInv
<1>6. CASE ~ Accepted(wire)
  <2>1. phase' = "error" /\ UNCHANGED <<got, answer>>
    BY <1>6 DEF Decode
  <2>2. Refused'
    BY <1>1, <1>2, <1>6, <2>1 DEF Refused
  <2>3. PayloadsTypeOK'
    BY <1>1, <2>1 DEF PayloadsTypeOK
  <2>4. Phases'
    BY <1>1, <1>2, <2>1, <2>2 DEF Phases
  <2>5. QED
    BY <1>4, <2>3, <2>4 DEF PayloadsInv
<1>7. QED
  BY <1>5, <1>6

LEMMA ReceiveInv == PayloadsInv /\ ReceiveAnswer => PayloadsInv'
<1> SUFFICES ASSUME PayloadsInv, ReceiveAnswer
             PROVE  PayloadsInv'
  OBVIOUS
<1>1. /\ PayloadsTypeOK /\ Phases /\ Unchanged /\ phase \in {"answered", "error"}
      /\ UNCHANGED <<call, wire, changes, got, answer>>
  BY DEF PayloadsInv, ReceiveAnswer
<1>2. /\ MaySend(call)' = MaySend(call) /\ Payload(call)' = Payload(call)
      /\ Refused' = Refused /\ CarriedOut' = CarriedOut /\ Verified(answer)' = Verified(answer)
  BY <1>1 DEF Accepted, Decoded, Refused, CarriedOut, Answers, Verified
<1>3. phase' # "called" => Unchanged'
  BY <1>1, <1>2 DEF Unchanged
<1>4. CASE phase = "answered" /\ Verified(answer)
  <2>1. /\ phase' = "done" /\ CarriedOut
        /\ result' = IF call.kind = "range" THEN SubSeq(answer, 7, Len(answer)) ELSE <<>>
    BY <1>1, <1>4 DEF ReceiveAnswer, Phases
  <2>2. result' \in Seq(Cells)
    <3>1. CASE call.kind = "range"
      <4>1. ResultVerified(call, answer)
        BY <1>4, <3>1, Zenon DEF Verified
      <4>2. PICK n \in Nat : n = Len(answer) /\ n >= 6
        BY <1>1, <4>1 DEF ResultVerified, PayloadsTypeOK
      <4>3. SubSeq(answer, 6 + 1, n) \in Seq(Cells)
        <5>1. answer \in Seq(Cells) /\ 6 \in Nat /\ n \in Nat /\ 6 <= n /\ n <= Len(answer)
          BY <1>1, <4>2 DEF PayloadsTypeOK
        <5>2. QED
          BY <5>1, CutInTwo
      <4>4. 6 + 1 = 7
        OBVIOUS
      <4>5. QED
        BY <2>1, <3>1, <4>2, <4>3, <4>4, Zenon
    <3>2. CASE call.kind # "range"
      <4>1. result' = <<>>
        BY <2>1, <3>2
      <4>2. QED
        BY <4>1
    <3>3. QED
      BY <3>1, <3>2
  <2>3. PayloadsTypeOK'
    BY <1>1, <2>1, <2>2 DEF PayloadsTypeOK
  <2>4. Phases'
    BY <1>1, <1>2, <1>4, <2>1 DEF Phases
  <2>5. QED
    BY <1>3, <2>1, <2>3, <2>4 DEF PayloadsInv
<1>5. CASE ~ (phase = "answered" /\ Verified(answer))
  <2>1. phase' = "failed" /\ result' = result
    BY <1>5 DEF ReceiveAnswer
  <2>2. Refused \/ (CarriedOut /\ ~ Verified(answer))
    BY <1>1, <1>5 DEF Phases
  <2>3. PayloadsTypeOK'
    BY <1>1, <2>1 DEF PayloadsTypeOK
  <2>4. Phases'
    BY <1>2, <2>1, <2>2 DEF Phases
  <2>5. QED
    BY <1>3, <2>1, <2>3, <2>4 DEF PayloadsInv
<1>6. QED
  BY <1>4, <1>5

LEMMA PayloadsStepInv == PayloadsInv /\ [PayloadsNext]_payloadsVars => PayloadsInv'
<1>1. PayloadsInv /\ UNCHANGED payloadsVars => PayloadsInv'
  BY DEF PayloadsInv, PayloadsTypeOK, Phases, Unchanged, CarriedOut, Refused, Answers, Accepted,
         Decoded, Verified, payloadsVars
<1>2. QED
  BY <1>1, SendInv, ChangeInv, DecodeInv, ReceiveInv DEF PayloadsNext

\* The type invariant.
THEOREM PayloadsTypeCorrect == PayloadsSpec => []PayloadsTypeOK
<1>1. PayloadsInv => PayloadsTypeOK
  BY DEF PayloadsInv
<1>2. QED
  BY <1>1, PayloadsInitInv, PayloadsStepInv, PTL DEF PayloadsSpec

\* Once a call that may be sent was decided on, what was carried out of an
\* unchanged payload is the call.
LEMMA CarriedOutIsCall ==
  ASSUME PayloadsInv, CarriedOut, changes = 0, phase # "called"
  PROVE  got = call /\ ~ Hopeless(call)
  BY SentIsUnderstood DEF PayloadsInv, PayloadsTypeOK, Unchanged, CarriedOut

\* The two codecs agree: what the client sends (make_load_tensor_payload,
\* make_run_layer_range_payload) is decoded by the phone (protocol.cpp) to just
\* what was meant, and is refused only when it cannot be carried out.
THEOREM CodecsAgree == PayloadsSpec => []Understood
<1>1. PayloadsInv => Understood
  <2> SUFFICES ASSUME PayloadsInv, phase \notin {"called", "sent"}, changes = 0, MaySend(call)
               PROVE  IF Hopeless(call) THEN got = None ELSE got = call
    BY DEF Understood
  <2>1. CASE CarriedOut
    BY <2>1, CarriedOutIsCall
  <2>2. CASE Refused
    <3>1. wire = Payload(call) /\ got = None /\ ~ Accepted(wire)
      BY <2>2 DEF PayloadsInv, Unchanged, Refused
    <3>2. QED
      BY <3>1, SentIsUnderstood DEF PayloadsInv, PayloadsTypeOK
  <2>3. QED
    BY <2>1, <2>2 DEF PayloadsInv, PayloadsTypeOK, Phases
<1>2. QED
  BY <1>1, PayloadsInitInv, PayloadsStepInv, PTL DEF PayloadsSpec

\* The phone decodes nothing but exact encodings, whoever sends them: the
\* decoders of protocol.cpp ignore no cell and trust no length, and the count
\* of the elements is the true product of the dimensions.
THEOREM DecoderExact == PayloadsSpec => []ExactlyDecoded
<1>1. PayloadsInv => ExactlyDecoded
  <2> SUFFICES ASSUME PayloadsInv, got # None
               PROVE  /\ Payload(got) = wire
                      /\ got.kind = "tensor" => Product(got.dims) = wire[4]
    BY DEF ExactlyDecoded
  <2>1. CarriedOut
    <3>1. ~ Refused /\ phase \notin {"called", "sent"}
      BY DEF PayloadsInv, Phases, Refused
    <3>2. phase \in {"called", "sent", "answered", "error", "done", "failed"}
      BY DEF PayloadsInv, PayloadsTypeOK
    <3>3. Phases
      BY DEF PayloadsInv
    <3>4. QED
      BY <3>1, <3>2, <3>3 DEF Phases
  <2>2. QED
    BY <2>1, AcceptedIsExact DEF PayloadsInv, PayloadsTypeOK, CarriedOut
<1>2. QED
  BY <1>1, PayloadsInitInv, PayloadsStepInv, PTL DEF PayloadsSpec

\* The client verifies the answer to what it asked.
LEMMA AnswerVerified ==
  ASSUME call \in Calls, CarriedOut, got = call
  PROVE  Verified(answer)
<1>1. CASE call.kind = "tensor"
  <2>1. answer = TensorLoadedPayload(call, 1, 1)
    BY <1>1 DEF CarriedOut, Answers
  <2>2. TensorCells(call)
    BY <1>1, CallFacts
  <2>3. PICK n \in Nat : n = Len(call.name)
    BY <2>2, CellFacts DEF TensorCells
  <2>4. /\ Len(answer) = 7 + n /\ answer[2] = call.type /\ answer[3] = Len(call.data)
        /\ answer[5] = Hash(call.data) /\ answer[6] = n /\ SubSeq(answer, 8, 7 + n) = call.name
    BY <2>1, <2>2, <2>3, TensorAnswer
  <2>5. TensorVerified(call, answer)
    BY <2>4 DEF TensorVerified
  <2>6. QED
    BY <1>1, <2>5 DEF Verified
<1>2. CASE call.kind = "range"
  <2>1. call.kind # "tensor"
    BY <1>2
  <2>2. PICK output \in [1 .. Len(call.input) -> {0, Word - 1}] :
          answer = ResultPayload(call, output, 1)
    BY <1>2, <2>1, Zenon DEF CarriedOut, Answers
  <2>3. RangeCells(call)
    BY <1>2, CallFacts
  <2>4. PICK n \in Nat : n = Len(call.input)
    BY <2>3, CellFacts DEF RangeCells
  <2>5. /\ Len(answer) = 6 + n /\ answer[1] = call.first /\ answer[2] = call.last
        /\ answer[3] = call.position /\ answer[4] = n
        /\ answer[5] = Hash(SubSeq(answer, 7, Len(answer)))
    <3>1. /\ Len(answer) = 6 + Len(call.input)
          /\ answer[1] = call.first /\ answer[2] = call.last /\ answer[3] = call.position
          /\ answer[4] = Len(call.input) /\ answer[5] = Hash(output)
          /\ SubSeq(answer, 7, Len(answer)) = output
      BY <2>2, <2>3, RangeAnswer
    <3>2. QED
      BY <2>4, <3>1, Zenon
  <2>6. ResultVerified(call, answer)
    BY <2>4, <2>5 DEF ResultVerified
  <2>7. QED
    BY <1>2, <2>1, <2>6, Zenon DEF Verified
<1>3. CASE call.kind = "hello"
  <2>1. call.kind # "tensor" /\ call.kind # "range"
    BY <1>3
  <2>2. answer = CapabilitiesPayload
    BY <2>1, Zenon DEF CarriedOut, Answers
  <2>3. CapabilitiesVerified(answer)
    BY <2>2 DEF CapabilitiesVerified, CapabilitiesPayload
  <2>4. QED
    BY <2>1, <2>3, Zenon DEF Verified
<1>4. QED
  BY <1>1, <1>2, <1>3, CallFacts

\* A call carried out as it was sent returns, and a call returns only if the
\* phone decoded it as the same tensor or the same layers, position and size
\* (the checks of upload_tensor and run_layer_range).
THEOREM AnswersFit == PayloadsSpec => []AnswerFits
<1>1. PayloadsInv => AnswerFits
  <2> SUFFICES ASSUME PayloadsInv
               PROVE  AnswerFits
    OBVIOUS
  <2>1. call \in Calls /\ wire \in Seq(Cells)
    BY DEF PayloadsInv, PayloadsTypeOK
  <2>2. ASSUME changes = 0, got # None, phase = "failed" PROVE FALSE
    <3>1. CarriedOut /\ ~ Verified(answer)
      BY <2>2 DEF PayloadsInv, Phases, Refused
    <3>2. got = call
      BY <2>2, <3>1, CarriedOutIsCall
    <3>3. QED
      BY <2>1, <3>1, <3>2, AnswerVerified
  <2>3. ASSUME phase = "done", call.kind = "tensor"
        PROVE  /\ got.name = call.name /\ got.type = call.type
               /\ Len(got.data) = Len(call.data) /\ Hash(got.data) = Hash(call.data)
    <3>1. CarriedOut /\ TensorVerified(call, answer)
      BY <2>3 DEF PayloadsInv, Phases, Verified
    <3>2. answer = TensorLoadedPayload(got, 1, 1) /\ TensorCells(got)
      <4>1. answer = TensorLoadedPayload(got, 1, 1)
        BY <2>3, <3>1 DEF CarriedOut, Answers
      <4>2. QED
        BY <2>1, <2>3, <3>1, <4>1, AcceptedIsExact DEF CarriedOut
    <3>3. PICK n \in Nat : n = Len(got.name)
      BY <3>2, CellFacts DEF TensorCells
    <3>4. /\ answer[2] = got.type /\ answer[3] = Len(got.data) /\ answer[5] = Hash(got.data)
          /\ answer[6] = n /\ SubSeq(answer, 8, 7 + n) = got.name
      BY <3>2, <3>3, TensorAnswer
    <3>5. QED
      BY <3>1, <3>4, Zenon DEF TensorVerified
  <2>4. ASSUME phase = "done", call.kind = "range"
        PROVE  /\ Len(got.input) = Len(call.input) /\ Len(result) = Len(call.input)
               /\ got.first = call.first /\ got.last = call.last
               /\ got.position = call.position
    <3>1. call.kind # "tensor"
      BY <2>4
    <3>2. CarriedOut /\ ResultVerified(call, answer) /\ result = SubSeq(answer, 7, Len(answer))
      BY <2>4, <3>1 DEF PayloadsInv, Phases, Verified
    <3>3. PICK output \in [1 .. Len(got.input) -> {0, Word - 1}] :
            answer = ResultPayload(got, output, 1)
      BY <2>4, <3>1, <3>2, Zenon DEF CarriedOut, Answers
    <3>4. RangeCells(got)
      BY <2>1, <2>4, <3>2, AcceptedIsExact DEF CarriedOut
    <3>5. PICK n \in Nat : n = Len(got.input)
      BY <3>4, CellFacts DEF RangeCells
    <3>6. /\ answer[1] = got.first /\ answer[2] = got.last /\ answer[3] = got.position
          /\ answer[4] = n /\ SubSeq(answer, 7, Len(answer)) = output
      BY <3>3, <3>4, <3>5, RangeAnswer
    <3>7. Len(output) = n
      BY <3>5
    <3>8. n = Len(call.input)
      BY <3>2, <3>6 DEF ResultVerified
    <3>9. QED
      BY <3>2, <3>5, <3>6, <3>7, <3>8, Zenon DEF ResultVerified
  <2>5. QED
    BY <2>2, <2>3, <2>4 DEF AnswerFits
<1>2. QED
  BY <1>1, PayloadsInitInv, PayloadsStepInv, PTL DEF PayloadsSpec

==============================================================================
