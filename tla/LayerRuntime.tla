------------------------------ MODULE LayerRuntime ------------------------------
(***************************************************************************)
(* VulkanContext::run_layer_range and the GPU objects it keeps from one    *)
(* request to the next: twelve work buffers, the pools and the fence, and  *)
(* the K and V cache of every layer.  They are made on demand and grow;    *)
(* each allocation may fail, which ends the request with an exception and  *)
(* leaves the rest as it is for the next one.                              *)
(*                                                                         *)
(* A buffer is its capacity in bytes, 0 when there is none.  The stages of *)
(* a request are steps; the server handles one request at a time.          *)
(***************************************************************************)
EXTENDS Integers

CONSTANTS
  Models,        \* whose tensors may be on the phone
  Dims,          \* Dims[m]: the dimensions a request for m carries
  NoModel,
  NumLayers,
  Contexts,      \* max_context values clients ask for
  Requests,      \* the RUN_LAYER_RANGE requests that arrive
  NoRequest,
  SetsPerLayer,  \* descriptor sets one layer takes: 18
  MaxSets,       \* maxSets of the descriptor pool: 1365
  FailureSets    \* the sets of allocations that may fail: see Failures

Layers == 0 .. NumLayers - 1
Failures == {"work", "descriptor_pool", "command_objects", "cache"}

ASSUME RuntimeAssumption ==
  /\ NoModel \notin Models
  /\ NumLayers \in Nat \ {0}
  /\ Contexts \subseteq Nat
  /\ SetsPerLayer \in Nat \ {0}
  /\ MaxSets \in Nat
  /\ FailureSets \subseteq SUBSET Failures
ASSUME DimsAssumption ==
  Dims \in [Models -> [hidden : Nat, ffn : Nat, heads : Nat, kvHeads : Nat, headDim : Nat]]
ASSUME ShapeAssumption ==
  \A m \in Models :
    /\ Dims[m].hidden > 0 /\ Dims[m].ffn > 0
    /\ Dims[m].kvHeads > 0 /\ Dims[m].heads > 0 /\ Dims[m].headDim > 0
    /\ Dims[m].heads % Dims[m].kvHeads = 0
ASSUME RequestAssumption ==
  /\ Requests \subseteq [model : Models, context : Contexts, position : Nat,
                         first : Layers, last : Layers]
  /\ NoRequest \notin Requests

VARIABLES
  mayFail,   \* which allocations may fail while the server lives
  stored,    \* the model whose tensors of a layer the registry holds
  capacity,  \* of the work buffers of execution_
  kCache,    \* capacity of layer_runtimes_[l].gpu_k_cache
  vCache,
  known,     \* max_context and kv_elements of layer_runtimes_[l]
  made,      \* the pools, command buffer and fence that exist
  stage,     \* where run_layer_range is
  req,       \* the request being handled
  at,        \* its layer being recorded
  sets       \* descriptor sets taken from the pool

runtime == <<capacity, kCache, vCache, known, made, sets>>
vars == <<mayFail, stored, runtime, stage, req, at>>

-------------------------------------------------------------------------------
(* Sizes, in the code's own formulas. *)

Hidden(r) == Dims[r.model].hidden
Ffn(r) == Dims[r.model].ffn
Heads(r) == Dims[r.model].heads
KvHeads(r) == Dims[r.model].kvHeads
HeadDim(r) == Dims[r.model].headDim
KvElements(m) == Dims[m].kvHeads * Dims[m].headDim

HiddenBytes(r) == Hidden(r) * 2
QBytes(r) == Heads(r) * HeadDim(r) * 2
KvBytes(r) == KvElements(r.model) * 2
FfnBytes(r) == Ffn(r) * 2
CacheBytes(r) == r.context * KvBytes(r)
ScoreBytes(r) == Heads(r) * r.context * 4

Larger(a, b) == IF a > b THEN a ELSE b

\* Wrong on purpose: the projection buffer forgets the rotated query.
WorkHiddenOnly(r) ==
  [x |-> HiddenBytes(r), norm |-> HiddenBytes(r),
   q |-> QBytes(r), k |-> KvBytes(r), v |-> KvBytes(r), attention |-> QBytes(r),
   projection |-> HiddenBytes(r),
   gate |-> FfnBytes(r), up |-> FfnBytes(r), activation |-> FfnBytes(r),
   ffn_output |-> HiddenBytes(r), scores |-> ScoreBytes(r)]

\* What ensure_execution_runtime asks for.
Work(r) ==
  [x |-> HiddenBytes(r), norm |-> HiddenBytes(r),
   q |-> QBytes(r), k |-> KvBytes(r), v |-> KvBytes(r), attention |-> QBytes(r),
   projection |-> Larger(HiddenBytes(r), QBytes(r)),
   gate |-> FfnBytes(r), up |-> FfnBytes(r), activation |-> FfnBytes(r),
   ffn_output |-> HiddenBytes(r), scores |-> ScoreBytes(r)]

WorkBuffers == {"x", "norm", "q", "k", "v", "attention", "projection", "gate",
                "up", "activation", "ffn_output", "scores"}
\* The order in which they are made.
Place == [x |-> 1, norm |-> 2, q |-> 3, k |-> 4, v |-> 5, attention |-> 6,
          projection |-> 7, gate |-> 8, up |-> 9, activation |-> 10,
          ffn_output |-> 11, scores |-> 12]

\* The bytes of work buffers that the dispatches and copies of one layer bind:
\* the rotated query is put in projection, the rotated key in attention.
Bound(r) ==
  {<<"x", HiddenBytes(r)>>, <<"norm", HiddenBytes(r)>>, <<"q", QBytes(r)>>,
   <<"k", KvBytes(r)>>, <<"v", KvBytes(r)>>, <<"projection", QBytes(r)>>,
   <<"attention", KvBytes(r)>>, <<"scores", ScoreBytes(r)>>,
   <<"attention", QBytes(r)>>, <<"projection", HiddenBytes(r)>>,
   <<"gate", FfnBytes(r)>>, <<"up", FfnBytes(r)>>, <<"activation", FfnBytes(r)>>,
   <<"ffn_output", HiddenBytes(r)>>}

\* The end of the copy into the current position's row of a cache.
RowEnd(r) == (r.position + 1) * KvBytes(r)

-------------------------------------------------------------------------------
CommandObjects == {"command_pool", "command_buffer", "fence", "query_pool"}
Objects == {"descriptor_pool"} \cup CommandObjects
Stages == {"idle", "work", "pools", "layers", "submit"}

TypeOK ==
  /\ mayFail \in FailureSets
  /\ stored \in [Layers -> Models \cup {NoModel}]
  /\ capacity \in [WorkBuffers -> Nat]
  /\ kCache \in [Layers -> Nat]
  /\ vCache \in [Layers -> Nat]
  /\ known \in [Layers -> [context : Nat, kv : Nat]]
  /\ made \subseteq Objects
  /\ stage \in Stages
  /\ req \in Requests \cup {NoRequest}
  /\ (req = NoRequest) <=> (stage = "idle")
  /\ at \in Layers
  /\ sets \in 0 .. MaxSets

Init ==
  /\ mayFail \in FailureSets
  /\ stored = [l \in Layers |-> NoModel]
  /\ capacity = [b \in WorkBuffers |-> 0]
  /\ kCache = [l \in Layers |-> 0]
  /\ vCache = [l \in Layers |-> 0]
  /\ known = [l \in Layers |-> [context |-> 0, kv |-> 0]]
  /\ made = {}
  /\ stage = "idle"
  /\ req = NoRequest
  /\ at = 0
  /\ sets = 0

\* The call is over: it returned its result or threw.  The server answers and
\* waits for the next request.
Leave ==
  /\ stage' = "idle"
  /\ req' = NoRequest
  /\ at' = 0

\* store_tensor for the tensors of a layer, between two requests; a name is
\* never stored twice.
StoreLayer(l, m) ==
  /\ stage = "idle"
  /\ stored[l] = NoModel
  /\ stored' = [stored EXCEPT ![l] = m]
  /\ UNCHANGED <<mayFail, runtime, stage, req, at>>

\* The checks of first_layer, last_layer and position; the other checks are
\* about the dimensions alone, which every model passes: heads is a multiple of
\* kv_heads.
Valid(r) == r.first <= r.last /\ r.position < r.context

\* A request that fails them is answered with an error and changes nothing.
Receive(r) ==
  /\ stage = "idle"
  /\ Valid(r)
  /\ stage' = "work"
  /\ req' = r
  /\ at' = r.first
  /\ UNCHANGED <<mayFail, stored, runtime>>

\* ensure_gpu_buffer: a buffer that is large enough is kept; any other is
\* destroyed before the new one is made.
Ensured(have, bytes) == IF have >= bytes THEN have ELSE bytes

EnsureWork ==
  /\ stage = "work"
  /\ \/ /\ capacity' = [b \in WorkBuffers |-> Ensured(capacity[b], Work(req)[b])]
        /\ stage' = "pools"
        /\ UNCHANGED <<req, at>>
     \/ /\ "work" \in mayFail
        /\ \E f \in WorkBuffers :
             /\ capacity[f] < Work(req)[f]
             /\ capacity' = [b \in WorkBuffers |->
                  IF Place[b] < Place[f] THEN Ensured(capacity[b], Work(req)[b])
                  ELSE IF b = f THEN 0 ELSE capacity[b]]
        /\ Leave
  /\ UNCHANGED <<mayFail, stored, kCache, vCache, known, made, sets>>

\* The descriptor pool is made if it is missing, the command objects, in order,
\* if the command pool is missing.  One that fails leaves those before it.
FirstObjects ==
  {{}, {"command_pool"}, {"command_pool", "command_buffer"},
   {"command_pool", "command_buffer", "fence"}}

\* Wrong on purpose: the pool is never reset.
ResetNot == sets

\* vkResetDescriptorPool gives all sets back.
Reset == 0

\* Wrong on purpose: the result of vkCreateDescriptorPool is not checked.
MakePoolsUnchecked ==
  /\ stage = "pools"
  /\ \/ made' = Objects
     \/ "descriptor_pool" \in mayFail /\ made' = made \cup CommandObjects
  /\ stage' = "layers"
  /\ sets' = Reset
  /\ UNCHANGED <<mayFail, req, at, stored, capacity, kCache, vCache, known>>

MakePools ==
  /\ stage = "pools"
  /\ \/ /\ made' = IF "command_pool" \in made THEN made \cup {"descriptor_pool"}
                                              ELSE Objects
        /\ stage' = "layers"
        /\ sets' = Reset
        /\ UNCHANGED <<req, at>>
     \/ /\ "descriptor_pool" \in mayFail
        /\ "descriptor_pool" \notin made
        /\ Leave
        /\ UNCHANGED <<made, sets>>
     \/ /\ "command_objects" \in mayFail
        /\ "command_pool" \notin made
        /\ \E some \in FirstObjects : made' = made \cup {"descriptor_pool"} \cup some
        /\ Leave
        /\ UNCHANGED sets
  /\ UNCHANGED <<mayFail, stored, capacity, kCache, vCache, known>>

SameDims(m, n) ==
  /\ m # NoModel
  /\ Dims[m].hidden = Dims[n].hidden
  /\ Dims[m].ffn = Dims[n].ffn
  /\ Dims[m].heads * Dims[m].headDim = Dims[n].heads * Dims[n].headDim
  /\ KvElements(m) = KvElements(n)

\* A tensor of the layer is not loaded or does not have the request's shape.
LayerRefused ==
  /\ stage = "layers"
  /\ ~SameDims(stored[at], req.model)
  /\ Leave
  /\ UNCHANGED <<mayFail, stored, runtime>>

\* Wrong on purpose: a longer context does not count as a change.
ChangedKv(l) == known[l].kv # KvElements(req.model)

\* The cache is looked at only when the request differs from the last one.
Changed(l) ==
  \/ known[l].context # req.context
  \/ known[l].kv # KvElements(req.model)

Remembered(l) ==
  [known EXCEPT ![l] = [context |-> req.context, kv |-> KvElements(req.model)]]

Grown(caches, l) == [caches EXCEPT ![l] = Ensured(@, CacheBytes(req))]

\* The context is recorded, then the first cache, or the second, cannot be made:
\* the one there was is gone.
CacheAllocationFails ==
  /\ "cache" \in mayFail
  /\ stage = "layers"
  /\ SameDims(stored[at], req.model)
  /\ Changed(at)
  /\ known' = Remembered(at)
  /\ \/ /\ kCache[at] < CacheBytes(req)
        /\ kCache' = [kCache EXCEPT ![at] = 0]
        /\ UNCHANGED vCache
     \/ /\ vCache[at] < CacheBytes(req)
        /\ vCache' = [vCache EXCEPT ![at] = 0]
        /\ kCache' = Grown(kCache, at)
  /\ Leave
  /\ UNCHANGED <<mayFail, stored, capacity, made, sets>>

\* Wrong on purpose: sets are counted before those of the layer.
PoolExhaustedBefore == sets > MaxSets

PoolExhausted == sets + SetsPerLayer > MaxSets

\* The layer's commands go into the command buffer; the next layer follows.
\* When the pool has no sets left the allocation of one of them fails.
RecordLayer ==
  /\ stage = "layers"
  /\ SameDims(stored[at], req.model)
  /\ IF Changed(at)
       THEN known' = Remembered(at) /\ kCache' = Grown(kCache, at) /\ vCache' = Grown(vCache, at)
       ELSE UNCHANGED <<known, kCache, vCache>>
  /\ IF PoolExhausted
       THEN sets' = MaxSets /\ Leave
       ELSE /\ sets' = sets + SetsPerLayer
            /\ stage' = IF at = req.last THEN "submit" ELSE "layers"
            /\ at' = IF at = req.last THEN at ELSE at + 1
            /\ UNCHANGED req
  /\ UNCHANGED <<mayFail, stored, capacity, made>>

\* Submitted, waited for and read back.
Submit ==
  /\ stage = "submit"
  /\ Leave
  /\ UNCHANGED <<mayFail, stored, runtime>>

RunLayerRange ==
  EnsureWork \/ MakePools \/ LayerRefused \/ CacheAllocationFails \/ RecordLayer \/ Submit

Next ==
  \/ \E l \in Layers, m \in Models : StoreLayer(l, m)
  \/ \E r \in Requests : Receive(r)
  \/ RunLayerRange

Spec == Init /\ [][Next]_vars

-------------------------------------------------------------------------------
\* The layers whose commands are in the command buffer.
Recorded == IF stage = "submit" THEN req.first .. req.last
            ELSE IF stage = "layers" THEN req.first .. at - 1 ELSE {}

\* No dispatch or copy reaches past the end of a work buffer, whatever the
\* dimensions and contexts of the requests before it.
WorkFits ==
  stage \in {"layers", "submit"} => \A b \in Bound(req) : b[2] <= capacity[b[1]]

\* The caches of a layer in the command buffer hold all rows the attention
\* binds and the row the request writes.
CachesFit ==
  \A l \in Recorded :
    /\ CacheBytes(req) <= kCache[l] /\ CacheBytes(req) <= vCache[l]
    /\ RowEnd(req) <= kCache[l] /\ RowEnd(req) <= vCache[l]

\* Only a failing cache allocation ever leaves a cache too small.
CachesFitUnlessLost == "cache" \notin mayFail => CachesFit

\* Pools, command buffer, fence and query pool all exist when
\* ensure_execution_runtime returns, whatever failed in earlier requests.
ObjectsReady == stage \in {"layers", "submit"} => made = Objects

\* Only a failing command object ever leaves another one out.
ObjectsReadyUnlessLost == "command_objects" \notin mayFail => ObjectsReady

\* Once its layers are stored, a range of at most as many layers as the pool has
\* sets for is recorded to its end: no number of requests before it, of any
\* shape, finished or failed, wears the runtime out, if its caches can be made.
Served(r) ==
  /\ \A l \in r.first .. r.last : SameDims(stored[l], r.model)
  /\ (r.last - r.first + 1) * SetsPerLayer <= MaxSets
  /\ "cache" \notin mayFail
NeverWornOut == [][stage = "layers" /\ Served(req) => stage' # "idle"]_vars

===============================================================================
