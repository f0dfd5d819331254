------------------------------ MODULE TensorStore ------------------------------
(***************************************************************************)
(* VulkanContext::store_tensor: the phone's tensor registry.  Two hash     *)
(* maps (tensor_names_: name -> id, tensors_: id -> tensor) and a u32 id   *)
(* counter that is never reset.  The registry outlives a connection.       *)
(*                                                                         *)
(* An upload is abstracted to its name and its content (GGUF type,         *)
(* dimensions, element count and bytes); the registry never compares bytes *)
(* but the metadata of the content, which ends in a 64-bit hash.           *)
(***************************************************************************)
EXTENDS Integers

CONSTANTS
  Names,
  Contents,
  NoContent,
  Acceptable,  \* contents of a supported type, right size and not too large
  Meta,        \* Meta[c]: type, sizes, dims and content_hash64 of c
  IdSpace,     \* ids are std::uint32_t: 2^32 of them in the code
  NoTensor     \* an id that tensors_ does not hold

ASSUME IdSpaceAssumption == IdSpace \in Nat /\ IdSpace > 1
ASSUME ContentAssumption == NoContent \notin Contents /\ Acceptable \subseteq Contents
ASSUME NoTensorAssumption == NoTensor \notin [name : Names, content : Contents]

\* The registry trusts the hash: contents with equal metadata are equal.
ASSUME HashAssumption == \A c, d \in Contents : Meta[c] = Meta[d] => c = d

Ids == 0 .. IdSpace - 1
NoId == -1                  \* a name that tensor_names_ does not hold
FirstId == 1
Tensors == [name : Names, content : Contents]

VARIABLES
  nameId,    \* tensor_names_
  tensors,   \* tensors_
  nextId,    \* next_tensor_id_
  answer     \* what the last call returned

vars == <<nameId, tensors, nextId, answer>>

\* TENSOR_LOADED: the request's name and content, and the content and id of
\* the tensor that the registry answered with.
Loaded(n, c, held, id) ==
  [result |-> "loaded", name |-> n, asked |-> c, held |-> held, id |-> id]
Refused == [result |-> "error"]
Nothing == [result |-> "none"]
Answers == {Refused, Nothing}
             \cup {Loaded(n, c, held, id) :
                       n \in Names, c \in Contents, held \in Contents, id \in Ids}

TypeOK ==
  /\ nameId \in [Names -> Ids \cup {NoId}]
  /\ tensors \in [Ids -> Tensors \cup {NoTensor}]
  /\ nextId \in Ids
  /\ answer \in Answers

Init ==
  /\ nameId = [n \in Names |-> NoId]
  /\ tensors = [i \in Ids |-> NoTensor]
  /\ nextId = FirstId
  /\ answer = Nothing

\* next_tensor_id_++ on a std::uint32_t.
Successor(id) == (id + 1) % IdSpace

\* std::unordered_map::emplace keeps an element already there.
Emplaced(map, key, value, absent) ==
  IF map[key] = absent THEN [map EXCEPT ![key] = value] ELSE map

Known(n) == nameId[n] # NoId
Indexed(n) == Known(n) /\ tensors[nameId[n]] # NoTensor
SameMeta(n, c) == Meta[tensors[nameId[n]].content] = Meta[c]
NeverExhausted == FALSE  \* wrong on purpose: the counter just wraps
Exhausted == nextId = 0

\* A type the shaders cannot read, a byte count that does not fit the element
\* count, or more bytes than maxStorageBufferRange.
RefuseContent(n, c) ==
  /\ c \notin Acceptable
  /\ answer' = Refused
  /\ UNCHANGED <<nameId, tensors, nextId>>

\* The name is registered: same metadata is the answer of the first upload,
\* other metadata and a registered name without a tensor are refused.
Reload(n, c) ==
  /\ c \in Acceptable
  /\ Known(n)
  /\ answer' = IF Indexed(n) /\ SameMeta(n, c)
                 THEN Loaded(n, c, tensors[nameId[n]].content, nameId[n])
                 ELSE Refused
  /\ UNCHANGED <<nameId, tensors, nextId>>

RefuseExhausted(n, c) ==
  /\ c \in Acceptable
  /\ ~Known(n)
  /\ Exhausted
  /\ answer' = Refused
  /\ UNCHANGED <<nameId, tensors, nextId>>

\* Wrong on purpose: a known name is stored again.
FreshAlways(n, c) == c \in Acceptable /\ ~Exhausted

\* The name is free and there is an id for it.
Fresh(n, c) == c \in Acceptable /\ ~Known(n) /\ ~Exhausted

\* Wrong on purpose: the name is registered before the memory is there.
DeviceAllocationFailsNamed(n, c) ==
  /\ Fresh(n, c)
  /\ nameId' = [nameId EXCEPT ![n] = nextId]
  /\ answer' = Refused
  /\ UNCHANGED <<tensors, nextId>>

\* vkCreateBuffer, vkAllocateMemory, bind or map failed: buffer and memory are
\* released and no id was taken yet.
DeviceAllocationFails(n, c) ==
  /\ Fresh(n, c)
  /\ answer' = Refused
  /\ UNCHANGED <<nameId, tensors, nextId>>

\* The host ran out of memory after next_tensor_id_++, while copying the name
\* and dimensions or in tensor_names_.emplace: the id is lost.
IdLost(n, c) ==
  /\ Fresh(n, c)
  /\ nextId' = Successor(nextId)
  /\ answer' = Refused
  /\ UNCHANGED <<nameId, tensors>>

\* The host ran out of memory in tensors_.emplace: the name stays in
\* tensor_names_ and the GPU buffer it stood for is freed.
TensorLost(n, c) ==
  /\ Fresh(n, c)
  /\ nextId' = Successor(nextId)
  /\ nameId' = [nameId EXCEPT ![n] = nextId]
  /\ answer' = Refused
  /\ UNCHANGED tensors

Store(n, c) ==
  /\ Fresh(n, c)
  /\ nextId' = Successor(nextId)
  /\ nameId' = [nameId EXCEPT ![n] = nextId]
  /\ tensors' = Emplaced(tensors, nextId, [name |-> n, content |-> c], NoTensor)
  /\ answer' = Loaded(n, c, c, nextId)

StoreTensor(n, c) ==
  \/ RefuseContent(n, c)
  \/ Reload(n, c)
  \/ RefuseExhausted(n, c)
  \/ DeviceAllocationFails(n, c)
  \/ IdLost(n, c)
  \/ TensorLost(n, c)
  \/ Store(n, c)

Next == \E n \in Names, c \in Contents : StoreTensor(n, c)

Spec == Init /\ [][Next]_vars

-------------------------------------------------------------------------------
\* Two names never share an id, and a tensor is filed under the id of its own
\* name (the shaders read whatever buffer the id leads to).
IndexSound ==
  /\ \A m, n \in Names : Known(m) /\ nameId[m] = nameId[n] => m = n
  /\ \A n \in Names : Indexed(n) => tensors[nameId[n]].name = n

\* A TENSOR_LOADED answer is about a tensor the registry holds under the asked
\* name and the answered id, and its content is the one that was asked for,
\* whether it was stored by this call or by one of an earlier connection.
AnswerHeld ==
  answer.result = "loaded" =>
    /\ nameId[answer.name] = answer.id
    /\ tensors[answer.id] = [name |-> answer.name, content |-> answer.held]
    /\ answer.held = answer.asked

\* A tensor is never replaced under its id, and an id once taken is never
\* given to another name, although the counter is a wrapping 32-bit integer.
NeverReassigned ==
  [][/\ \A i \in Ids : tensors[i] # NoTensor => tensors'[i] = tensors[i]
     /\ \A n \in Names : Known(n) => nameId'[n] = nameId[n]
     /\ \A n \in Names : nameId'[n] # nameId[n] =>
          \A m \in Names : nameId[m] # nameId'[n]]_vars

\* Every registered name has its tensor: what the lookup at line 63 takes for
\* granted (it calls the opposite an inconsistent index) and layer execution
\* assumes when it calls tensors_.at.
IndexComplete == \A n \in Names : Known(n) => Indexed(n)

\* Only running out of host memory between the two maps leaves a name without
\* its tensor: no other failure of an upload does.
IndexKept ==
  [][IndexComplete => IndexComplete' \/ \E n \in Names, c \in Contents : TensorLost(n, c)]_vars

\* The registry is a write-once store.
Binding == [n \in Names |-> IF Indexed(n) THEN tensors[nameId[n]].content
                                          ELSE NoContent]
Abstract == INSTANCE WriteOnceStore WITH bound <- Binding
ImplementsStore == Abstract!Spec

===============================================================================
