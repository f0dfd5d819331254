------------------------------- MODULE Payloads -------------------------------
(***************************************************************************)
(* What is inside the frames.  The client and the phone each have their    *)
(* own code for the payloads; this module takes a call of the client       *)
(* through the client's encoding, the phone's decoding with its refusals,  *)
(* the phone's encoding of the response and the client's checks of it.     *)
(*                                                                         *)
(* A payload is a sequence of cells, one per integer whatever its width    *)
(* and one per character or byte of data.  Other programs may connect too: *)
(* their payloads are those of the client with some cells changed.         *)
(***************************************************************************)
EXTENDS Integers, SequencesExt

CONSTANTS
  Word,          \* number of values of an integer: 2^64 in the code
  Basis, Prime,  \* of the FNV-1a hash
  ExclusiveOr(_, _),  \* exclusive or of the bits of two integers
  MaxRank, MaxName, MaxPayload,
  Tensors,     \* tensors the client may upload: [type, dims, name, data]
  Ranges,      \* layer ranges it may run: [first, last, ..., input]
  Backends,    \* values of --remote-backend on the wire
  MaxChanges,  \* bound: cells in which a foreign payload differs
  None

Cells == 0 .. Word - 1

ASSUME PayloadsAssumption ==
  /\ Word \in Nat \ {0, 1} /\ Basis \in Cells /\ Prime \in Nat
  /\ \A a, b \in Cells : ExclusiveOr(a, b) \in Nat
  /\ MaxRank \in Nat /\ MaxName \in Nat /\ MaxPayload \in Nat
  /\ None \notin Cells /\ Backends \subseteq Cells /\ MaxChanges \in Nat

\* Lengths are written as integers.
ASSUME CallsAssumption ==
  /\ \A t \in Tensors :
       /\ t.type \in Cells
       /\ \A s \in {t.dims, t.name, t.data} : s \in Seq(Cells) /\ Len(s) \in Cells
  /\ \A r \in Ranges :
       /\ {r.first, r.last, r.position, r.max_context, r.ffn, r.heads, r.kv_heads, r.head_dim,
           r.epsilon, r.theta} \subseteq Cells
       /\ r.input \in Seq(Cells) /\ Len(r.input) \in Cells

ProtocolVersion == 1
AutoBackend == 0
VulkanGpu == 1

\* content_hash64
Hash(bytes) ==
  LET upTo[n \in 0 .. Len(bytes)] ==
        IF n = 0 THEN Basis ELSE (ExclusiveOr(upTo[n - 1], bytes[n]) * Prime) % Word
  IN upTo[Len(bytes)]

VARIABLES
  call,     \* what the client is asked to do
  wire,     \* the payload of the request
  changes,  \* cells changed
  got,      \* what the phone decoded
  answer,   \* the payload of its response
  result,   \* what the call returns
  phase

payloadsVars == <<call, wire, changes, got, answer, result, phase>>

-------------------------------------------------------------------------------
(* LOAD_TENSOR *)

Product(dims) ==
  LET upTo[n \in 0 .. Len(dims)] == IF n = 0 THEN 1 ELSE upTo[n - 1] * dims[n]
  IN upTo[Len(dims)]

\* GgufTensorInfo::element_count wraps.
ElementCount(dims) == Product(dims) % Word

TensorPayload(t) ==
  <<t.type, Len(t.dims), 0, ElementCount(t.dims), Len(t.data), Hash(t.data),
    Len(t.name), 0>> \o t.dims \o t.name \o t.data

\* The client's own limits: make_load_tensor_payload and send_frame.
MaySendTensor(t) ==
  /\ Len(t.dims) \in 1 .. MaxRank
  /\ Len(t.name) \in 1 .. MaxName
  /\ Len(TensorPayload(t)) <= MaxPayload

\* The phone's reading of the fields behind the eight of fixed length.
Rank(p) == p[2]
NameLen(p) == p[7]
Metadata(p) == 8 + Rank(p) + NameLen(p)
DimsOf(p) == SubSeq(p, 9, 8 + Rank(p))
NameOf(p) == SubSeq(p, 9 + Rank(p), Metadata(p))
DataOf(p) == SubSeq(p, Metadata(p) + 1, Len(p))

\* Wrong on purpose: the product is not guarded against overflow.
MultiplyWrapping(n, d) == IF n = None \/ d = 0 THEN None ELSE (n * d) % Word

\* One dimension more in the product; None once it is refused.
Multiply(n, d) ==
  IF n = None \/ d = 0 \/ n > (Word - 1) \div d THEN None ELSE (n * d) % Word

\* The product as the phone counts it.
Counted(dims) ==
  LET upTo[n \in 0 .. Len(dims)] == IF n = 0 THEN 1 ELSE Multiply(upTo[n - 1], dims[n])
  IN upTo[Len(dims)]

DataFits(p) == Metadata(p) <= Len(p) /\ p[5] = Len(p) - Metadata(p)

TensorAccepted(p) ==
  /\ Len(p) >= 8
  /\ p[3] = 0 /\ p[8] = 0
  /\ Rank(p) \in 1 .. MaxRank
  /\ NameLen(p) \in 1 .. MaxName
  /\ p[5] \in 1 .. MaxPayload
  /\ DataFits(p)
  /\ Counted(DimsOf(p)) = p[4]
  /\ Hash(DataOf(p)) = p[6]

TensorDecoded(p) ==
  [kind |-> "tensor", type |-> p[1], dims |-> DimsOf(p), name |-> NameOf(p), data |-> DataOf(p)]

\* TENSOR_LOADED: the id and the size of the allocation come from the registry.
TensorLoadedPayload(t, id, allocated) ==
  <<id, t.type, Len(t.data), allocated, Hash(t.data), Len(t.name), 0>> \o t.name

\* Wrong on purpose: any tensor of the same size will do.
TensorVerifiedBySize(t, p) == Len(p) >= 7 /\ p[3] = Len(t.data)

\* The client's verification of it.
TensorVerified(t, p) ==
  /\ Len(p) >= 7 /\ Len(p) = 7 + p[6]
  /\ p[2] = t.type /\ p[3] = Len(t.data) /\ p[5] = Hash(t.data)
  /\ SubSeq(p, 8, 7 + p[6]) = t.name

-------------------------------------------------------------------------------
(* RUN_LAYER_RANGE; of a float only its being above zero matters. *)

\* Wrong on purpose: the last two fields change places.
RangePayloadSwapped(r) ==
  <<r.first, r.last, r.position, r.max_context, Len(r.input), r.ffn, r.heads,
    r.kv_heads, r.head_dim, r.theta, r.epsilon, Hash(r.input)>> \o r.input

RangePayload(r) ==
  <<r.first, r.last, r.position, r.max_context, Len(r.input), r.ffn, r.heads,
    r.kv_heads, r.head_dim, r.epsilon, r.theta, Hash(r.input)>> \o r.input

RangeAccepted(p) ==
  /\ Len(p) >= 12
  /\ p[1] <= p[2]
  /\ p[4] # 0 /\ p[3] < p[4]
  /\ \A i \in 5 .. 9 : p[i] # 0
  /\ p[7] % p[8] = 0
  /\ p[10] > 0 /\ p[11] > 0
  /\ 12 + p[5] = Len(p)
  /\ Hash(SubSeq(p, 13, Len(p))) = p[12]

RangeDecoded(p) ==
  [kind |-> "range", first |-> p[1], last |-> p[2], position |-> p[3], max_context |-> p[4],
   ffn |-> p[6], heads |-> p[7], kv_heads |-> p[8], head_dim |-> p[9],
   epsilon |-> p[10], theta |-> p[11], input |-> SubSeq(p, 13, Len(p))]

ResultPayload(r, output, ns) ==
  <<r.first, r.last, r.position, Len(output), Hash(output), ns>> \o output

ResultVerified(r, p) ==
  /\ Len(p) >= 6
  /\ p[1] = r.first /\ p[2] = r.last /\ p[3] = r.position
  /\ p[4] = Len(r.input)
  /\ Len(p) = 6 + p[4]
  /\ Hash(SubSeq(p, 7, Len(p))) = p[5]

-------------------------------------------------------------------------------
(* HELLO *)

HelloPayload(h) == <<ProtocolVersion, ProtocolVersion, h.backend, 0>>

HelloAccepted(p) ==
  /\ Len(p) = 4 /\ p[4] = 0
  /\ p[1] <= ProtocolVersion /\ ProtocolVersion <= p[2]
  /\ p[3] \in {AutoBackend, VulkanGpu}

HelloDecoded(p) ==
  [kind |-> "hello", minimum |-> p[1], maximum |-> p[2], backend |-> p[3]]

\* The device's name and properties are cut down to one cell each.
CapabilitiesPayload == <<ProtocolVersion, VulkanGpu, 0, 0>>

CapabilitiesVerified(p) == Len(p) >= 2

-------------------------------------------------------------------------------
Calls ==
  {[kind |-> "tensor", type |-> t.type, dims |-> t.dims, name |-> t.name, data |-> t.data]
     : t \in Tensors}
    \cup {[kind |-> "range", first |-> r.first, last |-> r.last, position |-> r.position,
           max_context |-> r.max_context, ffn |-> r.ffn, heads |-> r.heads,
           kv_heads |-> r.kv_heads, head_dim |-> r.head_dim, epsilon |-> r.epsilon,
           theta |-> r.theta, input |-> r.input] : r \in Ranges}
    \cup {[kind |-> "hello", minimum |-> ProtocolVersion, maximum |-> ProtocolVersion,
           backend |-> b] : b \in Backends}

Payload(c) ==
  CASE c.kind = "tensor" -> TensorPayload(c)
    [] c.kind = "range" -> RangePayload(c)
    [] OTHER -> <<c.minimum, c.maximum, c.backend, 0>>

MaySend(c) ==
  CASE c.kind = "tensor" -> MaySendTensor(c)
    [] c.kind = "range" -> c.first <= c.last /\ Len(RangePayload(c)) <= MaxPayload
    [] OTHER -> TRUE

Accepted(p) ==
  CASE call.kind = "tensor" -> TensorAccepted(p)
    [] call.kind = "range" -> RangeAccepted(p)
    [] OTHER -> HelloAccepted(p)

Decoded(p) ==
  CASE call.kind = "tensor" -> TensorDecoded(p)
    [] call.kind = "range" -> RangeDecoded(p)
    [] OTHER -> HelloDecoded(p)

Verified(p) ==
  CASE call.kind = "tensor" -> TensorVerified(call, p)
    [] call.kind = "range" -> ResultVerified(call, p)
    [] OTHER -> CapabilitiesVerified(p)

PayloadsInit ==
  /\ call \in Calls
  /\ wire = <<>> /\ changes = 0 /\ got = None /\ answer = <<>> /\ result = None
  /\ phase = "called"

Send ==
  /\ phase = "called"
  /\ IF MaySend(call)
       THEN wire' = Payload(call) /\ phase' = "sent"
       ELSE phase' = "failed" /\ UNCHANGED wire
  /\ UNCHANGED <<call, changes, got, answer, result>>

\* Another program's payload: a cell has another value, is missing or is added.
Change ==
  /\ phase = "sent" /\ changes < MaxChanges
  /\ changes' = changes + 1
  /\ \/ \E i \in DOMAIN wire, v \in Cells : wire' = [wire EXCEPT ![i] = v]
     \/ wire # <<>> /\ wire' = Front(wire)
     \/ \E v \in Cells : wire' = Append(wire, v)
  /\ UNCHANGED <<call, got, answer, result, phase>>

\* The phone decodes the payload; what it does with it is other modules'
\* business; its answer carries any id, size, time and output.
Decode ==
  /\ phase = "sent"
  /\ IF Accepted(wire)
       THEN /\ got' = Decoded(wire)
            /\ phase' = "answered"
            /\ \/ call.kind = "tensor" /\ answer' = TensorLoadedPayload(got', 1, 1)
               \/ /\ call.kind = "range"
                  /\ \E output \in [1 .. Len(got'.input) -> {0, Word - 1}] :
                       answer' = ResultPayload(got', output, 1)
               \/ call.kind = "hello" /\ answer' = CapabilitiesPayload
       ELSE phase' = "error" /\ UNCHANGED <<got, answer>>
  /\ UNCHANGED <<call, wire, changes, result>>

\* The client checks the response; after ERROR or a mismatch it throws.
ReceiveAnswer ==
  /\ phase \in {"answered", "error"}
  /\ IF phase = "answered" /\ Verified(answer)
       THEN phase' = "done" /\ result' = IF call.kind = "range" THEN SubSeq(answer, 7, Len(answer))
                                         ELSE <<>>
       ELSE phase' = "failed" /\ UNCHANGED result
  /\ UNCHANGED <<call, wire, changes, got, answer>>

PayloadsNext == Send \/ Change \/ Decode \/ ReceiveAnswer

PayloadsSpec == PayloadsInit /\ [][PayloadsNext]_payloadsVars

-------------------------------------------------------------------------------
PayloadsTypeOK ==
  /\ call \in Calls
  /\ wire \in Seq(Cells) /\ answer \in Seq(Cells)
  /\ changes \in 0 .. MaxChanges
  /\ got # None => got.kind = call.kind
  /\ result = None \/ result \in Seq(Cells)
  /\ phase \in {"called", "sent", "answered", "error", "done", "failed"}

\* A call that cannot be carried out: a tensor without data or elements or with
\* more elements than an integer counts, a range outside the model or the
\* context, another backend than the phone has.
Hopeless(c) ==
  CASE c.kind = "tensor" -> c.data = <<>> \/ Product(c.dims) \notin 1 .. Word - 1
    [] c.kind = "range" ->
         \/ c.position >= c.max_context \/ c.input = <<>>
         \/ 0 \in {c.ffn, c.heads, c.kv_heads, c.head_dim, c.epsilon, c.theta}
         \/ ~ \E group \in Cells : c.heads = group * c.kv_heads
    [] OTHER -> c.backend \notin {AutoBackend, VulkanGpu}

\* The two codecs agree: what the client sends is decoded to just what it
\* meant, and the phone only refuses what cannot be carried out.
Understood ==
  phase \notin {"called", "sent"} /\ changes = 0 /\ MaySend(call) =>
    IF Hopeless(call) THEN got = None ELSE got = call

\* The decoder takes nothing but exact encodings, whoever sends them: no cell
\* is ignored, no length taken on trust, and the element count is the product
\* of the dimensions, not the product modulo the word.
ExactlyDecoded ==
  got # None =>
    /\ Payload(got) = wire
    /\ got.kind = "tensor" => Product(got.dims) = wire[4]

\* A call of the client that the phone carried out as it was sent returns, and
\* a call returns only if the phone decoded it as the same tensor or the same
\* layers, position and size, whatever happened to the request on its way; a
\* layer range then has an output of the size of its input.
AnswerFits ==
  /\ changes = 0 /\ got # None => phase # "failed"
  /\ phase = "done" =>
       /\ call.kind = "tensor" =>
            /\ got.name = call.name /\ got.type = call.type
            /\ Len(got.data) = Len(call.data) /\ Hash(got.data) = Hash(call.data)
       /\ call.kind = "range" =>
            /\ got.first = call.first /\ got.last = call.last
            /\ got.position = call.position /\ Len(got.input) = Len(call.input)
            /\ changes = 0 => Len(result) = Len(call.input)

===============================================================================
