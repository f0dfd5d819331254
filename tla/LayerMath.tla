------------------------------- MODULE LayerMath -------------------------------
(***************************************************************************)
(* One layer computed for one token after another, on the PC by CUDA       *)
(* kernels or on the phone by shaders, element by element.  An element is  *)
(* the quantity it holds: the name that the mathematics of the layer gives *)
(* to what was computed, or Garbage.  Kernels follow one another: the PC   *)
(* has one stream, and Submission shows it of the phone.                   *)
(***************************************************************************)
EXTENDS Integers, Sequences, FiniteSets

CONSTANTS
  Models,      \* [heads, kv, dim, hidden, ff, biases, headNorms]
  MaxContext,
  Block,       \* threads of a block, invocations of a workgroup (256)
  HeadGroup,   \* invocations of a workgroup of attention_value (128)
  MaxDim,      \* the largest head that the phone accepts (256)
  Garbage

ASSUME LayerMathAssumption ==
  /\ MaxContext \in Nat \ {0} /\ Block \in Nat \ {0}
  /\ HeadGroup \in Nat \ {0} /\ MaxDim \in Nat
  /\ \A m \in Models :
       /\ m.heads \in Nat \ {0} /\ m.kv \in Nat \ {0} /\ m.dim \in Nat \ {0, 1}
       /\ m.hidden \in Nat \ {0} /\ m.ff \in Nat \ {0}
       \* Whole blocks of quantized weights; shared out, as load requires.
       /\ m.hidden % 2 = 0 /\ m.ff % 2 = 0 /\ m.heads % m.kv = 0
  \* A workgroup of attention_value has an invocation for each word of a head.
  /\ MaxDim <= 2 * HeadGroup

VARIABLES
  backend,   \* "pc" or "phone"
  model,
  phase,     \* "ready", "running", "computed" or "refused"
  position,  \* of the token at hand
  at,        \* steps taken for it
  memory,    \* buffer -> index -> what the element holds
  strayed    \* a kernel wrote outside of a buffer

layerVars == <<backend, model, phase, position, at, memory, strayed>>

-----------------------------------------------------------------------------
(* Buffers. *)

QSize == model.heads * model.dim
KvSize == model.kv * model.dim

Larger(a, b) == IF a > b THEN a ELSE b

Size ==
  [x |-> model.hidden, norm |-> model.hidden, q |-> QSize, k |-> KvSize, v |-> KvSize,
   attention |-> QSize,
   projection |-> IF backend = "phone" THEN Larger(model.hidden, QSize) ELSE model.hidden,
   gate |-> model.ff, up |-> model.ff, activation |-> model.ff, ffnOutput |-> model.hidden,
   scores |-> model.heads * MaxContext,
   kCache |-> MaxContext * KvSize, vCache |-> MaxContext * KvSize]

Inside(buffer, i) == i \in 0 .. Size[buffer] - 1

Value(buffer, i) == IF Inside(buffer, i) THEN memory[buffer][i] ELSE Garbage

\* n elements from the one at base.
Slice(buffer, base, n) == [j \in 0 .. n - 1 |-> Value(buffer, base + j)]

-----------------------------------------------------------------------------
(* The mathematics of a layer.  A vector has a name, and an element of it    *)
(* is <<vector, position, index>>; Definition says what it is made of.       *)

Matrices == {"attn_q", "attn_k", "attn_v", "attn_output", "ffn_gate", "ffn_up", "ffn_down"}

Input == <<"input", "layer">>

\* W x, with its bias if there is one.
Projected(w) == IF w \in model.biases THEN <<"biased", w>> ELSE <<"product", w>>

\* Queries or keys of the token, normed by heads if there is a norm.
Normed(w) == IF w \in model.headNorms THEN <<"normed", w>> ELSE Projected(w)

AfterAttention == <<"sum", "attn_output">>
Output == <<"sum", "ffn_down">>

Operand(w) ==
  CASE w \in {"attn_q", "attn_k", "attn_v"} -> <<"norm", "attn_norm">>
    [] w = "attn_output" -> <<"attended", "heads">>
    [] w \in {"ffn_gate", "ffn_up"} -> <<"norm", "ffn_norm">>
    [] w = "ffn_down" -> <<"activation", "gate">>

Features(w) ==
  CASE w = "attn_output" -> QSize
    [] w = "ffn_down" -> model.ff
    [] OTHER -> model.hidden

\* n elements of a vector from base on.
Part(vector, p, base, n) == [j \in 0 .. n - 1 |-> <<vector, p, base + j>>]

\* The part of a head, and the head of keys and values that a head of queries
\* shares with its neighbours.
HeadOf(i) == i \div model.dim
InHead(i) == i % model.dim
Shared(h) == h \div (model.heads \div model.kv)

VectorNames ==
  {<<kind, w>> : kind \in {"product", "biased"}, w \in Matrices}
    \cup {<<kind, w>> : kind \in {"normed", "rotated"}, w \in {"attn_q", "attn_k"}}
    \cup {<<"norm", w>> : w \in {"attn_norm", "ffn_norm"}}
    \cup {AfterAttention, Output, <<"score", "heads">>, <<"attended", "heads">>, <<"activation", "gate">>}

Definition(vector, p, i) ==
  LET w == vector[2]
      first == HeadOf(i) * model.dim
      kvFirst(h) == Shared(h) * model.dim
  IN CASE vector[1] = "product" -> <<"dot", w, i, Part(Operand(w), p, 0, Features(w))>>
       [] vector[1] = "biased" -> <<"bias", w, i, <<<<"product", w>>, p, i>>>>
       [] vector[1] = "norm" ->
            LET of == IF w = "attn_norm" THEN Input ELSE AfterAttention
            IN <<"rms", w, i, <<of, p, i>>, Part(of, p, 0, model.hidden)>>
       [] vector[1] = "normed" ->
            <<"rms", w, InHead(i), <<Projected(w), p, i>>, Part(Projected(w), p, first, model.dim)>>
       [] vector[1] = "rotated" ->
            LET half == model.dim \div 2
                pair == InHead(i) % half
            IN <<"rotate", InHead(i) < half, pair, p,
                 <<Normed(w), p, first + pair>>, <<Normed(w), p, first + half + pair>>>>
       \* Scores of head h are numbered from h * MaxContext on.
       [] vector[1] = "score" ->
            LET h == i \div MaxContext
            IN <<"score", Part(<<"rotated", "attn_q">>, p, h * model.dim, model.dim),
                 Part(<<"rotated", "attn_k">>, i % MaxContext, kvFirst(h), model.dim)>>
       [] vector[1] = "attended" ->
            <<"weigh", [t \in 0 .. p |-> <<<<"score", "heads">>, p, HeadOf(i) * MaxContext + t>>],
              [t \in 0 .. p |-> <<Projected("attn_v"), t, kvFirst(HeadOf(i)) + InHead(i)>>]>>
       [] vector[1] = "activation" ->
            <<"swiglu", <<Projected("ffn_gate"), p, i>>, <<Projected("ffn_up"), p, i>>>>
       [] vector[1] = "sum" ->
            <<"add", <<IF w = "attn_output" THEN Input ELSE AfterAttention, p, i>>, <<Projected(w), p, i>>>>

\* What a computed element is called.
Named(term, i) ==
  LET names == {v \in VectorNames : Definition(v, position, i) = term}
  IN IF names = {} THEN Garbage ELSE <<CHOOSE v \in names : TRUE, position, i>>

-----------------------------------------------------------------------------
(* Kernels.  [op, from, with, to, n, m]; what each writes is a set of       *)
(* <<index, element>>, from - and with - the elements it reads.             *)

Kernel(op, from, with, to, n, m) ==
  [op |-> op, from |-> from, with |-> with, to |-> to, n |-> n, m |-> m]

\* Enough groups of so many threads for n elements, or words.
Groups(n, threads) == (n + threads - 1) \div threads
Launched(n, threads) == {g * threads + t : g \in 0 .. Groups(n, threads) - 1, t \in 0 .. threads - 1}

\* Wrong on purpose: all threads work.
EachThread(n) == Launched(n, Block)

\* The threads that have an element, or word, of their own.
Covered(n) == {i \in Launched(n, Block) : i < n}

\* Elements of the words that a shader writes.
Words(n) == (n + 1) \div 2
Halves(words) == {2 * w : w \in words} \cup {2 * w + 1 : w \in words}

\* Elements that kernels with one thread to an element, or word, write.
OwnElements(n) == IF backend = "pc" THEN Covered(n) ELSE Halves(Covered(Words(n)))

\* All of n elements, by elements or by words, as one group takes them in turn.
InTurn(n) == IF backend = "pc" THEN 0 .. n - 1 ELSE Halves(0 .. Words(n) - 1)

\* The phone's words begin at base >> 1.
FirstFrom(base) == IF backend = "pc" THEN base ELSE 2 * (base \div 2)

\* Wrong on purpose: heads take turns with the heads of keys and values.
TurnByTurn(h) == h % model.kv

\* head / (heads / kv_heads)
KvHead(h) == h \div (model.heads \div model.kv)

\* launch_rms_norm, rms_norm.comp
Norm(k) == {<<i, <<"rms", k.with, i, Value(k.from, i), Slice(k.from, 0, k.n)>>>> : i \in InTurn(k.n)}

\* A group for each of m heads.
HeadNorm(k) ==
  {<<FirstFrom(h * k.n) + d,
     <<"rms", k.with, d, Value(k.from, h * k.n + d), Slice(k.from, h * k.n, k.n)>>>> :
     h \in 0 .. k.m - 1, d \in InTurn(k.n)}

\* A group for a row, or for two; a row that does not exist gives 0.
Product(k) ==
  {<<r, IF r < k.m THEN <<"dot", k.with, r, Slice(k.from, 0, k.n)>> ELSE <<"zero">>>> :
     r \in InTurn(k.m)}

Bias(k) == {<<i, <<"bias", k.with, i, Value(k.to, i)>>>> : i \in Covered(k.n)}

AddInplace(k) == {<<i, <<"add", Value(k.to, i), Value(k.with, i)>>>> : i \in OwnElements(k.n)}

Swiglu(k) == {<<i, <<"swiglu", Value(k.from, i), Value(k.with, i)>>>> : i \in OwnElements(k.n)}

\* One element of a pair, of m heads of n elements.
Rotated(k, base, d) ==
  LET half == k.n \div 2
      pair == IF d < half THEN d ELSE d - half
  IN <<"rotate", d < half, pair, position, Value(k.from, base + pair), Value(k.from, base + half + pair)>>

\* A thread to a pair.
RotatePairs(k) ==
  {<<h * k.n + d, Rotated(k, h * k.n, d)>> : h \in 0 .. k.m - 1, d \in 0 .. 2 * (k.n \div 2) - 1}

\* An element of a word, of which a head has n / 2.
RotatedInWord(k, word, lane) ==
  LET perHead == k.n \div 2
      base == (word \div perHead) * k.n
      first == word % perHead
  IN <<2 * (base \div 2 + first) + lane, Rotated(k, base, 2 * first + lane)>>

\* A thread to a word.
RotateWords(k) ==
  {RotatedInWord(k, word, lane) :
     word \in {w \in Launched((k.m * k.n) \div 2, Block) : w < k.m * (k.n \div 2)}, lane \in 0 .. 1}

Rotate(k) == IF backend = "pc" THEN RotatePairs(k) ELSE RotateWords(k)

\* launch_store_kv, vkCmdCopyBuffer
StoreKv(k) ==
  {<<position * k.n + i, Value(k.from, i)>> : i \in IF backend = "pc" THEN Covered(k.n) ELSE 0 .. k.n - 1}

\* A group for each head and position so far.
Scores(k) ==
  {<<h * MaxContext + t, <<"score", Slice(k.from, h * model.dim, model.dim),
                           Slice(k.with, (t * model.kv + KvHead(h)) * model.dim, model.dim)>>>> :
     h \in 0 .. model.heads - 1, t \in 0 .. position}

Weighed(k, h, d) ==
  <<"weigh", Slice(k.from, h * MaxContext, position + 1),
    [t \in 0 .. position |-> Value(k.with, (t * model.kv + KvHead(h)) * model.dim + d)]>>

\* The elements of a head for which a group has a thread, or for whose words.
OneEach(n) ==
  IF backend = "pc" THEN 0 .. n - 1
  ELSE Halves(0 .. (IF Words(n) < HeadGroup THEN Words(n) ELSE HeadGroup) - 1)

\* A group for each head.
Weigh(k) ==
  {<<FirstFrom(h * model.dim) + d, Weighed(k, h, d)>> : h \in 0 .. model.heads - 1, d \in OneEach(model.dim)}

\* What a kernel computes, and for StoreKv what it moves.
Computed(k) ==
  CASE k.op = "norm" -> Norm(k)
    [] k.op = "normHeads" -> HeadNorm(k)
    [] k.op = "product" -> Product(k)
    [] k.op = "bias" -> Bias(k)
    [] k.op = "add" -> AddInplace(k)
    [] k.op = "swiglu" -> Swiglu(k)
    [] k.op = "rotate" -> Rotate(k)
    [] k.op = "scores" -> Scores(k)
    [] k.op = "weigh" -> Weigh(k)
    [] k.op = "none" -> {}

WrittenBy(k) ==
  IF k.op = "store" THEN StoreKv(k) ELSE {<<w[1], Named(w[2], w[1])>> : w \in Computed(k)}

\* An element that is not written stays; threads that disagree leave Garbage.
AfterKernel(k) ==
  [i \in DOMAIN memory[k.to] |->
     LET values == {w[2] : w \in {v \in WrittenBy(k) : v[1] = i}}
     IN IF values = {} THEN memory[k.to][i]
        ELSE IF Cardinality(values) = 1 THEN CHOOSE v \in values : TRUE
        ELSE Garbage]

-----------------------------------------------------------------------------
(* The steps of a layer in their order. *)

\* A step of the layer that launches its kernel only on a condition.
When(condition, k) == IF condition THEN k ELSE [k EXCEPT !.op = "none"]

\* linear_backend_->forward
Forward(w, from, to, n, m) == Kernel("product", from, w, to, n, m)

BiasIfPresent(w, buffer, m) ==
  When(backend = "pc" /\ w \in model.biases, Kernel("bias", buffer, w, buffer, m, 0))

NormHeads(w, buffer, heads) ==
  When(backend = "phone" \/ w \in model.headNorms,
       Kernel("normHeads", buffer, w, buffer, model.dim, heads))

\* On the phone the rotated vectors have buffers of their own.
RotatedQ == IF backend = "pc" THEN "q" ELSE "projection"
RotatedK == IF backend = "pc" THEN "k" ELSE "attention"

Program ==
  <<Kernel("norm", "x", "attn_norm", "norm", model.hidden, 0),
    Forward("attn_q", "norm", "q", model.hidden, QSize),
    BiasIfPresent("attn_q", "q", QSize),
    Forward("attn_k", "norm", "k", model.hidden, KvSize),
    BiasIfPresent("attn_k", "k", KvSize),
    Forward("attn_v", "norm", "v", model.hidden, KvSize),
    BiasIfPresent("attn_v", "v", KvSize),
    NormHeads("attn_q", "q", model.heads),
    NormHeads("attn_k", "k", model.kv),
    Kernel("rotate", "q", "q", RotatedQ, model.dim, model.heads),
    Kernel("rotate", "k", "k", RotatedK, model.dim, model.kv),
    Kernel("store", RotatedK, RotatedK, "kCache", KvSize, 0),
    Kernel("store", "v", "v", "vCache", KvSize, 0),
    Kernel("scores", RotatedQ, "kCache", "scores", 0, 0),
    Kernel("weigh", "scores", "vCache", "attention", 0, 0),
    Forward("attn_output", "attention", "projection", QSize, model.hidden),
    BiasIfPresent("attn_output", "projection", model.hidden),
    Kernel("add", "x", "projection", "x", model.hidden, 0),
    Kernel("norm", "x", "ffn_norm", "norm", model.hidden, 0),
    Forward("ffn_gate", "norm", "gate", model.hidden, model.ff),
    BiasIfPresent("ffn_gate", "gate", model.ff),
    Forward("ffn_up", "norm", "up", model.hidden, model.ff),
    BiasIfPresent("ffn_up", "up", model.ff),
    Kernel("swiglu", "gate", "up", "activation", model.ff, 0),
    Forward("ffn_down", "activation", "ffnOutput", model.ff, model.hidden),
    BiasIfPresent("ffn_down", "ffnOutput", model.hidden),
    Kernel("add", "x", "ffnOutput", "x", model.hidden, 0)>>

-----------------------------------------------------------------------------
\* A layer goes to the phone without biases and with the norms of its heads.
Offloadable == model.biases = {} /\ model.headNorms = {"attn_q", "attn_k"}

\* The dimensions that run_layer_range takes.
Acceptable == model.dim <= MaxDim /\ model.dim % 2 = 0

LayerInit ==
  /\ backend \in {"pc", "phone"} /\ model \in Models
  /\ phase = "ready" /\ position = 0 /\ at = 0
  /\ memory = [b \in DOMAIN Size |-> [i \in 0 .. Size[b] - 1 |-> Garbage]]
  /\ strayed = FALSE

\* By load the layers that are not Offloadable, by run_layer_range the others.
Refuse ==
  /\ phase = "ready" /\ backend = "phone" /\ ~(Offloadable /\ Acceptable)
  /\ phase' = "refused"
  /\ UNCHANGED <<backend, model, position, at, memory, strayed>>

\* The hidden state of the token is in x.
Start ==
  /\ phase = "ready" /\ (backend = "phone" => Offloadable /\ Acceptable)
  /\ memory' = [memory EXCEPT !.x = Part(Input, position, 0, model.hidden)]
  /\ phase' = "running" /\ at' = 0
  /\ UNCHANGED <<backend, model, position, strayed>>

Run ==
  LET k == Program[at + 1] IN
  /\ phase = "running" /\ at < Len(Program)
  /\ memory' = [memory EXCEPT ![k.to] = AfterKernel(k)]
  /\ strayed' = (strayed \/ \E w \in WrittenBy(k) : ~Inside(k.to, w[1]))
  /\ at' = at + 1
  /\ UNCHANGED <<backend, model, phase, position>>

Finish ==
  /\ phase = "running" /\ at = Len(Program)
  /\ phase' = "computed"
  /\ UNCHANGED <<backend, model, position, at, memory, strayed>>

\* The next token of the sequence.
NextToken ==
  /\ phase = "computed" /\ position + 1 < MaxContext
  /\ phase' = "ready" /\ position' = position + 1 /\ at' = 0
  /\ UNCHANGED <<backend, model, memory, strayed>>

LayerNext == Refuse \/ Start \/ Run \/ Finish \/ NextToken

LayerSpec == LayerInit /\ [][LayerNext]_layerVars

-----------------------------------------------------------------------------
\* Rotation by pairs is defined for even heads.  The phone must refuse others;
\* the PC takes them as they come.
Defined == backend = "phone" \/ model.dim % 2 = 0

\* A layer computes the same function of the same operands wherever it runs:
\* what the mathematics says, for each element of the result and each row of
\* the caches, whatever earlier tokens and layers left in the buffers
\* (kernels.cu:485-643, attention_value.comp:18-41, vulkan_context_layer.cpp:40).
AsDefined ==
  phase = "computed" /\ Defined =>
    /\ \A i \in DOMAIN memory.x : memory.x[i] = <<Output, position, i>>
    /\ \A t \in 0 .. position, i \in 0 .. KvSize - 1 :
         /\ memory.kCache[t * KvSize + i] = <<<<"rotated", "attn_k">>, t, i>>
         /\ memory.vCache[t * KvSize + i] = <<Projected("attn_v"), t, i>>

\* No kernel writes outside of its buffer, though launches are rounded up to
\* whole groups and the shaders write two elements at a time
\* (kernels.cu:650-709, residual_add.comp:9-15).
NothingStrays == ~strayed

===============================================================================
