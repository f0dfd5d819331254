# Citlali LLM Engine: a TLA+ model

Citlali runs Qwen3 models on a PC's GPU and can hand some transformer layers to
a phone, which computes them with Vulkan. This directory holds TLA+ modules
translated from its code, the TLC configurations that check them, and TLAPS
proofs of what matters most. Paths below are relative to the repository;
`src/android/...` is the phone's program, `src/src/...` the PC's.

## 1. Inventory

| component | state it keeps | operations | talks to |
|---|---|---|---|
| CLI and session (`src/src/cli/main.cpp`, `src/src/runtime/session.cpp`) | conversation history, position of the generation | load, chat turn, reset, one-shot generation | model, tokenizer (calls) |
| model (`src/src/model/qwen_model.cpp`, `linear_backend.cpp`) | weights and KV cache per local layer, the remote client | load, forward_token, sample | CUDA kernels, remote client (calls) |
| remote client (`src/src/remote/remote_client.cpp`) | socket, next request id, set of uploaded layers | connect + HELLO, upload_layer, run_layer_range | phone (blocking request and response over TCP) |
| TCP server (`src/android/src/tcp_server.cpp`) | listening socket, handshake flag of the one connection it serves | accept, serve one frame, reply, close | Vulkan context (calls) |
| wire protocol (`src/android/src/protocol.cpp`, and the client's own half in `remote_client.cpp`) | none | framing, payload encoding and decoding | server, client |
| tensor registry (`vulkan_context_tensor.cpp`) | name -> id, id -> tensor, next id; **outlives connections** | store_tensor | server |
| layer execution (`vulkan_context_layer.cpp`, `vulkan_context.cpp`) | work buffers, pools, KV caches per layer; **outlive connections** | ensure_execution_runtime, run_layer_range | GPU queue (submit, fence) |
| GGUF reader, weight loader, data types (`gguf_reader.cpp`, `weight_loader.cpp`, `dtype.cpp`, `qwen_config.cpp`) | metadata and tensor descriptions of the file, the configuration, what tensors became in memory | open, read metadata, derive the configuration, convert or keep a tensor | files, model |
| tokenizer (`tokenizer.cpp`) | vocabulary and merge ranks | load, encode, decode token by token | session |
| CUDA kernels (`kernels.cu`), Vulkan shaders (`android/shaders`) | shared memory of a workgroup | unpack a weight, add up a row, floating-point arithmetic | GPU |

What makes each correct, and what is hard to test:

* **Remote offload.** The phone keeps tensors and KV rows across turns,
  connections and clients, and nothing in the protocol names a session: that a
  result was computed from the caller's own weights and own rows depends on the
  order of uploads, ranges and turns. Clients come and go, links drop or go
  silent, the server may die and come back empty; it serves one connection at a
  time and nobody has a timeout.
* **Tensor registry.** Two maps and a wrapping counter updated in sequence,
  each update of which may fail.
* **Layer execution.** Buffers are reallocated on the fly; sizes recorded
  before an allocation fails are trusted by the next request. Within one
  submission the GPU is free to overlap and reorder whatever no barrier keeps
  apart, and a work buffer serves several commands of a layer and all layers.
* **Reductions.** The threads of a workgroup add up a row in memory they share,
  some of them twice over, in lockstep only where a barrier says so.
* **Framing.** `send` and `recv` move any number of bytes; a connection may be
  cut at any of them, and the next one must start clean.
* **Payloads.** Two independently written codecs, boundaries of integers and
  sizes, and checks of responses that decide what the caller goes on with.
* **Session.** One user message, its prompt, its reply and its position count
  relate to each other; a failing turn must not leave them apart.
* **Weights.** A block is unpacked in four places (converter, CUDA kernels,
  shaders by word, shaders by byte), each with index arithmetic of its own, and
  the load policy decides which of them meets which storage.
* **Model files.** Entries and tensors come in any order, with parts left out or
  said twice; what is not said is derived, and where the data begins hangs on
  one rounding. A wrong configuration must not load, a complete file must.
* **Tokenizer.** Merging by rank, special tokens that text can spell, and bytes
  without a token of their own.

## 2. Plan

The order is by what matters most: first the system whose parts run
concurrently, then what it rests on, from the outside in.

| step | module | abstract specification it relates to | state |
|---|---|---|---|
| 1 | `RemoteOffload`: clients, connections, server | uses `WriteOnceStore` as the phone's store | checked, proved (safety) |
| 2 | `TensorStore`: the registry | implements `WriteOnceStore` | checked, proved |
| 3 | `Connection`: frames over bytes | implements `RemoteCall` | checked, proved (safety) |
| 4 | `LayerRuntime`: GPU objects behind one request | | checked, proved |
| 5 | `Session`: the chat loop | | checked, proved (safety) |
| 6 | `Payloads`: what is inside the frames | | checked, proved |
| 7 | `Weights`: from the file's bits to the arithmetic | | checked, proved |
| 8 | `Submission`: the commands of one range on the GPU (table in `LayerCommands`) | implements `InOrder` | checked, proved |
| 9 | `Workgroup`: the reduction of one workgroup | | checked, proved |
| 10 | `Loading`, with `ModelFile` and `Tokenizer`: from the file to a model and to tokens | | checked, proved |
| 11 | `LayerMath`: what the kernels of a layer compute, on either side | | checked, proved |

How the modules compose. `RemoteOffload` is the whole of the offload: it takes
`WriteOnceStore` as an instance for the phone's tensors, which `TensorStore`
implements with two maps and a counter, and it lets frames travel as whole
messages, which `Connection` justifies by implementing `RemoteCall` over a
stream of bytes. `Payloads` looks into a frame that `RemoteOffload` and
`Connection` treat as a record. `LayerRuntime` and `Submission` open the action
`ServeRunLayerRange` of `RemoteOffload`: the first says which buffers and caches
it binds and which allocations may fail on the way, the second what the GPU
does with the commands, and that it comes to the range in one go that
`RemoteOffload` takes it for. `Workgroup` opens one command of `Submission`.
`LayerMath` opens what all commands of a layer make of their operands, for the
submission of the phone and for `RunLocalLayer` of the PC alike.
`Session` opens `StartTurn`, `NextToken` and `EndTurn`: prompt, prediction,
reply and history. `Loading` opens what comes before a session: `ModelFile` and
`Tokenizer` in the order in which the program calls them. `Weights` opens a
tensor's content: from which bits of the file an element is computed, on the PC
and on the phone.

## 3. The modules and the code

`PROJECT.json` maps each definition to its lines. Definitions whose comment
begins with "Wrong on purpose" are plausible mistakes; each property is known
to fail when one of them takes the place of the definition next to it.

**WriteOnceStore.** `bound[n]` is the content a name stands for. One action,
`Bind`. What a client may rely on: a name is bound once, for the life of the
server process.

**TensorStore** (`VulkanContext::store_tensor`). `nameId` is `tensor_names_`,
`tensors` is `tensors_`, `nextId` is the u32 counter, `answer` what the call
returned. The ways through the function are disjuncts of `StoreTensor`: the
content is refused, the name is known and matches (`Reload`) or not, the
counter is exhausted (it wrapped to 0), the device has no memory, the host has
no memory at the first or at the second `emplace` (`IdLost`, `TensorLost`), or
all goes well (`Store`). A tensor is its name and its content. The code
compares the metadata of contents, which ends in a 64-bit hash;
`HashAssumption` says that the hash tells contents apart. The refinement maps
`bound` to the contents that are reachable through both maps.

**RemoteOffload.** Per client: `cstate` (where the process is: blocked in a
`receive_frame`, uploading, computing, at the prompt, gone), `nextReq`
(`next_request_id_`), `layer`, `suffix`, `uploaded` (`uploaded_layers_`),
`turn`, `pos`. Between: `toServer`, `toClient`, and `backlog`, the kernel's
listen queue. Server: `up`, `cur`, `handshake`, `reply`, `bound`, `kv`. Client
actions follow `QwenModel::load` (`Connect`, `RecvCapabilities`,
`LoadLocalLayer`, `SendTensor`, `RecvTensorLoaded`, `ModelLoaded`) and
`forward_token` (`RunLocalLayer`, `SendRange`, `RecvRangeResult`, `NextToken`),
with the merging of adjacent remote layers into one request. `ClientFails` is
the exception that ends the process when a call fails, `ClientDies` is the end
of the process at any point, `ClientVanishes` a link that goes silent without
an end of stream. Server actions are `Accept`, one `Serve...` per request type,
`SendReply`, `CloseConnection`; `ServerCrash` and `ServerStart` lose and remake
everything the process holds. Hidden states are abstracted to what they were
computed from: the output of a range *is* the weights used and the KV rows
attended to. A response taken for another request, or a row left from an
earlier turn, is therefore visible.

**RemoteCall, Connection** (`send_all`, `receive_exact`, `receive_frame`,
`send_frame` of both programs, `serve_client`). A byte is the frame it belongs
to and its place in it; the receiver reads a header from the bytes it got, and
has none if they are not the beginning of one frame. One connection at a time,
any number one after another. `RemoteCall` has `asked`, `answered`, `returned`.

**LayerRuntime** (`run_layer_range`, `ensure_execution_runtime`,
`ensure_gpu_buffer`). A buffer is its capacity. The stages of a request
(`EnsureWork`, `MakePools`, `RecordLayer` per layer, `Submit`) are actions,
since each may end it with an exception and leave its own part done. `known` is
the `max_context` and `kv_elements` remembered per layer. `mayFail` picks the
kinds of allocation that fail in a behaviour.

**Session** (`run_cli`, `chat`, `generate_from_prompt_text`). `mode`,
`history`, `prompt`, `position`, `next`, `text`, `stop`, and `rows`, the KV row
of each position. A prompt is a number of tokens; a prediction is the position
it was made from, so that a reply token says where it comes from. `Fault` is
any exception of the model, the remote client included.

**Payloads** (the encoders and checks of `remote_client.cpp`, the decoders and
encoders of `protocol.cpp` and `tcp_server.cpp`). A payload is a sequence of
cells, one per integer whatever its width and one per character or byte.
`Send`, `Change`, `Decode`, `Receive`: `Change` stands for a client that is not
this one, and changes, adds or cuts a cell. Integers are taken modulo `Word`,
and the hash is FNV-1a of that word.

**Weights** (`gguf_reader.cpp`, `weight_loader.cpp`, `dtype.cpp`,
`linear_backend.cpp`, the matrix and embedding kernels of `kernels.cu`, the
matrix and norm shaders). A value is the list of bit fields of the file it is
computed from. `Convert`/`ConvertStep` are the conversion loops, one iteration
a step; `Keep` keeps quantized blocks; `Use` picks the kernel or shader that
`PcKernel`/`PhoneKernel` dispatch to; `Read` is its index arithmetic. `Format`
is the reference: the block layouts of ggml, stated once, element by element.

**LayerCommands, InOrder, Submission** (`run_layer_range`, from the copy of the
hidden state into `x` to the copy back). `LayerCommands` is the table of what is
recorded for a layer: 14 groups of dispatches or copies, a barrier after each,
and what each command reads and writes. A cell is a work buffer or one row of a
layer's cache; what a command makes of its operands is the constant `Result`.
`Submission` is the GPU: a command begins when the barriers between it and
earlier ones let it (`WaitsFor`, from the stage masks), takes what it reads, and
writes when it ends, while others run. A write that no barrier makes visible to
the reader (`Shown`, from the access masks) may be read as anything. `Refuse`,
`ReadFails` and `DeviceLost` are the failing Vulkan calls before, after and
during the execution. `InOrder` is what this is to look like: one command after
the other, each on what the groups before it left.

**Workgroup** (the reductions of `kernels.cu` and of the matrix, norm and
attention shaders). The threads of one workgroup, each at its own `pc`;
`scratch`, `half` and `data` are shared. `Meet` is a thread's arrival at a
barrier, `Release` the departure of all. A sum is how often each element of each
row went into it, so that an element lost, doubled or taken from the other row
shows. Kinds: one row, a pair of rows whose halves share an output word, a
norm by elements and a norm by words, both in place.

**LayerMath** (`forward_token`, the kernels of `kernels.cu` and the shaders, in
the order of `Program`). An element of a buffer is what it was computed from,
under the name that the mathematics of the layer has for it: `Definition` is
that mathematics, vector by vector, without buffers, strides or threads;
`Computed` is each kernel with its index arithmetic; `Named` looks up what a
computed element is called, and what has no name is `Garbage`. `Run` carries out
one kernel, `NextToken` goes on at the next position with all buffers as they
are. What the phone does not support is refused at load (`Offloadable`) or by
`run_layer_range` (`Acceptable`).

**ModelFile** (`GgufFile::load` and its getters, `QwenConfig::from_gguf`,
`QwenModel::load`). A file is what a writer made of a model, `truth`: entries
and tensor descriptions in their order, an alignment, a size. `ReadEntry`,
`ReadInfo`, `Place`, `Configure`, `LoadGlobals`, `LoadLayer` are the stages, each
with the refusals of its code. Names are pairs: a layer's number and a kind.
`Honest` is what every file is assumed to keep to, `Complete` what a file must
have in addition for the program to owe it a model.

**Tokenizer** (`tokenizer.cpp`). A string is the sequence of its bytes.
`Split` (a special token or a byte), `Merge`, `MergeDone` (pieces become ids)
and `Decode` (an id at a time) are the iterations of the loops.
**Loading** (`InferenceSession::load_model`, `chat`) puts both together: the
tokenizer takes its tables from the metadata, and encodes once the model is
loaded.

## 4. The runs

| run | checks | shows | states |
|---|---|---|---|
| `remote_offload` | `OwnResults`, `OwnRows`, `UploadedHeld`, `RequestsAnswered`, `SessionsEnd` | with crashes, restarts, dropped and silent links, results come from the caller's own weights and rows; blocking calls return, the serial server drains its queue | 178 604 |
| `implementation`: the registry | `IndexSound`, `IndexKept`, `ImplementsStore` | no sequence of uploads, wrapped counter or failed allocation leads a name to another name's tensor; the registry is a write-once store | 31 264 |
| `implementation`: the connection | `GreetedFirst`, `ImplementsCalls`, `CallsEnd` | calls survive any cutting and joining of bytes; each is handled once | |
| `tensor_store_index` | `IndexComplete` (violated) | a finding of section 6 | |
| `request`: its payload | `Understood`, `ExactlyDecoded`, `AnswerFits` | the two codecs agree; the phone decodes exact encodings only; an answer taken is about the call | 3 579 486 |
| `request`: on the GPU | `TypeOK`, `WorkFits`, `CachesFitUnlessLost`, `ObjectsReadyUnlessLost`, `NeverWornOut` | what commands bind always fits, after any history of requests | |
| `layer_runtime_cache` | `CachesFit` (violated) | a finding of section 6 | |
| `layer_runtime_objects` | `ObjectsReady` (violated) | a finding of section 6 | |
| `session` | `RoomForTheRest`, `RowsOfThisTurn`, `ReplyIsFed`, `HistoryPaired`, `TurnsEnd` | positions, rows, reply and history agree through resets and faults | 7 506 |
| `weights` | `TypeOK`, `ReadsTheFormat`, `ReadsInside`, `OnlyQ4TablesRefused` | every reader takes an element from the bits the format gives it, and from within the buffer; of what `src/README.md` promises, only embeddings and outputs of type Q4_K are refused | 12 792 |
| `weights_q4_k_m` | `PromisedRuns` (violated) | a finding of section 6 | |
| `submission` | `RaceFree`, `ImplementsInOrder` | whatever the GPU overlaps or reorders, memory and result are those of the commands in order | 146 452 |
| `kernels`: one workgroup | `OutputsAreWhole`, `RaceFree`, `SameBarrier` | however the threads interleave, each result is its whole row, once | 10 923 |
| `kernels`: a whole layer | `AsDefined`, `NothingStrays` | the PC and the phone compute the same layer, the one its mathematics defines | |
| `loading` | `ConfigIsTheFiles`, `CompleteFilesLoad`, `BytesAreTheTensors`, `RoundTrip`, `EncodesAsTrained` | a model that loads is the file's; one that is complete loads; text survives the tokenizer and is merged as trained | 25 657 |

Three runs check two machines each, the two that one module of proofs is about
(`ImplementationProofs`, `RequestProofs`, `KernelProofs`). The two share no state,
so their product would show nothing that each alone does not: a variable
`subject` of the MC module says which one takes its steps in a behaviour, and the
other rests in an initial state.

A type invariant is part of a run where it says something the other properties
do not; those of the other modules are conjuncts of the inductive invariants
proved (section 5).

Bounds, and why they are enough:

* `implementation`, registry (and `tensor_store_index`): four ids and four names, so that the counter reaches its last
  id, wraps to 0 and is exhausted with a name left over (first id 1, ids 1 to
  3); three contents, one of them not acceptable, so that a name can be asked
  for with the same, another and a refused content.
* `remote_offload`: two clients, since the server serves one at a time and a
  third would only be another predecessor; three layers so that one client has
  two separate ranges per token (layers 0 and 2) and the other a merged one (1
  and 2); two tensors a layer for a partial upload; two positions and two turns
  for rows of the past; a listen queue of one, so that a client waits there.
  The models agree on the layer both offload and differ in layer 0. One client
  is interactive and its link may vanish. That a later client whose model differs
  in a tensor both offload is refused rather than served with the other's is
  the subject of `implementation` and of the proofs.
* `implementation`, connection: a header of two bytes and payloads of none or two, a socket
  that takes three, so that no frame with a payload fits; three requests of
  nine kinds, so that a refused, an unfinished and a good one can follow each
  other on the same or on another connection.
* `request`, on the GPU (and the two runs of its findings): two models whose longest vectors differ in kind, contexts 1
  and 2 (growing and shrinking), ranges of one, two, none and three layers with
  a pool that lasts for two (five sets, two a layer); 18 and 1365 in the code.
* `session`: context 6 with a budget of 2, prompts from 0 to 4, so that the
  last that fits (3), the first that does not (4) and the empty one occur;
  three turns.
* `request`, payload: integers of three bits, rank up to one more than allowed, names
  from empty to one too long, data and dimensions whose products wrap; one
  changed cell, since each check of the decoder looks at one field.
* `weights`: matrices of several rows and blocks, a vector with a block cut
  off, an embedding that is the output too, norms of odd length; each supported
  type, and "other" for the rest. `weights_q4_k_m` has the tensors of one such
  model on one PC: Q4_K in the embedding and the layers, Q6_K in the output, norms
  without blocks.
* `submission`: two layers, so that work buffers are used again and a range may
  have one layer or both; two positions, so that a row of an earlier request is
  read; two values, all that is needed to tell a stale operand from the right
  one, with a `Result` in which every operand counts.
* `kernels`, workgroup: four threads and two halvings, rows of up to six elements, so
  that some threads have two elements, some one and some none, and rows that
  end in the middle of a word; one and two rows of a pair.
* `kernels`, layer: groups of three threads (256 in the code) and two for the values
  of attention (128), heads of up to four elements (256), so that vectors take
  one launch group and several, and heads of three and six elements are to be
  refused by the phone; one or two heads of queries to a head of keys, one to
  four heads in all; three positions; each combination of some
  biases and norms.
* `loading`: 186 files made from five models (with and without sharing of heads,
  with values smaller than keys, with heads that cannot be shared out), with
  entries left out, mistyped, negative and said twice, four alignments, files
  cut off, tensors left out, of unknown type and described twice; six
  vocabularies (all bytes, bytes by number only, missing bytes, tokens
  twice, odd merge lines, with and without a token at the start, with ids of the first and
  the unknown token on either side of what 32 bits hold) with up to 1555 texts
  each, of bytes and special tokens, and two conversations.

Deadlock is checked in `remote_offload`, `implementation`, `request`, `submission`
and `kernels`. The end of a workgroup, of a layer's tokens and of a payload's
exchange is a step of its own there, so that a barrier some thread never reaches
shows. A session, the use of a tensor and a refused file come to an end and stop:
`session`, `weights` and `loading` do not check it.

**Fairness.** Weak fairness, and only of the programs' own loops: `ServerStep`
and each client's `ClientProgress` (`RemoteOffload`), `ServerStep` and
`ClientStep` (`ConnectionFairness`), `Generate` (`Session`). Each program has one
thread, which goes on unless it is blocked in a system call; weak fairness of
the disjunction is just that, and no action within it is singled out. Nothing
is assumed about a user typing, a process starting, connecting, crashing or
coming back, or about faults. `SessionsEnd` is claimed of the
behaviours in which links report their end (`LinksReport`) and no user stays at
a prompt for ever (`UsersGoOn`): an interactive client may keep others waiting in
the queue as long as it likes, and a silent link is never noticed, since there
is no timeout or keepalive in the code. `RequestsAnswered` concerns the
connection being served.

## 5. What is proved

Eight modules of proofs, checked by TLAPS for every value of the constants that
satisfies the named assumptions. Each argument is an inductive invariant,
`IInv` or named after its module: it holds at first, every action keeps it, and it implies the property.

**ImplementationProofs** holds the two components that implement an abstract one.

*The registry* (`IdSpaceAssumption`, `ContentAssumption`,
`NoTensorAssumption`, `HashAssumption` for what is compared). `IndexSound`
alone is not inductive: a fresh id must be one that no name and no tensor has.
`IInv` adds `BelowCounter` (as long as the counter has not wrapped to 0, all
ids in use lie below it) and `OwnName` (a tensor is filed under its own name's
id). Theorems: `TypeCorrect`, `IndexIsSound`, `AnswersAreHeld`,
`NothingReassigned`, `OnlyLostTensorsAreMissing`, and `Implementation`: the
registry implements `WriteOnceStore`.

*The connection* (`ByteAssumption`, `NoneAssumption`). `ConnectionIInv` says in
which of eight phases a call is (`Phase`: nothing under way, the request on its
way, received, its answer on its way, given up by the client, ...) and, in each,
which bytes of which frame the two streams and the two receive buffers hold
together: a number of bytes `m` to `n` of one frame (`Piece`), the receiver's
part before the sender's. Cutting and joining bytes is then a matter of two
lemmas, on the concatenation of pieces and on the piece of a piece.
`HelloFirst` says that what touched the phone came after a HELLO. Theorems:
`ConnectionTypeCorrect`, `NothingBeforeHello`, and `CallsImplemented`: any
sequence of connections implements `RemoteCall`, for any sizes of headers,
payloads and buffers.

**RemoteOffloadProofs** (`ClientAssumption`, `SizeAssumption`,
`ModelAssumption`). `IInv` is `QueueInv` and, for each client, `ClientInv`:
what the process' state says of its variables; at most one frame under way,
with the last id; a request says what the client's variables say; so does a
response, and what it reports is so while the connection lasts; the tensors of
uploaded layers, and of the one being uploaded, are held; the rows of the turn
so far are the client's own. Bystanders are dealt with once: a client that is
not served constrains the phone in nothing. Theorems: `TypeCorrect`,
`ResultsAreOwn`, `RowsAreOwn`, `UploadsAreHeld`, `OneRequestAtATime`,
`EachServedOnce`, `NeverOverwritten`, for any number of clients, layers,
tensors, positions and turns.

**RequestProofs** follows a request into the phone.

*Payloads* (`PayloadsAssumption`: integers below `Word`, the exclusive or is
some number; `CallsAssumption`: the fields of a call are integers). `PayloadsInv`
says what each phase has: the wire has what the encoder made of the call, or
what changes left of it, and the answer is what the phone made of what it
decoded. The rest is about the codecs: what is encoded decodes to the call
(`TensorSent`, `RangeSent`, `HelloSent`), what decodes was encoded so
(`TensorExact`, `RangeExact`, `HelloExact`), and an answer that the client takes
says the call's ids and sizes. The element count is the product of the
dimensions although the code multiplies modulo `Word`: its test before each
multiplication keeps it from wrapping (`CountedIsProduct`). Theorems:
`PayloadsTypeCorrect`, `CodecsAgree`, `DecoderExact`, `AnswersFit`.

*Layer execution* (`RuntimeAssumption`, `DimsAssumption`,
`ShapeAssumption`: heads are a multiple of KV heads, which the decoder checks).
`IInv` adds: the work buffers fit from the end of `EnsureWork` on; where a
layer's context is remembered and no cache allocation fails, its caches fit it;
the command objects exist all or none unless one fails; the sets taken are
those of the layers recorded. Theorems: `TypeCorrect`, `WorkAlwaysFits`,
`CachesAlwaysFit`, `ObjectsAlwaysReady`, `RuntimeNeverWornOut`.

**SessionProofs** (`SizeAssumption`, `RowAssumption`). `IInv` adds what each
phase says of the counters (how far the prompt, the reply and the position are)
and that the history's entries belong to turns so far. Theorems: `TypeCorrect`,
`AlwaysRoomForTheRest`, `RowsAreOfThisTurn`, `RepliesAreFed`,
`HistoryIsPaired`.

**WeightsProofs** (`WeightsAssumption`). Lemmas per block: converter, kernels
and shaders agree with the format for every block and every element. `IInv`
says that a tensor under conversion holds the format's value or nothing yet in
each place, and that a finished one is complete. Theorems: `TypeCorrect`,
`ReadsAgree`, `NothingReadOutside`, `PromisesEndAtQ4Tables`, `NoElementTwice`,
`WritesAll`, `ShaderQ6IsDevice`, for tensors of any shape. Nothing is read outside because each reader reads what the
format says (`ReadIsFormat`), and the format stays within its block.
`PromisesEndAtQ4Tables` draws the line of the finding in section 6 from both
sides: a promised tensor that is refused is a Q4_K embedding or output
(`PromisedKernel`), and such a table, kept in blocks, is never read
(`Q4TableUnread`).

**SubmissionProofs** (`LayerAssumption`, `NoneAssumption`, `ResultAssumption`).
`IInv` adds `InGroupOrder` (what has begun had all earlier groups ended),
`TakenIsThere` (what a running command took is still in memory) and `WriterEnded`.
The facts about the table they rest on are lemmas: commands of one group do not
conflict, and the barriers between two groups cover the stages and accesses of
both. Theorems: `TypeCorrect`, `NoRaces`, `SubmissionImplementsInOrder`, for any
number of layers, positions and values and any arithmetic.

**KernelProofs** has two parts.

*One workgroup* (`WorkgroupAssumption`: the halvings lead from the number of
threads down to 1; `NoneAssumption`). `IInv` says which share of the row each
place of `scratch` holds between two barriers: after a halving down to `s`
places, place `t` holds the elements that are `t` modulo `s`. The step is
`SharesAdd`: the shares of `t` and `t + s` modulo `2s` make up that of `t` modulo
`s`. Theorems: `TypeCorrect`, `ResultsWhole`, `OneBarrier`, `NoRaces`, for any
power of two of threads and any length.

*All kernels of a layer* (`LayerMathAssumption`). Three steps. First, no two
vectors of a layer have elements made of the same (`RecoveredIs`), so an element
that is computed as `Definition` says gets the name of its vector (`NamedAfter`).
Second, for each kind of kernel: whatever groups and words its launch is rounded
up to, it writes each element of its vector once and nothing else
(`...Elements`), so that it stays within its buffer (`...Stays`), and if its
operands hold the vectors they should, it leaves the vector it should (`...Held`).
Third, `MemoryAfter(n, mem)` lists what each buffer holds after `n` of the 27
steps and a later step reads; each step takes `MemoryAfter(n - 1, ...)` to
`MemoryAfter(n, ...)` (`StepComputes`). `LayerInv` adds the rows that both caches
hold between two tokens. Work buffers that hold anything at all from earlier
tokens do not matter: nothing is said of them. Theorems: `LayerTypeCorrect`,
`KernelsStayInside`, `LayersComputeAsDefined`, for any model, context and size
of groups, on both backends.

**LoadingProofs** (`ModelFileAssumption`, `Honest` included). `IInv`: `metadata`
and `infos` hold the last of what was read so far under each key and name; the
configuration is what the getters gave; what is held was loaded from its
description and had the configuration's shape. A number that is derived wrongly
makes the shape of a tensor of the first layer differ, so a loaded model has the
true one. For the opposite direction, that nothing complete is refused, `LoadInv`
says that every name of a tensor read so far has its description, that a
complete file is not refused so far, and that its configuration shares heads out
as the model does; each of the refusals of the code then contradicts some part
of `Complete`. Theorems: `WeightsFromTheirBytes`, `LoadedAsConfigured`,
`CompleteFilesAreLoaded`, for any file.

*The tokenizer* (`TokenizerAssumption`, `LoadingAssumption`). Three steps. First,
the characters of the 256 bytes: no two are alike, the first byte tells how long
one is, none holds a new line, and only that of `<` begins with `<` (`Encoded`,
`EncodedApart`); so a string of characters `Spells` the bytes that
`DecodeByteLevelPiece` reads from it, and two strings together spell what each of
them spells (`SpellsTogether`). Second, `ShownAs(p, b)`: the piece `p` is known
and decodes to `b`, being a special token, a byte written as `<0xXX>` or
characters. What may be merged does not begin with `<` and is therefore of the
third kind, and what comes out is again, since a key can be taken apart in one
way only when the pieces have no new line (`KeyApart`, `PieceOfMerge`). Without
the program's test for `<` this fails, which is the mutant of the run. Third,
`TextInv`: there is a function `r` that says what follows each piece, or each id,
when they are shown (`Leads`, `Shows`); it begins with `Plain`, and what is left
at its end is the part of the text not split yet (`PlainFrom`), or nothing. Theorem:
`TextsComeBack`, for any vocabulary, rules, special tokens and texts. Which of the
neighbours is merged does not matter to it.

It does to the order of merges. Merging follows the rule of lowest rank among all
neighbours, the first place of it, one pair at a time; training means the rules
one after the other, each once through the whole text (`InTurn`). The invariant
`TurnInv` says that from the pieces at hand the turns of all the rules lead to
where they lead from the text: there is a function `f` of what there is at each
rank's turn, from `pieces` to `InTurn` (`Turns`). One merge keeps it
(`TurnsMerged`): no rule of a lower rank fits before the merge, so none had a
turn, and none fits after it, because a rule that uses the new piece ranks after
the one that makes it (`Trained`); and the rule itself, applied from left to
right, comes to the same whether or not its first place was merged before
(`AppliedMerged`), because its result is neither of its parts. When nothing can
be merged no rule has a turn left (`TurnsOver`). Rules have ranks of their own
because ranks count lines (`RulesOfLines`), and a key belongs to one pair of
parts because no piece that may be merged holds a new line (`Fine`). Theorem:
`MergedAsTrained`, for any vocabulary, lines of rules and texts.

Some theorems state what no run checks any more, since they say more than a
small instance: `AnswersAreHeld`, `NothingReassigned`, `OneRequestAtATime`,
`EachServedOnce`, `NeverOverwritten`, `NoElementTwice`, and the type invariants.

Recursion. The hash, the count of elements and the product of dimensions are
recursive functions over data. The library's induction rules take an operator
and cannot be used; `RequestProofs` states what it needs over sets and functions
instead: a set of naturals has a least element (`LeastNatural`, from the
well-foundedness of `<`), hence induction over a set (`InductionUpTo`) and the
existence of a function given by its first value and steps (`RecursionUpTo`).
`LoadingProofs` has the same from the end of a text, in steps of any width
(`InductionDown`, `RecursionDown`), for `Unescaped`, `Plain`, `Applied` and
`Unmerged`, and upwards with a step for each number (`InductionUp`,
`RecursionUp`), for the rules in turn.

Only model-checked: liveness (`RequestsAnswered`, `SessionsEnd`, `CallsEnd`,
`TurnsEnd`), which is out of the proof system's reach. `CachesFit`,
`ObjectsReady`, `IndexComplete` and `PromisedRuns` are false (section 6); what holds
in their place is proved.

## 6. Findings

Each is the counterexample of a run whose property says what a comment, an
exception or the documentation holds to be so.

* `CachesFit`, run `layer_runtime_cache`: the context of a layer is remembered
  before its caches are made (`vulkan_context_layer.cpp:271`); if that fails, the
  next request with the same context binds a cache that is not there. Without a
  failed allocation (`CachesFitUnlessLost`) caches always fit, which is proved.
* `ObjectsReady`, run `layer_runtime_objects`: only the command pool is looked at
  to see whether the command objects exist (`vulkan_context.cpp:489`); if one of
  the others cannot be made, the next request runs without it. Otherwise
  (`ObjectsReadyUnlessLost`, proved) all are there when commands are recorded.
* `IndexComplete`, run `tensor_store_index`: the name of a tensor is entered before
  the tensor (`vulkan_context_tensor.cpp:174`). When the host runs out of memory
  between the two maps, the name stays without a tensor, and every later upload
  of it fails with the exception of line 64, which takes this for impossible.
  Nothing else leaves the maps apart (`IndexKept`, proved).
* `PromisedRuns`, run `weights_q4_k_m`: with `--quantized`, `src/README.md:345`
  promises files of type Q4_K_M, and the example on line 318 runs one. An
  embedding of type Q4_K, kept in its blocks, is refused at the first token
  (`qwen_model.cpp:256-263`), and so is an output of that type when logits are
  first needed (`:385-404`): only Q6_K has the kernels. That such files have a Q4_K
  embedding when the output is a matrix of its own is a convention of the
  converters, not of this repository; where the embedding is the output
  as well, they make it Q6_K, as `src/README.md:108` has it, and the file runs.
  Everything else that is promised runs (`OnlyQ4TablesRefused`, proved).

Remarks without a run:

* `session.cpp:66`: a prompt that leaves no room for the whole budget is refused
  there, so that the stop reason `context_limit`, listed in `src/README.md:255`,
  is never given.
* `tokenizer.cpp:257`: the comment under it says that the new line in the key of a
  pair tells its parts apart. It does unless pieces hold new lines, as they do
  when the vocabulary has no token for that byte. If such pieces have the rules
  `c`, `\n` and `c\n`, `a` and `b\nc`, `a`, the text `bc\na` becomes `b`, `c\na`,
  whose key is that of the third rule, and then `b\nca`: its bytes are in another
  order. A byte-level vocabulary that has all 256 tokens is not affected.
* `src/README.md:339` says that with `--quantized` a file with Q5_K, Q5_0, Q3_K
  or Q2_K tensors fails at the dispatch of a kernel. The reader refuses it before
  (`gguf_reader.cpp:224`).

## 7. Assumptions, and what is not modelled

* A product such as `row * in_features` (`kernels.cu:387`) is taken not to exceed
  32 bits, as holds of the supported models.
* `HashAssumption`: contents with equal metadata, a 64-bit hash included, are
  equal.
* `WeightsAssumption` and `WholeRows`: norms have a type without blocks, a
  tensor is wanted somewhere, and the rows of a tensor kept in blocks are whole
  blocks. Files from the usual converters satisfy them; the code does not check
  the first. A Q6_K tensor with an odd number of 210-byte blocks ends within a
  32-bit word, whose other half the shader reads and drops; `ReadsInside` speaks
  of the bytes used.
* `Honest`: what a file says as a count is so, its alignment is a power of two
  (for which `AlignTo` is the code's bit mask) and the one said, and its tensors
  have the shapes of the model. Nothing is assumed of what a file leaves out,
  repeats, or says in another type. In `ModelFile` all layers are local; the
  length of the context and the floating-point parameters are left out. Counts
  are cut to 32 bits as in the code (`Word`).
* Of the Vulkan device: a signaled fence means that the submission took effect
  and its writes reach the host (the memory is host-coherent), and waiting for a
  fence fails only when the device is lost.
* `Complete`: a file that the program owes a model describes no tensor that is
  empty or ends outside of the file, also where a later description overrides it.
* `PayloadsAssumption`, `CallsAssumption`: the client calls with integers that
  fit their fields and sequences whose lengths do. `NoneAssumption`: `None` is no
  frame, or no sum.
* `LayerMathAssumption`: a workgroup of the value shader has an invocation for
  each word of the largest head accepted (128 for 256); hidden and feed-forward
  vectors are even, as rows of
  whole quantized blocks are, and heads are shared out evenly, which the program
  checks. On the PC heads are taken to be even, which nothing checks, and of no
  more than the 1024 elements that a thread block may have, beyond which the
  launch reports an error. Kernels on the PC follow each other in one stream.
* `TokenizerAssumption`: the special tokens that the encoder looks for are of the
  form `<|...|>`, as those in `tokenizer.cpp:113` are. `LoadingAssumption`: what
  the file says as strings, and what is encoded, is bytes.
* In the tokenizer an unknown piece becomes the file's unknown token (0 when the
  file has none; this id and that of the first token are cut to signed 32 bits as
  in the code), so `RoundTrip` is claimed where the vocabulary covers the text; `EncodesAsTrained` where the
  rules are ranked as training makes them and, if the text has a new line, the
  vocabulary has a token for it (section 6).
* The embedding of a token and the output projection beyond their addressing
  (`Weights`).
* Floating-point arithmetic, sampling, and the bit arithmetic of half and
  bfloat16 conversion: out of reach, and tested best with numbers.
* Creation of the Vulkan instance, device and pipelines, and timestamps: done
  once, or of no effect on results.
* Option parsing, `--info` and `--tokens`, the capability probe, the benchmark,
  `gguf_inspect.py`, build files and launchers: no state of the running system.
