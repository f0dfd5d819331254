------------------------------ MODULE ModelFile ------------------------------
(***************************************************************************)
(* A model file on its way into the program: GgufFile::load reads metadata *)
(* and tensor descriptions, QwenConfig::from_gguf takes or derives the     *)
(* configuration, QwenModel::load reads the weights from where the         *)
(* descriptions say they are and compares their shapes.                    *)
(*                                                                         *)
(* A file is what a writer made of a model: entries may be missing,        *)
(* repeated or of another type than expected, and the end may be cut off.  *)
(* The header and each entry and description take EntrySize bytes.  All    *)
(* layers are the PC's own; the context's length and the floating-point    *)
(* parameters are left out.                                                *)
(***************************************************************************)
EXTENDS Integers, Sequences

CONSTANTS
  Files,      \* [truth, alignment, entries, tensors, size]
  EntrySize,
  Word,       \* how many values 32 bits have
  None

VARIABLES
  file,      \* the file at hand
  phase,     \* "reading", "read", "configured", "loading", "loaded" or "refused"
  taken,     \* entries and descriptions read so far
  metadata,  \* key -> [type, value], the last of a key
  infos,     \* name -> [cols, rows, start, bytes], the last of a name
  config,    \* QwenConfig, None before it is known
  layer,     \* layers loaded so far
  held       \* the weights loaded: name -> [start, end] in the file

fileVars == <<file, phase, taken, metadata, infos, config, layer, held>>

-----------------------------------------------------------------------------
(* Getters. *)

Has(key) == key \in DOMAIN metadata

Number(key) == metadata[key].type \in {"u64", "u32", "i64", "i32"}

\* Wrong on purpose: a negative number is taken for a count.
GetU64Signed(key, fallback) ==
  IF Has(key) /\ Number(key) THEN metadata[key].value ELSE fallback

GetU64(key, fallback) ==
  IF Has(key) /\ Number(key) /\ metadata[key].value >= 0 THEN metadata[key].value ELSE fallback

GetStrings(key) ==
  IF Has(key) /\ metadata[key].type = "strings" THEN metadata[key].value ELSE <<>>

TokensKey == <<"tokenizer", "tokens">>
MergesKey == <<"tokenizer", "merges">>
AlignmentKey == <<"general", "alignment">>
ArchitectureKey == <<"general", "architecture">>

Architecture ==
  IF Has(ArchitectureKey) /\ metadata[ArchitectureKey].type = "string"
  THEN metadata[ArchitectureKey].value ELSE "qwen3"

\* Architectures with "qwen" in their name.
QwenArchitectures == {"qwen2", "qwen3"}

Under(prefix, suffix, fallback) == GetU64(<<prefix, suffix>>, fallback) % Word

\* What is 0 is looked for under the older prefix.
ReadEither(suffix, fallback, oldFallback) ==
  IF Under(Architecture, suffix, fallback) # 0 THEN Under(Architecture, suffix, fallback)
  ELSE Under("qwen2", suffix, oldFallback)

\* Elements and bytes of a block of the types that the program knows.
Block ==
  [F32 |-> <<1, 4>>, F16 |-> <<1, 2>>, BF16 |-> <<1, 2>>, Q8_0 |-> <<32, 34>>,
   Q4_K |-> <<256, 144>>, Q6_K |-> <<256, 210>>]

TensorBytes(type, count) ==
  IF type \in DOMAIN Block THEN ((count + Block[type][1] - 1) \div Block[type][1]) * Block[type][2] ELSE 0

\* Wrong on purpose: data never begins right after the descriptions.
AlignToNext(value, alignment) ==
  IF alignment = 0 THEN value ELSE (value + alignment) - ((value + alignment) % alignment)

\* What & ~(alignment - 1) gives for a power of two.
AlignTo(value, alignment) ==
  IF alignment = 0 THEN value
  ELSE (value + alignment - 1) - ((value + alignment - 1) % alignment)

-----------------------------------------------------------------------------
(* GgufFile::load *)

FileInit ==
  /\ file \in Files
  /\ phase = "reading" /\ taken = 0
  /\ metadata = <<>> /\ infos = <<>>
  /\ config = None /\ layer = 0 /\ held = <<>>

Refuse == phase' = "refused" /\ UNCHANGED <<file, taken, metadata, infos, config, layer, held>>

\* m with k leading to v.
With(m, k, v) == [x \in DOMAIN m \cup {k} |-> IF x = k THEN v ELSE m[x]]

\* The file goes on for so many entries.
Reaches(n) == file.size >= EntrySize * (1 + n)

Described == Len(file.entries) + Len(file.tensors)

\* The types of values that are read, as far as they are told apart.
MetadataTypes == {"u64", "u32", "i64", "i32", "f32", "bool", "string", "strings"}

ReadEntry ==
  LET entry == file.entries[taken + 1] IN
  /\ phase = "reading" /\ taken < Len(file.entries) /\ Reaches(taken + 1)
  /\ entry.type \in MetadataTypes
  /\ taken' = taken + 1
  /\ metadata' = With(metadata, entry.key, [type |-> entry.type, value |-> entry.value])
  /\ UNCHANGED <<file, phase, infos, config, layer, held>>

NextInfo == file.tensors[taken - Len(file.entries) + 1]

\* The description of a tensor; start counts from the start of the data.
ReadInfo ==
  LET t == NextInfo
      bytes == TensorBytes(t.type, t.cols * t.rows) IN
  /\ phase = "reading" /\ taken \in Len(file.entries) .. Described - 1 /\ Reaches(taken + 1)
  /\ bytes > 0
  /\ taken' = taken + 1
  /\ infos' = With(infos, t.name, [cols |-> t.cols, rows |-> t.rows, start |-> t.offset, bytes |-> bytes])
  /\ UNCHANGED <<file, phase, metadata, config, layer, held>>

\* The file ends too early, or a value's or a tensor's type is unknown.
RefuseFile ==
  /\ phase = "reading"
  /\ \/ ~Reaches(taken) \/ (taken < Described /\ ~Reaches(taken + 1))
     \/ taken < Len(file.entries) /\ file.entries[taken + 1].type \notin MetadataTypes
     \/ /\ taken \in Len(file.entries) .. Described - 1
        /\ TensorBytes(NextInfo.type, NextInfo.cols * NextInfo.rows) = 0
  /\ Refuse

\* Offsets from the start of the file.
Place ==
  LET data == AlignTo(EntrySize * (1 + taken), GetU64(AlignmentKey, 32)) IN
  /\ phase = "reading" /\ taken = Described /\ Reaches(taken)
  /\ infos' = [name \in DOMAIN infos |-> [infos[name] EXCEPT !.start = data + infos[name].start]]
  /\ phase' = "read"
  /\ UNCHANGED <<file, taken, metadata, config, layer, held>>

-----------------------------------------------------------------------------
(* QwenConfig::from_gguf *)

Vocabulary == Len(GetStrings(TokensKey))
Hidden == ReadEither("embedding_length", 0, 0)
Blocks == ReadEither("block_count", 0, 0)
FeedForward == ReadEither("feed_forward_length", 0, 0)
Heads == ReadEither("head_count", 0, 0)
KvHeads == ReadEither("head_count_kv", Under(Architecture, "head_count", 0), Heads)

\* Rows of a projection of the first layer, shared out among so many heads; 0
\* if that does not work.
PerHead(kind, heads) ==
  IF <<1, kind>> \in DOMAIN infos /\ infos[<<1, kind>>].rows % heads = 0
  THEN infos[<<1, kind>>].rows \div heads ELSE 0

HeadDim ==
  LET said == ReadEither("key_length", 0, 0)
      seen == PerHead("attn_q", Heads)
  IN IF said # 0 THEN said ELSE IF seen # 0 THEN seen
     ELSE IF Hidden % Heads = 0 THEN Hidden \div Heads ELSE 0

ValueDim ==
  LET said == ReadEither("value_length", 0, 0)
      seen == PerHead("attn_v", KvHeads)
  IN IF said # 0 THEN said ELSE IF seen # 0 THEN seen ELSE HeadDim

Acceptable ==
  /\ Architecture \in QwenArchitectures
  /\ Vocabulary > 0 /\ Hidden > 0 /\ Blocks > 0 /\ FeedForward > 0 /\ Heads > 0 /\ KvHeads > 0
  /\ HeadDim > 0 /\ ValueDim = HeadDim

Configure ==
  /\ phase = "read" /\ Acceptable
  /\ config' = [vocab |-> Vocabulary, hidden |-> Hidden, blocks |-> Blocks, ff |-> FeedForward,
                heads |-> Heads, kv |-> KvHeads, dim |-> HeadDim]
  /\ phase' = "configured"
  /\ UNCHANGED <<file, taken, metadata, infos, layer, held>>

RefuseConfig == phase = "read" /\ ~Acceptable /\ Refuse

-----------------------------------------------------------------------------
(* QwenModel::load *)

\* The shapes that tensors of a configuration have: <<cols, rows>>.
GlobalShapes(c) ==
  [token_embd |-> <<c.hidden, c.vocab>>, output_norm |-> <<c.hidden, 1>>,
   output |-> <<c.hidden, c.vocab>>]

LayerShapes(c) ==
  LET q == c.heads * c.dim
      kv == c.kv * c.dim
  IN [attn_norm |-> <<c.hidden, 1>>,
      attn_q |-> <<c.hidden, q>>, attn_k |-> <<c.hidden, kv>>, attn_v |-> <<c.hidden, kv>>,
      attn_output |-> <<q, c.hidden>>,
      attn_q_bias |-> <<q, 1>>, attn_k_bias |-> <<kv, 1>>, attn_v_bias |-> <<kv, 1>>,
      attn_output_bias |-> <<c.hidden, 1>>,
      attn_q_norm |-> <<c.dim, 1>>, attn_k_norm |-> <<c.dim, 1>>,
      ffn_norm |-> <<c.hidden, 1>>, ffn_gate |-> <<c.hidden, c.ff>>, ffn_up |-> <<c.hidden, c.ff>>,
      ffn_down |-> <<c.ff, c.hidden>>,
      ffn_gate_bias |-> <<c.ff, 1>>, ffn_up_bias |-> <<c.ff, 1>>, ffn_down_bias |-> <<c.hidden, 1>>]

Optional ==
  {"output", "attn_q_norm", "attn_k_norm", "attn_q_bias", "attn_k_bias", "attn_v_bias",
   "attn_output_bias", "ffn_gate_bias", "ffn_up_bias", "ffn_down_bias"}

\* The names of the tensors of one part: a layer's number from 1 on, or 0.
Names(part, shapes) == {<<part, kind>> : kind \in DOMAIN shapes}

\* Wrong on purpose: rows are not compared.
FitsCols(name, shape) == infos[name].cols = shape[1]

\* require_shape
Fits(name, shape) == infos[name].cols = shape[1] /\ infos[name].rows = shape[2]

\* Required tensors are there, all that are there are read and have their shape.
Loadable(part, shapes) ==
  \A kind \in DOMAIN shapes :
    IF <<part, kind>> \in DOMAIN infos
    THEN /\ infos[<<part, kind>>].start + infos[<<part, kind>>].bytes <= file.size
         /\ Fits(<<part, kind>>, shapes[kind])
    ELSE kind \in Optional

LoadPart(part, shapes) ==
  held' = [name \in DOMAIN held \cup (DOMAIN infos \cap Names(part, shapes)) |->
             IF name \in DOMAIN held THEN held[name]
             ELSE [start |-> infos[name].start, end |-> infos[name].start + infos[name].bytes]]

GlobalsAreGood == Loadable(0, GlobalShapes(config)) /\ config.heads % config.kv = 0

LoadGlobals ==
  /\ phase = "configured" /\ GlobalsAreGood
  /\ LoadPart(0, GlobalShapes(config))
  /\ phase' = "loading"
  /\ UNCHANGED <<file, taken, metadata, infos, config, layer>>

LoadLayer ==
  /\ phase = "loading"
  /\ Loadable(layer + 1, LayerShapes(config))
  /\ LoadPart(layer + 1, LayerShapes(config))
  /\ layer' = layer + 1
  /\ phase' = IF layer' = config.blocks THEN "loaded" ELSE "loading"
  /\ UNCHANGED <<file, taken, metadata, infos, config>>

RefuseWeights ==
  /\ \/ phase = "configured" /\ ~GlobalsAreGood
     \/ phase = "loading" /\ ~Loadable(layer + 1, LayerShapes(config))
  /\ Refuse

FileNext ==
  \/ ReadEntry \/ ReadInfo \/ RefuseFile \/ Place
  \/ Configure \/ RefuseConfig
  \/ LoadGlobals \/ LoadLayer \/ RefuseWeights
-----------------------------------------------------------------------------
(* What a writer of files keeps to. *)

\* The last entry of a key.
Said(f, key) ==
  LET of == {i \in DOMAIN f.entries : f.entries[i].key = key}
  IN IF of = {} THEN None ELSE f.entries[CHOOSE i \in of : \A j \in of : j <= i]

SaysCount(f, key) ==
  LET e == Said(f, key)
  IN e # None /\ e.type \in {"u64", "u32", "i64", "i32"} /\ e.value >= 0

Counts(c) ==
  [embedding_length |-> c.hidden, block_count |-> c.blocks, feed_forward_length |-> c.ff,
   head_count |-> c.heads, head_count_kv |-> c.kv, key_length |-> c.dim, value_length |-> c.vdim]

\* The shapes in a file of that model: values may have a size of their own there.
TrueShapes(c) ==
  LET v == c.kv * c.vdim
  IN [LayerShapes(c) EXCEPT !.attn_v = <<c.hidden, v>>, !.attn_v_bias = <<v, 1>>,
                            !.attn_output = <<c.heads * c.vdim, c.hidden>>]

\* The last description of a name.
IsLast(f, i) == \A j \in DOMAIN f.tensors : f.tensors[j].name = f.tensors[i].name => j <= i

\* Data begins at a multiple of the alignment.
DataStart(f) ==
  LET end == EntrySize * (1 + Len(f.entries) + Len(f.tensors))
  IN CHOOSE n \in end .. end + f.alignment - 1 : n % f.alignment = 0

Extent(f, i) ==
  LET start == DataStart(f) + f.tensors[i].offset
  IN [start |-> start, end |-> start + TensorBytes(f.tensors[i].type, f.tensors[i].cols * f.tensors[i].rows)]

\* Whatever a file says as a count is so, the alignment is a power of two and
\* the one said, and tensors have the shapes of the model.
Honest(f) ==
  /\ \A k \in DOMAIN Counts(f.truth) : \A prefix \in QwenArchitectures :
       SaysCount(f, <<prefix, k>>) => Said(f, <<prefix, k>>).value = Counts(f.truth)[k]
  /\ LET e == Said(f, TokensKey) IN e # None /\ e.type = "strings" => Len(e.value) = f.truth.vocab
  /\ \E k \in 0 .. 16 : f.alignment = 2 ^ k
  /\ f.alignment = IF SaysCount(f, AlignmentKey) THEN Said(f, AlignmentKey).value ELSE 32
  /\ \A i \in DOMAIN f.tensors : IsLast(f, i) =>
       LET name == f.tensors[i].name
           shape == IF name[1] = 0 THEN GlobalShapes(f.truth)[name[2]] ELSE TrueShapes(f.truth)[name[2]]
       IN f.tensors[i].cols = shape[1] /\ f.tensors[i].rows = shape[2]

ASSUME ModelFileAssumption ==
  /\ EntrySize \in Nat \ {0} /\ Word \in Nat \ {0}
  /\ \A f \in Files :
       /\ \A k \in DOMAIN Counts(f.truth) : Counts(f.truth)[k] \in 1 .. Word - 1
       /\ f.truth.vocab \in Nat \ {0} /\ f.size \in Nat /\ f.alignment \in Nat \ {0}
       /\ Len(f.entries) \in Nat /\ DOMAIN f.entries = 1 .. Len(f.entries)
       /\ Len(f.tensors) \in Nat /\ DOMAIN f.tensors = 1 .. Len(f.tensors)
       /\ \A i \in DOMAIN f.entries : f.entries[i] # None
       /\ \A i \in DOMAIN f.tensors :
            f.tensors[i].cols \in Nat /\ f.tensors[i].rows \in Nat /\ f.tensors[i].offset \in Nat
       /\ Honest(f)

ArchitectureOf(f) ==
  LET e == Said(f, ArchitectureKey) IN IF e # None /\ e.type = "string" THEN e.value ELSE "qwen3"

Describes(f, name) == \E i \in DOMAIN f.tensors : f.tensors[i].name = name

\* A file of a model the program is meant for, with all that must be said.
Complete(f) ==
  /\ f.truth.vdim = f.truth.dim /\ f.truth.heads % f.truth.kv = 0
  /\ ArchitectureOf(f) \in QwenArchitectures
  /\ Said(f, TokensKey) # None /\ Said(f, TokensKey).type = "strings"
  /\ \A i \in DOMAIN f.entries : f.entries[i].type \in MetadataTypes
  /\ \E prefix \in {ArchitectureOf(f), "qwen2"} :
       /\ \A i \in DOMAIN f.entries : f.entries[i].key[1] \in {prefix, "general", "tokenizer"}
       /\ \A k \in {"embedding_length", "block_count", "feed_forward_length", "head_count"} :
            SaysCount(f, <<prefix, k>>)
       /\ SaysCount(f, <<prefix, "head_count_kv">>) \/ f.truth.kv = f.truth.heads
  /\ \A kind \in DOMAIN GlobalShapes(f.truth) \ Optional : Describes(f, <<0, kind>>)
  /\ \A i \in 1 .. f.truth.blocks : \A kind \in DOMAIN LayerShapes(f.truth) \ Optional :
       Describes(f, <<i, kind>>)
  /\ \A i \in DOMAIN f.tensors :
       /\ TensorBytes(f.tensors[i].type, f.tensors[i].cols * f.tensors[i].rows) > 0
       /\ Extent(f, i).end <= f.size

-----------------------------------------------------------------------------
\* A model that is loaded has the configuration it was made with, whatever was
\* not said, said in another type or said twice: derived numbers are right or a
\* tensor's shape gives them away (qwen_config.cpp:96-121, qwen_model.cpp:165).
ConfigIsTheFiles ==
  phase = "loaded" =>
    /\ config = [vocab |-> file.truth.vocab, hidden |-> file.truth.hidden, blocks |-> file.truth.blocks,
                 ff |-> file.truth.ff, heads |-> file.truth.heads, kv |-> file.truth.kv,
                 dim |-> file.truth.dim]
    /\ file.truth.vdim = file.truth.dim

\* A complete file of a supported model is never refused, with or without what
\* the program can derive (qwen_config.cpp:96-119, gguf_reader.cpp:278-307).
CompleteFilesLoad == phase = "refused" => ~Complete(file)

\* A weight is taken from the bytes that the writer gave to it, and they are all
\* in the file; of a name described twice the last counts
\* (gguf_reader.cpp:115-120, 226-240, 410-423).
BytesAreTheTensors ==
  \A i \in DOMAIN file.tensors :
    IsLast(file, i) /\ file.tensors[i].name \in DOMAIN held =>
      held[file.tensors[i].name] = Extent(file, i) /\ Extent(file, i).end <= file.size
===============================================================================
