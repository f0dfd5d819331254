---------------------------- MODULE LayerCommands ----------------------------
(***************************************************************************)
(* The commands that VulkanContext::run_layer_range records for a range of *)
(* layers, with the buffers each reads and the one it writes.  Commands    *)
(* recorded between two barriers form a group; the groups of a layer are   *)
(* numbered in the order of recording, and a barrier follows each.         *)
(***************************************************************************)
EXTENDS Integers

CONSTANTS
  NumLayers,     \* layers of the model, numbered from 0
  MaxContext,    \* positions, from 0
  Values,        \* what a buffer may hold
  FreshValues,   \* what it may hold when it was just allocated
  Result(_, _)   \* Result(c, in): what command c makes of the buffers it reads

ASSUME LayerAssumption ==
  /\ NumLayers \in Nat \ {0}
  /\ MaxContext \in Nat \ {0}
  /\ FreshValues \subseteq Values

Layers == 0 .. NumLayers - 1
Positions == 0 .. MaxContext - 1

\* A request of RUN_LAYER_RANGE.
Requests == {q \in [first : Layers, last : Layers, position : Positions] :
               q.first <= q.last}

-----------------------------------------------------------------------------
(* Buffers.  A cell is a work buffer, or one row of a layer's cache.        *)

WorkBuffers == {"x", "norm", "q", "k", "v", "attention", "projection", "gate",
                "up", "activation", "ffn_output", "scores"}
Caches == {"kCache", "vCache"}

Work(buffer) == <<buffer, 0, 0>>
Row(cache, layer, position) == <<cache, layer, position>>

Cells == {Work(b) : b \in WorkBuffers}
           \cup {Row(c, l, p) : c \in Caches, l \in Layers, p \in Positions}

\* Buffers that were just allocated.
FreshMemories == [Cells -> FreshValues]

-----------------------------------------------------------------------------
(* The groups of a layer: from a name of each command to the work buffers  *)
(* it reads and the work buffer or cache it writes.                        *)

NumGroups == 14
Groups == 1 .. NumGroups

\* The group of the two vkCmdCopyBuffer; every other is of dispatches.
CopyGroup == 5
Stage(group) == IF group = CopyGroup THEN "transfer" ELSE "compute"

Ops(group) ==
  CASE group = 1  -> {"attn_norm"}
    [] group = 2  -> {"attn_q", "attn_k", "attn_v"}
    [] group = 3  -> {"q_norm", "k_norm"}
    [] group = 4  -> {"q_rope", "k_rope"}
    [] group = 5  -> {"k_copy", "v_copy"}
    [] group = 6  -> {"attention_scores"}
    [] group = 7  -> {"attention_value"}
    [] group = 8  -> {"attn_output"}
    [] group = 9  -> {"attn_residual"}
    [] group = 10 -> {"ffn_norm"}
    [] group = 11 -> {"ffn_gate", "ffn_up"}
    [] group = 12 -> {"swiglu"}
    [] group = 13 -> {"ffn_down"}
    [] group = 14 -> {"ffn_residual"}

WorkRead(op) ==
  CASE op = "attn_norm"        -> {"x"}
    [] op \in {"attn_q", "attn_k", "attn_v"} -> {"norm"}
    [] op \in {"q_norm", "q_rope"} -> {"q"}
    [] op \in {"k_norm", "k_rope"} -> {"k"}
    [] op = "k_copy"           -> {"attention"}
    [] op = "v_copy"           -> {"v"}
    [] op = "attention_scores" -> {"projection"}
    [] op = "attention_value"  -> {"scores"}
    [] op = "attn_output"      -> {"attention"}
    [] op = "attn_residual"    -> {"x", "projection"}
    [] op = "ffn_norm"         -> {"x"}
    [] op \in {"ffn_gate", "ffn_up"} -> {"norm"}
    [] op = "swiglu"           -> {"gate", "up"}
    [] op = "ffn_down"         -> {"activation"}
    [] op = "ffn_residual"     -> {"x", "ffn_output"}

Written(op) ==
  CASE op \in {"attn_norm", "ffn_norm"} -> "norm"
    [] op \in {"attn_q", "q_norm"} -> "q"
    [] op \in {"attn_k", "k_norm"} -> "k"
    [] op = "attn_v"           -> "v"
    [] op = "q_rope"           -> "projection"
    [] op = "k_rope"           -> "attention"
    [] op = "k_copy"           -> "kCache"
    [] op = "v_copy"           -> "vCache"
    [] op = "attention_scores" -> "scores"
    [] op = "attention_value"  -> "attention"
    [] op = "attn_output"      -> "projection"
    [] op \in {"attn_residual", "ffn_residual"} -> "x"
    [] op = "ffn_gate"         -> "gate"
    [] op = "ffn_up"           -> "up"
    [] op = "swiglu"           -> "activation"
    [] op = "ffn_down"         -> "ffn_output"

-----------------------------------------------------------------------------
(* Commands of a request. *)

AllCommands ==
  {c \in [layer : Layers, group : Groups, op : UNION {Ops(g) : g \in Groups}] :
     c.op \in Ops(c.group)}

Commands(request) == {c \in AllCommands : c.layer \in request.first .. request.last}

\* c was recorded in an earlier group than d: a barrier stands between them.
Precedes(c, d) ==
  \/ c.layer < d.layer
  \/ c.layer = d.layer /\ c.group < d.group

\* The two kernels of attention also read all rows of the cache they are given
\* up to the position.
Reads(c, position) ==
  {Work(b) : b \in WorkRead(c.op)}
    \cup (CASE c.op = "attention_scores" -> {Row("kCache", c.layer, p) : p \in 0 .. position}
            [] c.op = "attention_value" -> {Row("vCache", c.layer, p) : p \in 0 .. position}
            [] OTHER -> {})

Writes(c, position) ==
  IF Written(c.op) \in Caches THEN Row(Written(c.op), c.layer, position)
  ELSE Work(Written(c.op))

ASSUME ResultAssumption ==
  \A c \in AllCommands, p \in Positions :
    \A in \in [Reads(c, p) -> Values] : Result(c, in) \in Values

=============================================================================
