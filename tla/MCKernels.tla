------------------------------- MODULE MCKernels ------------------------------
(***************************************************************************)
(* The two views of the kernels that KernelProofs proves about, in one     *)
(* run. They share no state: in a behaviour one of them takes its steps    *)
(* and the other rests in an initial state.                                *)
(***************************************************************************)
EXTENDS Workgroup, LayerMath

MCHalvings == {1, 2, 4}

Plain == [heads |-> 2, kv |-> 1, dim |-> 2, hidden |-> 4, ff |-> 2, biases |-> {}, headNorms |-> {"attn_q", "attn_k"}]

\* Heads shared in several ways, the largest head and one beyond it, vectors
\* longer and shorter than a group, an odd head, tensors present or not.
MCModels ==
  {Plain, [Plain EXCEPT !.dim = 4, !.heads = 4, !.kv = 2, !.hidden = 6],
   [Plain EXCEPT !.dim = 6], [Plain EXCEPT !.dim = 3, !.heads = 2, !.kv = 2],
   [Plain EXCEPT !.kv = 2, !.ff = 8], [Plain EXCEPT !.heads = 1, !.hidden = 8],
   [Plain EXCEPT !.heads = 3, !.kv = 3, !.hidden = 2, !.ff = 6]}
    \cup {[Plain EXCEPT !.biases = b, !.headNorms = n] :
            b \in {{}, {"attn_v"}, {"ffn_gate", "attn_q"}, Matrices},
            n \in {{}, {"attn_k"}, {"attn_q", "attn_k"}}}

-------------------------------------------------------------------------------
VARIABLE subject  \* "workgroup" or "layer"

KernelsInit ==
  /\ Init /\ LayerInit
  /\ \/ subject = "workgroup" /\ backend = "pc" /\ model = Plain
     \/ subject = "layer" /\ kind = "row" /\ length = 0

\* The layer was refused, or its caches are full.
LayerEnds ==
  /\ \/ phase = "refused"
     \/ phase = "computed" /\ position + 1 = MaxContext
  /\ UNCHANGED layerVars

KernelsNext ==
  /\ \/ subject = "workgroup" /\ Next /\ UNCHANGED layerVars
     \/ subject = "layer" /\ (LayerNext \/ LayerEnds) /\ UNCHANGED vars
  /\ UNCHANGED subject

KernelsSpec == KernelsInit /\ [][KernelsNext]_<<vars, layerVars, subject>>

===============================================================================
