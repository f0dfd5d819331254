------------------------------- MODULE MCRequest ------------------------------
(***************************************************************************)
(* A request on its way and on the GPU, the two that RequestProofs proves  *)
(* about, in one run. They share no state: in a behaviour one of them      *)
(* takes its steps and the other rests in an initial state.                *)
(***************************************************************************)
EXTENDS MCLayerRuntime, Payloads, Bitwise

MCExclusiveOr(a, b) == a ^^ b

Upto(n, S) == UNION {[1 .. k -> S] : k \in 0 .. n}

\* Dimensions from none to one too many, their products from 0 past the word.
MCTensors ==
  [type : {1}, dims : Upto(MaxRank + 1, {0, 1, 2, 3}), name : {<<>>, <<1>>, <<1, 2>>, <<1, 2, 3>>},
   data : {<<>>, <<5>>, <<7, 0>>}]

\* Every relation between the fields that the decoder looks at.
MCLayerRanges ==
  [first : {0, 1}, last : {0, 1}, position : {0, 1, 2}, max_context : {0, 2}, ffn : {0, 1},
   heads : {0, 1, 2}, kv_heads : {0, 1, 2}, head_dim : {0, 1}, epsilon : {0, 1}, theta : {0, 2},
   input : {<<>>, <<3>>, <<4, 5>>}]

-------------------------------------------------------------------------------
VARIABLE subject  \* "payload" or "runtime"

RequestInit ==
  /\ Init /\ PayloadsInit
  /\ \/ subject = "payload" /\ mayFail = {"cache"}
     \/ subject = "runtime" /\ call.kind = "hello" /\ call.backend = 0

\* The call is over.
CallEnds == phase \in {"done", "failed"} /\ UNCHANGED payloadsVars

RequestNext ==
  /\ \/ subject = "payload" /\ (PayloadsNext \/ CallEnds) /\ UNCHANGED vars
     \/ subject = "runtime" /\ Next /\ UNCHANGED payloadsVars
  /\ UNCHANGED subject

RequestSpec == RequestInit /\ [][RequestNext]_<<vars, payloadsVars, subject>>

===============================================================================
