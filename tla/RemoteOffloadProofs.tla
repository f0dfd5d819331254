--------------------------- MODULE RemoteOffloadProofs ---------------------------
(***************************************************************************)
(* Proofs about layers offloaded to a phone, for every number of clients,  *)
(* layers, tensors, positions and turns and every choice of models and     *)
(* offloaded layers, with crashes, restarts and broken links.              *)
(***************************************************************************)
EXTENDS TLAPS, RemoteOffload

\* A counter between 1 and its last value.
LEMMA Counting ==
  ASSUME NEW n \in Nat, NEW k \in 1 .. n
  PROVE  /\ k < n \/ k = n
         /\ k < n => k + 1 \in 1 .. n
         /\ \A t \in 1 .. n : t <= k => t = k \/ t < k
OBVIOUS

\* A position before the next one.
LEMMA Preceding ==
  ASSUME NEW q \in Int, NEW p \in Int, q < p + 1
  PROVE  q < p \/ q = p
OBVIOUS

USE ClientAssumption, SizeAssumption, ModelAssumption

-------------------------------------------------------------------------------
(* What is inductive, of one client. *)

\* What the state of the process says of its variables.
Local(c) ==
  /\ cstate[c] \in {"start", "hello"} => uploaded[c] = {} /\ suffix[c] = 1
  /\ cstate[c] \in {"start", "hello", "upload", "tensor"} => turn[c] = 0
  /\ suffix[c] # 1 => /\ layer[c] \in Offload[c]
                      /\ cstate[c] \in {"upload", "tensor"} \cup Gone
  /\ cstate[c] = "tensor" => layer[c] \in Offload[c]
  /\ cstate[c] \in {"forward", "range"} => turn[c] > 0
  /\ cstate[c] = "start" => cur # c

\* At most one frame is under way, a request or its response, and it carries
\* the id of the last request; none while the process does not wait for one.
Answering(c) == cur = c /\ reply # NoReply
Exclusive(c) ==
  /\ \A f, g \in toServer[c] : f = g
  /\ \A f, g \in toClient[c] : f = g
  /\ \A f \in toServer[c] : f.id = Pending(c)
  /\ \A f \in toClient[c] : f.id = Pending(c)
  /\ Answering(c) => reply.id = Pending(c) /\ toClient[c] = {}
  /\ toServer[c] # {} => toClient[c] = {} /\ ~Answering(c)
  /\ cstate[c] \notin Waiting \cup Gone =>
       toServer[c] = {} /\ toClient[c] = {} /\ ~Answering(c)

\* A request says what the client's variables say.
TensorRequest(c, f) ==
  /\ f = LoadTensor(f.id, Current(c), Weight[c][Current(c)])
  /\ layer[c] \in Offload[c]
RangeRequest(c, f) ==
  /\ f.type = "RunLayerRange"
  /\ f.first = layer[c]
  /\ f.last \in Layers
  /\ f.first <= f.last
  /\ f.first .. f.last \subseteq Offload[c] \cap uploaded[c]
  /\ f.input = Input(c)
  /\ turn[c] > 0
Asks(c) ==
  \A f \in toServer[c] : f.type = "Hello" \/ TensorRequest(c, f) \/ RangeRequest(c, f)

\* So does a response, and what it reports is so while the connection lasts.
TensorAnswer(c, f) ==
  cur = c => bound[Current(c)] = Weight[c][Current(c)]
RangeAnswer(c, f) ==
  /\ f.first = layer[c]
  /\ f.last \in Layers
  /\ f.first <= f.last
  /\ f.position = pos[c]
  /\ f.output = OwnOutput(c, f.first, f.last, f.position)
  /\ cur = c => \A l \in f.first .. f.last : kv[l][pos[c]] = OwnRow(c, pos[c])
Says(c, f) ==
  /\ f.type = "TensorLoaded" => TensorAnswer(c, f)
  /\ f.type = "LayerRangeResult" => RangeAnswer(c, f)
Answers(c) ==
  /\ \A f \in toClient[c] : Says(c, f)
  /\ Answering(c) => Says(c, reply)

\* The layers uploaded, and the tensors of the layer under way, are held.
Held(c) ==
  cur = c =>
    /\ \A l \in uploaded[c], t \in 1 .. NumTensors : bound[<<l, t>>] = Weight[c][<<l, t>>]
    /\ \A t \in 1 .. NumTensors :
         t < suffix[c] => bound[<<layer[c], t>>] = Weight[c][<<layer[c], t>>]

\* The rows of the turn so far are the client's own.
Rows(c) ==
  cur = c /\ turn[c] > 0 =>
    \A l \in Offload[c] : \A q \in Positions :
      q < pos[c] \/ (q = pos[c] /\ l < layer[c]) => kv[l][q] = OwnRow(c, q)

ClientInv(c) == Local(c) /\ Exclusive(c) /\ Asks(c) /\ Answers(c) /\ Held(c) /\ Rows(c)

\* A client in the listen queue has sent its HELLO and nothing else.
Newcomer(c) ==
  /\ cstate[c] \in {"hello"} \cup Gone
  /\ turn[c] = 0 /\ uploaded[c] = {} /\ suffix[c] = 1
  /\ toClient[c] = {}
  /\ \A f \in toServer[c] : f.type = "Hello"
QueueInv ==
  /\ \A i, j \in 1 .. Len(backlog) : backlog[i] = backlog[j] => i = j
  /\ \A i \in 1 .. Len(backlog) : backlog[i] # cur /\ Newcomer(backlog[i])
  /\ cur = NoClient => reply = NoReply

IInv == TypeOK /\ QueueInv /\ \A c \in Clients : ClientInv(c)

-------------------------------------------------------------------------------
(* What follows from the invariant. *)

\* The invariant holds each property the runs check of the model's states.
LEMMA Consequences ==
  ASSUME IInv
  PROVE  OwnResults /\ OwnRows /\ UploadedHeld /\ OneOutstanding /\ ServedOnce
<1>1. OwnResults
  BY DEF IInv, ClientInv, Answers, Says, RangeAnswer, OwnResults
<1>2. OwnRows
  BY DEF IInv, ClientInv, Rows, OwnRows
<1>3. UploadedHeld
  BY DEF IInv, ClientInv, Held, UploadedHeld
<1>4. OneOutstanding
  <2> SUFFICES ASSUME NEW c \in Clients
               PROVE  /\ InFlight(c) \subseteq {Pending(c)}
                      /\ toServer[c] # {} => toClient[c] = {} /\ ~(cur = c /\ reply # NoReply)
                      /\ Running(c) /\ cstate[c] \notin Waiting => InFlight(c) = {}
    BY DEF OneOutstanding
  <2>1. Exclusive(c)
    BY DEF IInv, ClientInv
  <2>2. InFlight(c) \subseteq {Pending(c)}
    BY <2>1 DEF Exclusive, InFlight, Answering
  <2>3. Running(c) /\ cstate[c] \notin Waiting => InFlight(c) = {}
    BY <2>1 DEF Exclusive, InFlight, Answering, Running
  <2> QED BY <2>1, <2>2, <2>3 DEF Exclusive, Answering
<1>5. ServedOnce
  BY DEF IInv, QueueInv, Newcomer, ServedOnce
<1> QED BY <1>1, <1>2, <1>3, <1>4, <1>5

\* Nothing sent, nothing stored.
LEMMA InitInvariant == Init => IInv
<1> SUFFICES ASSUME Init PROVE IInv
  OBVIOUS
<1> USE DEF Init, InitClients
<1>1. TypeOK
  <2>1. /\ cstate \in [Clients -> ClientStates] /\ nextReq \in [Clients -> Nat]
        /\ layer \in [Clients -> 0 .. NumLayers] /\ suffix \in [Clients -> 1 .. NumTensors]
        /\ uploaded \in [Clients -> SUBSET Layers]
        /\ turn \in [Clients -> Turns] /\ pos \in [Clients -> Positions]
    BY DEF ClientStates, Turns, Positions
  <2>2. /\ bound \in [Names -> Contents \cup {NoContent}]
        /\ kv \in [Layers -> [Positions -> Inputs \cup {NoInput}]]
    BY DEF NoTensors, NoRows
  <2>3. backlog \in Seq(Clients)
    OBVIOUS
  <2> QED BY <2>1, <2>2, <2>3 DEF TypeOK
<1>2. QueueInv
  BY DEF QueueInv
<1>3. ASSUME NEW c \in Clients PROVE ClientInv(c)
  <2>1. Local(c) /\ Held(c) /\ Rows(c)
    BY DEF Local, Held, Rows
  <2>2. Exclusive(c) /\ Asks(c) /\ Answers(c)
    BY DEF Exclusive, Asks, Answers, Answering
  <2> QED BY <2>1, <2>2 DEF ClientInv
<1> QED BY <1>1, <1>2, <1>3 DEF IInv


-------------------------------------------------------------------------------
(* Steps that leave a client alone. *)

Untouched(d) ==
  /\ cstate'[d] = cstate[d]
  /\ nextReq'[d] = nextReq[d]
  /\ layer'[d] = layer[d]
  /\ suffix'[d] = suffix[d]
  /\ uploaded'[d] = uploaded[d]
  /\ turn'[d] = turn[d]
  /\ pos'[d] = pos[d]
  /\ toServer'[d] = toServer[d]
  /\ toClient'[d] = toClient[d]

\* What a client would compute itself depends on its own turn alone.
LEMMA SameOwn ==
  ASSUME NEW d \in Clients, turn'[d] = turn[d]
  PROVE  /\ \A q : OwnRow(d, q)' = OwnRow(d, q)
         /\ \A first, last, p : OwnOutput(d, first, last, p)' = OwnOutput(d, first, last, p)
BY DEF OwnRow, OwnOutput

\* A client keeps its part of the invariant while nothing of its own changes
\* and the server does nothing for it, or stops serving it.
LEMMA Bystander ==
  ASSUME NEW d \in Clients, ClientInv(d), Untouched(d),
         UNCHANGED <<cur, reply, bound, kv>> \/ cur' # d
  PROVE  ClientInv(d)'
<1> USE DEF Untouched
<1>1. Local(d)'
  BY DEF ClientInv, Local
<1>2. Exclusive(d)'
  BY DEF ClientInv, Exclusive, Answering, Pending
<1>3. Asks(d)'
  BY DEF ClientInv, Asks, TensorRequest, RangeRequest, Current, Input
<1>4. Answers(d)'
  <2>1. ASSUME NEW f, Says(d, f) PROVE Says(d, f)'
    BY <2>1, SameOwn DEF Says, TensorAnswer, RangeAnswer, Current
  <2> QED BY <2>1 DEF ClientInv, Answers, Answering
<1>5. Held(d)'
  BY DEF ClientInv, Held
<1>6. Rows(d)'
  BY SameOwn DEF ClientInv, Rows
<1> QED BY <1>1, <1>2, <1>3, <1>4, <1>5, <1>6 DEF ClientInv

-------------------------------------------------------------------------------
(* Steps of a client process. *)

\* A step of one client keeps the invariant if it keeps its own part of it and
\* what the listen queue needs; the other clients are bystanders.
LEMMA ClientStep ==
  ASSUME IInv, NEW c \in Clients, TypeOK', ClientInv(c)',
         \A d \in Clients \ {c} : Untouched(d),
         Newcomer(c) => Newcomer(c)',
         UNCHANGED <<backlog, serverVars>>
  PROVE  IInv'
<1> USE DEF serverVars
<1>1. ASSUME NEW d \in Clients PROVE ClientInv(d)'
  BY Bystander DEF IInv
<1>2. QueueInv'
  <2>1. backlog \in Seq(Clients)
    BY DEF IInv, TypeOK
  <2>2. ASSUME NEW i \in 1 .. Len(backlog) PROVE Newcomer(backlog[i])'
    <3>1. backlog[i] \in Clients /\ Newcomer(backlog[i])
      BY <2>1 DEF IInv, QueueInv
    <3> QED BY <3>1 DEF Newcomer, Untouched
  <2> QED BY <2>1, <2>2 DEF IInv, QueueInv
<1> QED BY <1>1, <1>2 DEF IInv

\* A process that ends, or goes idle with no request under way.
LEMMA StateStep ==
  ASSUME IInv, NEW c \in Clients, NEW s,
         \/ s \in Gone
         \/ s = "idle" /\ cstate[c] \notin Waiting \cup Gone /\ suffix[c] = 1,
         cstate' = [cstate EXCEPT ![c] = s],
         toServer' \in {toServer, [toServer EXCEPT ![c] = {}]},
         UNCHANGED <<nextReq, layer, suffix, uploaded, turn, pos,
                     toClient, backlog, serverVars>>
  PROVE  IInv'
<1> USE DEF serverVars
<1>1. cstate' \in [Clients -> ClientStates] /\ cstate'[c] = s
  BY DEF IInv, TypeOK, ClientStates
<1>2. TypeOK'
  BY <1>1 DEF IInv, TypeOK
<1>3. \A d \in Clients \ {c} : Untouched(d)
  BY DEF IInv, TypeOK, Untouched
<1>4. toServer'[c] \subseteq toServer[c]
  BY DEF IInv, TypeOK
<1>5. Newcomer(c) => Newcomer(c)'
  BY <1>1, <1>4 DEF Newcomer, Waiting, Gone
<1>6. ClientInv(c)'
  <2>0. ClientInv(c)
    BY DEF IInv
  <2>1. Local(c)'
    BY <1>1, <2>0 DEF ClientInv, Local, Gone
  <2>2. Exclusive(c)'
    BY <1>1, <1>4, <2>0 DEF ClientInv, Exclusive, Answering, Pending, Waiting, Gone
  <2>3. Asks(c)'
    BY <1>4, <2>0 DEF ClientInv, Asks, TensorRequest, RangeRequest, Current, Input
  <2>4. Answers(c)'
    <3>1. ASSUME NEW f, Says(c, f) PROVE Says(c, f)'
      BY <3>1, SameOwn DEF Says, TensorAnswer, RangeAnswer, Current
    <3> QED BY <2>0, <3>1 DEF ClientInv, Answers, Answering
  <2>5. Held(c)'
    BY <2>0 DEF ClientInv, Held
  <2>6. Rows(c)'
    BY <2>0, SameOwn DEF ClientInv, Rows
  <2> QED BY <2>1, <2>2, <2>3, <2>4, <2>5, <2>6 DEF ClientInv
<1> QED BY <1>2, <1>3, <1>5, <1>6, ClientStep

\* The steps that only move the process: loaded, end of a turn, exit, and
\* every way to fail.
LEMMA Endings ==
  ASSUME IInv, NEW c \in Clients,
         \/ ConnectFails(c) \/ ModelLoaded(c) \/ EndTurn(c) \/ Exit(c)
         \/ ClientFails(c) \/ ClientDies(c) \/ ClientVanishes(c)
  PROVE  IInv'
<1>0. Local(c) /\ layer[c] \in 0 .. NumLayers /\ Offload[c] \subseteq Layers
  BY DEF IInv, ClientInv, TypeOK
<1>1. CASE ModelLoaded(c)
  <2>1. suffix[c] = 1
    BY <1>0, <1>1 DEF Local, ModelLoaded, Layers
  <2> QED BY <1>1, <2>1, StateStep DEF ModelLoaded, Waiting, Gone
<1>2. CASE EndTurn(c)
  <2>1. suffix[c] = 1
    BY <1>0, <1>2 DEF Local, EndTurn, Gone
  <2> QED BY <1>2, <2>1, StateStep DEF EndTurn, Waiting, Gone
<1>3. CASE ConnectFails(c)
  BY <1>3, StateStep DEF ConnectFails, Gone
<1>4. CASE Exit(c)
  BY <1>4, StateStep DEF Exit, Gone
<1>5. CASE ClientFails(c)
  BY <1>5, StateStep DEF ClientFails, Gone
<1>6. CASE ClientDies(c)
  BY <1>6, StateStep DEF ClientDies, Gone
<1>7. CASE ClientVanishes(c)
  BY <1>7, StateStep DEF ClientVanishes, Gone
<1> QED BY <1>1, <1>2, <1>3, <1>4, <1>5, <1>6, <1>7

\* What a request adds to the client's part of the invariant.
LEMMA RequestKeeps ==
  ASSUME IInv, NEW c \in Clients, NEW frame \in RequestFrames, NEW s \in Waiting,
         Request(c, frame, s), cstate[c] \notin Waiting \cup Gone,
         frame.id = nextReq[c],
         frame.type = "Hello" \/ TensorRequest(c, frame) \/ RangeRequest(c, frame),
         Local(c)', backlog' \in Seq(Clients),
         UNCHANGED <<layer, suffix, uploaded, turn, pos, toClient, serverVars>>
  PROVE  TypeOK' /\ ClientInv(c)' /\ \A d \in Clients \ {c} : Untouched(d)
<1> USE DEF serverVars, Request
<1>0. ClientInv(c) /\ TypeOK /\ nextReq[c] \in Nat
  BY DEF IInv, TypeOK
<1>1. /\ cstate' \in [Clients -> ClientStates] /\ cstate'[c] = s
      /\ nextReq' \in [Clients -> Nat] /\ Pending(c)' = nextReq[c]
  <2>1. cstate' \in [Clients -> ClientStates] /\ cstate'[c] = s
    BY <1>0 DEF TypeOK, ClientStates, Waiting
  <2>2. nextReq' \in [Clients -> Nat] /\ nextReq'[c] = nextReq[c] + 1
    BY <1>0 DEF TypeOK
  <2>3. Pending(c)' = nextReq[c]
    BY <1>0, <2>2 DEF Pending
  <2> QED BY <2>1, <2>2, <2>3
<1>2. toServer[c] = {} /\ toClient[c] = {} /\ ~Answering(c)
  BY <1>0 DEF ClientInv, Exclusive
<1>3. toServer' \in [Clients -> SUBSET RequestFrames] /\ toServer'[c] = {frame}
  BY <1>0, <1>2 DEF TypeOK
<1>4. TypeOK'
  BY <1>0, <1>1, <1>3 DEF TypeOK
<1>5. \A d \in Clients \ {c} : Untouched(d)
  BY <1>0 DEF TypeOK, Untouched
<1>6. Exclusive(c)'
  BY <1>1, <1>2, <1>3 DEF Exclusive, Answering
<1>7. Asks(c)'
  BY <1>3 DEF Asks, TensorRequest, RangeRequest, Current, Input
<1>8. Answers(c)'
  BY <1>2 DEF Answers, Answering
<1>9. Held(c)'
  BY <1>0 DEF ClientInv, Held
<1>10. Rows(c)'
  BY <1>0, SameOwn DEF ClientInv, Rows
<1> QED BY <1>4, <1>5, <1>6, <1>7, <1>8, <1>9, <1>10 DEF ClientInv

\* The next tensor of a layer, or the next range of layers.
LEMMA Sending ==
  ASSUME IInv, NEW c \in Clients, SendTensor(c) \/ SendRange(c)
  PROVE  IInv'
<1>0. /\ ClientInv(c) /\ TypeOK /\ nextReq[c] \in Nat
      /\ Offload[c] \subseteq Layers /\ layer[c] \in 0 .. NumLayers
      /\ turn[c] \in Turns /\ pos[c] \in Positions /\ suffix[c] \in 1 .. NumTensors
      /\ Weight[c] \in [Names -> Contents]
      /\ backlog \in Seq(Clients)
  BY DEF IInv, TypeOK
<1>1. CASE SendTensor(c)
  <2> DEFINE frame == LoadTensor(nextReq[c], Current(c), Weight[c][Current(c)])
  <2>1. layer[c] \in Offload[c] /\ cstate[c] = "upload"
    BY <1>1 DEF SendTensor
  <2>2. Current(c) \in Names
    BY <1>0, <2>1 DEF Current, Names
  <2>3. frame \in RequestFrames
    BY <1>0, <2>2 DEF RequestFrames, LoadTensor
  <2>4. TensorRequest(c, frame) /\ frame.id = nextReq[c]
    BY <2>1 DEF TensorRequest, LoadTensor
  <2>5. cstate'[c] = "tensor"
    BY <1>0, <1>1 DEF SendTensor, Request, TypeOK
  <2>6. Local(c)'
    BY <1>0, <1>1, <2>1, <2>5 DEF SendTensor, ClientInv, Local, serverVars
  <2>7. TypeOK' /\ ClientInv(c)' /\ \A d \in Clients \ {c} : Untouched(d)
    BY <1>0, <1>1, <2>1, <2>3, <2>4, <2>6, RequestKeeps DEF SendTensor, Waiting, Gone
  <2>8. ~Newcomer(c)
    BY <2>1 DEF Newcomer, Gone
  <2> QED BY <1>1, <2>7, <2>8, ClientStep DEF SendTensor
<1>2. CASE SendRange(c)
  <2>1. PICK last \in layer[c] .. NumLayers - 1 :
          /\ IsRemoteRun(c, layer[c], last)
          /\ IF layer[c] .. last \subseteq uploaded[c]
               THEN Request(c, RunLayerRange(nextReq[c], layer[c], last, Input(c)), "range")
               ELSE /\ cstate' = [cstate EXCEPT ![c] = "failed"]
                    /\ UNCHANGED <<toServer, nextReq>>
    BY <1>2 DEF SendRange
  <2> DEFINE frame == RunLayerRange(nextReq[c], layer[c], last, Input(c))
  <2>2. CASE ~(layer[c] .. last \subseteq uploaded[c])
    BY <1>2, <2>1, <2>2, StateStep DEF SendRange, Gone
  <2>3. CASE layer[c] .. last \subseteq uploaded[c]
    <3>1. /\ layer[c] \in Offload[c] /\ cstate[c] = "forward"
          /\ Request(c, frame, "range") /\ layer[c] .. last \subseteq Offload[c]
      BY <1>2, <2>1, <2>3 DEF SendRange, IsRemoteRun
    <3>2. layer[c] \in Layers /\ last \in Layers /\ layer[c] <= last
      BY <1>0, <2>1, <3>1 DEF Layers
    <3>3. Input(c) \in Inputs
      BY <1>0 DEF Input, Inputs
    <3>4. frame \in RequestFrames
      BY <1>0, <3>2, <3>3 DEF RequestFrames, RunLayerRange
    <3>5. turn[c] > 0
      BY <1>0, <3>1 DEF ClientInv, Local
    <3>6. RangeRequest(c, frame) /\ frame.id = nextReq[c]
      BY <2>3, <3>1, <3>2, <3>5 DEF RangeRequest, RunLayerRange
    <3>7. cstate'[c] = "range"
      BY <1>0, <3>1 DEF Request, TypeOK
    <3>8. Local(c)'
      BY <1>0, <1>2, <3>1, <3>5, <3>7 DEF SendRange, ClientInv, Local, serverVars, Gone
    <3>9. TypeOK' /\ ClientInv(c)' /\ \A d \in Clients \ {c} : Untouched(d)
      BY <1>0, <1>2, <3>1, <3>4, <3>6, <3>8, RequestKeeps DEF SendRange, Waiting, Gone
    <3>10. ~Newcomer(c)
      BY <3>1 DEF Newcomer, Gone
    <3> QED BY <1>2, <3>9, <3>10, ClientStep DEF SendRange
  <2> QED BY <2>2, <2>3
<1> QED BY <1>1, <1>2

\* A layer computed on the PC, the next token and the next turn.
LEMMA Computing ==
  ASSUME IInv, NEW c \in Clients,
         LoadLocalLayer(c) \/ RunLocalLayer(c) \/ NextToken(c) \/ StartTurn(c)
  PROVE  IInv'
<1> USE DEF serverVars
<1>0. /\ ClientInv(c) /\ TypeOK
      /\ Offload[c] \subseteq Layers /\ layer[c] \in 0 .. NumLayers
      /\ turn[c] \in Turns /\ pos[c] \in Positions /\ suffix[c] \in 1 .. NumTensors
  BY DEF IInv, TypeOK
<1>1. /\ cstate[c] \in {"upload", "forward", "idle"}
      /\ UNCHANGED <<nextReq, suffix, uploaded, toServer, toClient, backlog>>
      /\ UNCHANGED serverVars
  BY DEF LoadLocalLayer, RunLocalLayer, NextToken, StartTurn
<1>2. toServer[c] = {} /\ toClient[c] = {} /\ ~Answering(c)
  BY <1>0, <1>1 DEF ClientInv, Exclusive, Waiting, Gone
<1>3. suffix[c] = 1
  BY <1>0 DEF ClientInv, Local, Gone, LoadLocalLayer, RunLocalLayer, NextToken, StartTurn
<1>4. /\ cstate' \in [Clients -> ClientStates]
      /\ layer' \in [Clients -> 0 .. NumLayers]
      /\ turn' \in [Clients -> Turns]
      /\ pos' \in [Clients -> Positions]
  <2>1. CASE LoadLocalLayer(c) \/ RunLocalLayer(c)
    <3>1. layer[c] < NumLayers /\ layer' = [layer EXCEPT ![c] = @ + 1]
          /\ UNCHANGED <<cstate, turn, pos>>
      BY <2>1 DEF LoadLocalLayer, RunLocalLayer
    <3>2. layer[c] + 1 \in 0 .. NumLayers
      BY <1>0, <3>1
    <3> QED BY <1>0, <3>1, <3>2 DEF TypeOK
  <2>2. CASE NextToken(c)
    BY <1>0, <2>2 DEF TypeOK, NextToken, Positions
  <2>3. CASE StartTurn(c)
    <3>1. turn[c] < MaxTurns
      BY <1>0, <2>3 DEF StartTurn, Turns
    <3>2. turn[c] + 1 \in Turns
      BY <1>0, <3>1 DEF Turns
    <3>3. FirstPosition(c) \in Positions
      BY DEF FirstPosition, Positions
    <3> QED BY <1>0, <2>3, <3>2, <3>3 DEF TypeOK, StartTurn, ClientStates
  <2> QED BY <2>1, <2>2, <2>3
<1>5. TypeOK'
  BY <1>0, <1>1, <1>4 DEF TypeOK
<1>6. \A d \in Clients \ {c} : Untouched(d)
  BY <1>0 DEF TypeOK, Untouched, LoadLocalLayer, RunLocalLayer, NextToken, StartTurn
<1>7. ~Newcomer(c)
  BY <1>1 DEF Newcomer, Gone
<1>8. Local(c)'
  <2>1. CASE LoadLocalLayer(c) \/ RunLocalLayer(c) \/ NextToken(c)
    <3>1. UNCHANGED <<cstate, turn>>
      BY <2>1 DEF LoadLocalLayer, RunLocalLayer, NextToken
    <3> QED BY <1>0, <1>1, <1>3, <3>1 DEF ClientInv, Local
  <2>2. CASE StartTurn(c)
    <3>1. cstate'[c] = "forward" /\ turn'[c] = turn[c] + 1
      BY <1>0, <2>2 DEF StartTurn, TypeOK
    <3>2. turn'[c] > 0
      BY <1>0, <3>1 DEF Turns
    <3> QED BY <1>1, <1>3, <3>1, <3>2 DEF Local
  <2> QED BY <2>1, <2>2
<1>9. Exclusive(c)' /\ Asks(c)' /\ Answers(c)'
  BY <1>1, <1>2 DEF Exclusive, Asks, Answers, Answering
<1>10. Held(c)'
  BY <1>0, <1>1, <1>3 DEF ClientInv, Held
<1>11. Rows(c)'
  <2>1. CASE LoadLocalLayer(c) \/ RunLocalLayer(c)
    <3>1. layer[c] \notin Offload[c] /\ layer'[c] = layer[c] + 1 /\ UNCHANGED <<turn, pos>>
      BY <1>0, <2>1 DEF LoadLocalLayer, RunLocalLayer, TypeOK
    <3>2. ASSUME NEW l \in Offload[c], l < layer'[c] PROVE l < layer[c]
      <4>1. l \in Int /\ layer[c] \in Int /\ l # layer[c]
        BY <1>0, <3>1 DEF Layers
      <4> QED BY <3>1, <3>2, <4>1
    <3> QED BY <1>0, <1>1, <3>1, <3>2, SameOwn DEF ClientInv, Rows
  <2>2. CASE NextToken(c)
    <3>1. layer[c] = NumLayers /\ layer'[c] = 0 /\ pos'[c] = pos[c] + 1 /\ UNCHANGED turn
      BY <1>0, <2>2 DEF NextToken, TypeOK
    <3>2. ASSUME NEW l \in Offload[c], NEW q \in Positions,
                 q < pos'[c] \/ (q = pos'[c] /\ l < layer'[c])
          PROVE  q < pos[c] \/ (q = pos[c] /\ l < layer[c])
      <4>1. q \in Int /\ pos[c] \in Int /\ l \in Layers
        BY <1>0 DEF Positions
      <4>2. l \in Int /\ l < NumLayers /\ ~(l < 0)
        BY <4>1 DEF Layers
      <4>3. q < pos[c] + 1
        BY <3>1, <3>2, <4>1, <4>2
      <4> QED BY <3>1, <4>1, <4>2, <4>3, Preceding
    <3> QED BY <1>0, <1>1, <3>1, <3>2, SameOwn DEF ClientInv, Rows
  <2>3. CASE StartTurn(c)
    <3>1. layer'[c] = 0 /\ pos'[c] = 0
      BY <1>0, <2>3 DEF StartTurn, TypeOK, FirstPosition
    <3> QED BY <1>0, <3>1 DEF Rows, Layers, Positions
  <2> QED BY <2>1, <2>2, <2>3
<1>12. ClientInv(c)'
  BY <1>8, <1>9, <1>10, <1>11 DEF ClientInv
<1> QED BY <1>1, <1>5, <1>6, <1>7, <1>12, ClientStep

\* A response received: it was the only frame under way, and what it reports
\* is what the client now counts on.
LEMMA Receiving ==
  ASSUME IInv, NEW c \in Clients,
         RecvCapabilities(c) \/ RecvTensorLoaded(c) \/ RecvRangeResult(c)
  PROVE  IInv'
<1> USE DEF serverVars
<1>0. /\ ClientInv(c) /\ TypeOK
      /\ Offload[c] \subseteq Layers /\ layer[c] \in 0 .. NumLayers
      /\ pos[c] \in Positions /\ suffix[c] \in 1 .. NumTensors
      /\ uploaded[c] \in SUBSET Layers /\ layer[c] \in Int
  BY DEF IInv, TypeOK
<1>1. PICK f \in toClient[c] :
        /\ Receive(c, f)
        /\ RecvRangeResult(c) => layer' = [layer EXCEPT ![c] = f.last + 1]
  BY DEF RecvCapabilities, RecvTensorLoaded, RecvRangeResult, Waiting
<1>2. /\ UNCHANGED <<nextReq, turn, pos, toServer, backlog>> /\ UNCHANGED serverVars
      /\ cstate[c] \in Waiting
  BY DEF RecvCapabilities, RecvTensorLoaded, RecvRangeResult, Waiting
<1>3. /\ toClient'[c] = {} /\ toServer[c] = {} /\ ~Answering(c)
      /\ \A d \in Clients \ {c} : toClient'[d] = toClient[d]
      /\ DOMAIN toClient' = Clients
  BY <1>0, <1>1 DEF Receive, TypeOK, ClientInv, Exclusive
<1>4. Says(c, f) /\ Expected(c, f)
  BY <1>0, <1>1 DEF Receive, ClientInv, Answers
<1>5. Exclusive(c)' /\ Asks(c)' /\ Answers(c)'
  BY <1>2, <1>3 DEF Exclusive, Asks, Answers, Answering
<1>6. toClient'[c] \subseteq toClient[c] /\ \A d \in Clients : toClient'[d] \subseteq toClient[d]
  BY <1>3
<1>7. /\ suffix[c] < NumTensors \/ suffix[c] = NumTensors
      /\ suffix[c] < NumTensors => suffix[c] + 1 \in 1 .. NumTensors
      /\ \A t \in 1 .. NumTensors : t <= suffix[c] => t = suffix[c] \/ t < suffix[c]
  BY <1>0, Counting
<1>8. CASE RecvCapabilities(c)
  <2>1. /\ cstate' \in [Clients -> ClientStates] /\ cstate'[c] = "upload"
        /\ cstate[c] = "hello"
    BY <1>0, <1>8 DEF RecvCapabilities, TypeOK, ClientStates
  <2>2. TypeOK'
    BY <1>0, <1>2, <1>3, <1>6, <1>8, <2>1 DEF TypeOK, RecvCapabilities
  <2>3. \A d \in Clients \ {c} : Untouched(d)
    BY <1>0, <1>3, <1>8 DEF TypeOK, Untouched, RecvCapabilities
  <2>4. Local(c)' /\ Held(c)'
    BY <1>0, <1>8, <2>1 DEF ClientInv, Local, Held, RecvCapabilities
  <2>5. Rows(c)'
    BY <1>0, <1>8, <2>1 DEF ClientInv, Local, Rows, RecvCapabilities
  <2>6. ~Newcomer(c)
    BY <1>1 DEF Newcomer
  <2> QED BY <1>2, <1>5, <2>2, <2>3, <2>4, <2>5, <2>6, ClientStep DEF ClientInv
<1>9. CASE RecvTensorLoaded(c)
  <2>1. /\ cstate' \in [Clients -> ClientStates] /\ cstate'[c] = "upload"
        /\ cstate[c] = "tensor" /\ turn[c] = 0 /\ layer[c] \in Offload[c]
    BY <1>0, <1>9 DEF RecvTensorLoaded, TypeOK, ClientStates, ClientInv, Local
  <2>2. cur = c => bound[Current(c)] = Weight[c][Current(c)]
    BY <1>4, <2>1 DEF Expected, TensorLoaded, Says, TensorAnswer
  <2>3. layer[c] \in Layers /\ layer[c] + 1 \in 0 .. NumLayers
    BY <1>0, <2>1 DEF Layers
  <2>4. /\ uploaded' = [uploaded EXCEPT ![c] = Recorded(c)]
        /\ \/ /\ suffix[c] < NumTensors /\ suffix' = [suffix EXCEPT ![c] = @ + 1]
              /\ layer' = layer
           \/ /\ suffix[c] = NumTensors /\ suffix' = [suffix EXCEPT ![c] = 1]
              /\ layer' = [layer EXCEPT ![c] = @ + 1]
    BY <1>7, <1>9 DEF RecvTensorLoaded
  <2>5. /\ suffix' \in [Clients -> 1 .. NumTensors]
        /\ layer' \in [Clients -> 0 .. NumLayers]
        /\ uploaded' \in [Clients -> SUBSET Layers]
    <3>1. uploaded' \in [Clients -> SUBSET Layers]
      BY <1>0, <2>3, <2>4 DEF TypeOK, Recorded
    <3>2. layer' \in [Clients -> 0 .. NumLayers]
      <4>1. layer \in [Clients -> 0 .. NumLayers]
        BY <1>0 DEF TypeOK
      <4>2. layer' = layer \/ layer' = [layer EXCEPT ![c] = layer[c] + 1]
        BY <2>4
      <4> QED BY <2>3, <4>1, <4>2
    <3>3. suffix[c] < NumTensors => suffix[c] + 1 \in 1 .. NumTensors
      BY <1>7
    <3>4. suffix' \in [Clients -> 1 .. NumTensors]
      <4>1. suffix \in [Clients -> 1 .. NumTensors] /\ 1 \in 1 .. NumTensors
        BY <1>0 DEF TypeOK
      <4>2. CASE suffix[c] < NumTensors
        <5>1. suffix' = [suffix EXCEPT ![c] = suffix[c] + 1]
          BY <1>0, <2>4, <4>2
        <5> QED BY <3>3, <4>1, <4>2, <5>1
      <4>3. CASE ~(suffix[c] < NumTensors)
        <5>1. suffix' = [suffix EXCEPT ![c] = 1]
          BY <1>0, <2>4, <4>3
        <5> QED BY <4>1, <5>1
      <4> QED BY <4>2, <4>3
    <3> QED BY <3>1, <3>2, <3>4
  <2>6. TypeOK'
    BY <1>0, <1>2, <1>3, <1>6, <2>1, <2>5 DEF TypeOK
  <2>7. \A d \in Clients \ {c} : Untouched(d)
    <3>1. \A d \in Clients \ {c} : cstate'[d] = cstate[d] /\ uploaded'[d] = uploaded[d]
      BY <1>0, <1>9, <2>4 DEF TypeOK, RecvTensorLoaded
    <3>2. \A d \in Clients \ {c} : suffix'[d] = suffix[d] /\ layer'[d] = layer[d]
      BY <1>0, <2>4 DEF TypeOK
    <3> QED BY <1>2, <1>3, <3>1, <3>2 DEF Untouched
  <2>8. Local(c)'
    BY <1>0, <1>2, <2>1, <2>4 DEF ClientInv, Local, TypeOK
  <2>9. Held(c)'
    <3> SUFFICES ASSUME cur = c
                 PROVE  /\ \A l \in uploaded'[c], t \in 1 .. NumTensors :
                             bound[<<l, t>>] = Weight[c][<<l, t>>]
                        /\ \A t \in 1 .. NumTensors : t < suffix'[c] =>
                             bound[<<layer'[c], t>>] = Weight[c][<<layer'[c], t>>]
      BY <1>2 DEF Held
    <3>1. \A t \in 1 .. NumTensors : t < suffix[c] =>
            bound[<<layer[c], t>>] = Weight[c][<<layer[c], t>>]
      BY <1>0 DEF ClientInv, Held
    <3>2. bound[<<layer[c], suffix[c]>>] = Weight[c][<<layer[c], suffix[c]>>]
      BY <2>2 DEF Current
    <3>3. \A t \in 1 .. NumTensors : t <= suffix[c] =>
            bound[<<layer[c], t>>] = Weight[c][<<layer[c], t>>]
      <4> SUFFICES ASSUME NEW t \in 1 .. NumTensors, t <= suffix[c]
                   PROVE  bound[<<layer[c], t>>] = Weight[c][<<layer[c], t>>]
        OBVIOUS
      <4>1. t = suffix[c] \/ t < suffix[c]
        BY <1>7
      <4> QED BY <3>1, <3>2, <4>1
    <3>4. \A l \in uploaded[c], t \in 1 .. NumTensors :
            bound[<<l, t>>] = Weight[c][<<l, t>>]
      BY <1>0 DEF ClientInv, Held
    <3>5. CASE suffix[c] < NumTensors
      <4>1. uploaded'[c] = uploaded[c] /\ layer'[c] = layer[c] /\ suffix'[c] = suffix[c] + 1
        BY <1>0, <2>4, <3>5 DEF TypeOK, Recorded
      <4>2. \A t \in 1 .. NumTensors : t < suffix'[c] => t <= suffix[c]
        BY <1>0, <4>1
      <4> QED BY <3>3, <3>4, <4>1, <4>2
    <3>6. CASE suffix[c] = NumTensors
      <4>1. uploaded'[c] = uploaded[c] \cup {layer[c]} /\ suffix'[c] = 1
        BY <1>0, <2>4, <3>6 DEF TypeOK, Recorded
      <4>2. \A t \in 1 .. NumTensors : t <= suffix[c] /\ ~(t < suffix'[c])
        BY <1>0, <3>6, <4>1
      <4> QED BY <3>3, <3>4, <4>1, <4>2
    <3> QED BY <2>4, <3>5, <3>6
  <2>10. Rows(c)'
    BY <1>0, <1>2, <2>1 DEF Rows
  <2>11. ~Newcomer(c)
    BY <1>1 DEF Newcomer
  <2> QED BY <1>2, <1>5, <2>6, <2>7, <2>8, <2>9, <2>10, <2>11, ClientStep DEF ClientInv
<1>10. CASE RecvRangeResult(c)
  <2>1. /\ cstate' \in [Clients -> ClientStates] /\ cstate'[c] = "forward"
        /\ cstate[c] = "range" /\ layer' = [layer EXCEPT ![c] = f.last + 1]
        /\ UNCHANGED <<suffix, uploaded>>
    BY <1>0, <1>1, <1>10 DEF RecvRangeResult, TypeOK, ClientStates
  <2>2. RangeAnswer(c, f)
    BY <1>4, <2>1 DEF Expected, Says
  <2>3. f.last + 1 \in 0 .. NumLayers
    BY <2>2 DEF RangeAnswer, Layers
  <2>4. layer' \in [Clients -> 0 .. NumLayers] /\ layer'[c] = f.last + 1
    BY <1>0, <2>1, <2>3 DEF TypeOK
  <2>5. TypeOK'
    BY <1>0, <1>2, <1>3, <1>6, <2>1, <2>4 DEF TypeOK
  <2>6. \A d \in Clients \ {c} : Untouched(d)
    BY <1>0, <1>2, <1>3, <1>10, <2>1 DEF TypeOK, Untouched, RecvRangeResult
  <2>7. suffix[c] = 1 /\ turn[c] > 0
    BY <1>0, <2>1 DEF ClientInv, Local, Gone
  <2>8. Local(c)'
    BY <1>2, <2>1, <2>7 DEF Local
  <2>9. Held(c)'
    BY <1>0, <1>2, <2>1, <2>7 DEF ClientInv, Held
  <2>10. Rows(c)'
    <3> SUFFICES ASSUME cur = c, NEW l \in Offload[c], NEW q \in Positions,
                        q < pos[c] \/ (q = pos[c] /\ l < layer'[c])
                 PROVE  kv[l][q] = OwnRow(c, q)
      BY <1>2, SameOwn DEF Rows
    <3>1. CASE q < pos[c] \/ (q = pos[c] /\ l < layer[c])
      BY <1>0, <2>7, <3>1 DEF ClientInv, Rows
    <3>2. CASE q = pos[c] /\ ~(l < layer[c])
      <4>1. l \in Int /\ f.last \in Int /\ l < f.last + 1
        BY <1>0, <2>2, <2>4, <3>2 DEF RangeAnswer, Layers, Positions
      <4>2. l \in f.first .. f.last
        BY <1>0, <2>2, <3>2, <4>1 DEF RangeAnswer
      <4> QED BY <2>2, <3>2, <4>2 DEF RangeAnswer
    <3> QED BY <3>1, <3>2
  <2>11. ~Newcomer(c)
    BY <1>1 DEF Newcomer
  <2> QED BY <1>2, <1>5, <2>5, <2>6, <2>8, <2>9, <2>10, <2>11, ClientStep DEF ClientInv
<1> QED BY <1>8, <1>9, <1>10

-------------------------------------------------------------------------------
(* Steps of the server process. *)

\* A step of the server within a connection keeps the invariant if it keeps
\* the part of the client being served.
LEMMA ServerKeeps ==
  ASSUME IInv, NEW c \in Clients, cur = c, TypeOK', ClientInv(c)',
         \A d \in Clients \ {c} : Untouched(d),
         UNCHANGED <<backlog, cur>>
  PROVE  IInv'
<1>1. ASSUME NEW d \in Clients PROVE ClientInv(d)'
  BY Bystander DEF IInv
<1>2. QueueInv'
  <2>1. backlog \in Seq(Clients)
    BY DEF IInv, TypeOK
  <2>2. ASSUME NEW i \in 1 .. Len(backlog) PROVE Newcomer(backlog[i])'
    <3>1. backlog[i] \in Clients \ {c} /\ Newcomer(backlog[i])
      BY <2>1 DEF IInv, QueueInv
    <3> QED BY <3>1 DEF Newcomer, Untouched
  <2> QED BY <2>1, <2>2 DEF IInv, QueueInv
<1> QED BY <1>1, <1>2 DEF IInv

\* A request handled: the response takes its place, and must be right.
LEMMA ServeKeeps ==
  ASSUME IInv, NEW c \in Clients, NEW f \in toServer[c], Take(c, f),
         bound' \in [Names -> Contents \cup {NoContent}],
         kv' \in [Layers -> [Positions -> Inputs \cup {NoInput}]],
         handshake' \in BOOLEAN,
         reply' # NoReply => /\ reply'.type \in ResponseTypes
                             /\ reply'.id = f.id
                             /\ Says(c, reply)',
         Held(c)', Rows(c)',
         UNCHANGED <<clientVars, toClient, backlog, up, cur>>
  PROVE  IInv'
<1> USE DEF clientVars
<1>0. ClientInv(c) /\ TypeOK /\ cur = c
  BY DEF IInv, Take
<1>1. /\ toServer' \in [Clients -> SUBSET RequestFrames] /\ toServer'[c] = {}
      /\ \A d \in Clients \ {c} : toServer'[d] = toServer[d]
  BY <1>0 DEF Take, TypeOK, ClientInv, Exclusive
<1>2. toClient[c] = {} /\ f.id = Pending(c)
  BY <1>0 DEF ClientInv, Exclusive
<1>3. TypeOK'
  BY <1>0, <1>1 DEF TypeOK
<1>4. \A d \in Clients \ {c} : Untouched(d)
  BY <1>1 DEF Untouched
<1>5. cstate[c] \in Waiting \cup Gone
  BY <1>0 DEF ClientInv, Exclusive
<1>6. Exclusive(c)'
  BY <1>1, <1>2, <1>5 DEF Exclusive, Answering, Pending
<1>7. Local(c)' /\ Asks(c)'
  BY <1>0, <1>1 DEF ClientInv, Local, Asks
<1>8. Answers(c)'
  BY <1>2 DEF Answers, Answering
<1>9. ClientInv(c)'
  BY <1>6, <1>7, <1>8 DEF ClientInv
<1> QED BY <1>0, <1>3, <1>4, <1>9, ServerKeeps

\* A handshake stores nothing.
LEMMA HelloServed ==
  ASSUME IInv, NEW c \in Clients, NEW f \in toServer[c], ServeHello(c, f)
  PROVE  IInv'
<1> USE DEF ServeHello, clientVars
<1>0. ClientInv(c) /\ TypeOK
  BY DEF IInv
<1>1. Held(c)'
  BY <1>0 DEF ClientInv, Held
<1>2. Rows(c)'
  BY <1>0, SameOwn DEF ClientInv, Rows
<1>3. /\ reply'.type \in ResponseTypes /\ reply'.id = f.id
      /\ reply'.type \notin {"TensorLoaded", "LayerRangeResult"}
  BY DEF Capabilities, ErrorReply, ResponseTypes
<1>4. Says(c, reply)'
  BY <1>3 DEF Says
<1>5. handshake' \in BOOLEAN
  BY <1>0 DEF TypeOK
<1> QED BY <1>0, <1>1, <1>2, <1>3, <1>4, <1>5, ServeKeeps DEF TypeOK

\* A tensor already counted on keeps its content, because a name that has
\* content is refused any other.
LEMMA TensorServed ==
  ASSUME IInv, NEW c \in Clients, NEW f \in toServer[c], ServeLoadTensor(c, f)
  PROVE  IInv'
<1> USE DEF ServeLoadTensor, clientVars
<1>0. /\ ClientInv(c) /\ TypeOK /\ cur = c /\ f \in RequestFrames
      /\ Weight[c] \in [Names -> Contents] /\ bound \in [Names -> Contents \cup {NoContent}]
  BY DEF IInv, TypeOK, Take
<1>1. TensorRequest(c, f) /\ f.name = Current(c) /\ f.content = Weight[c][Current(c)]
  <2>1. TensorRequest(c, f)
    BY <1>0 DEF ClientInv, Asks, RangeRequest
  <2> QED BY <2>1 DEF TensorRequest, LoadTensor
<1>2. Current(c) \in Names /\ Weight[c][Current(c)] \in Contents
  <2>1. layer[c] \in Layers /\ suffix[c] \in 1 .. NumTensors
    BY <1>0, <1>1 DEF TensorRequest, TypeOK
  <2> QED BY <1>0, <2>1 DEF Current, Names
<1>3. \/ /\ bound[Current(c)] \in {NoContent, Weight[c][Current(c)]}
         /\ bound' = [bound EXCEPT ![Current(c)] = Weight[c][Current(c)]]
         /\ reply' \in {TensorLoaded(f.id, f.name, f.content), ErrorReply(f.id)}
      \/ bound' = bound /\ reply' = ErrorReply(f.id)
  BY <1>1 DEF Store!Bind, Store!MayBind
<1>4. /\ bound' \in [Names -> Contents \cup {NoContent}]
      /\ \A n \in Names : bound[n] = Weight[c][n] => bound'[n] = Weight[c][n]
  BY <1>0, <1>2, <1>3
<1>5. Held(c)'
  <2>1. \A l \in uploaded[c], t \in 1 .. NumTensors : <<l, t>> \in Names
    BY <1>0 DEF TypeOK, Names
  <2>2. \A t \in 1 .. NumTensors : <<layer[c], t>> \in Names
    BY <1>0, <1>1 DEF TensorRequest, Names
  <2> QED BY <1>0, <1>4, <2>1, <2>2 DEF ClientInv, Held
<1>6. Rows(c)'
  BY <1>0, SameOwn DEF ClientInv, Rows
<1>7. /\ reply'.type \in ResponseTypes /\ reply'.id = f.id
      /\ reply'.type # "LayerRangeResult"
      /\ reply'.type = "TensorLoaded" => bound'[Current(c)] = Weight[c][Current(c)]
  BY <1>0, <1>2, <1>3 DEF TensorLoaded, ErrorReply, ResponseTypes
<1>8. Says(c, reply)'
  BY <1>7 DEF Says, TensorAnswer, Current
<1> QED BY <1>0, <1>4, <1>5, <1>6, <1>7, <1>8, ServeKeeps DEF TypeOK
\* A layer range writes its own position of its own layers, so the rows the
\* client counts on are its own before and after, and so is what is computed
\* from them.
LEMMA RangeServed ==
  ASSUME IInv, NEW c \in Clients, NEW f \in toServer[c], ServeRunLayerRange(c, f)
  PROVE  IInv'
<1> USE DEF ServeRunLayerRange, clientVars
<1>0. /\ ClientInv(c) /\ TypeOK /\ cur = c /\ f \in RequestFrames
      /\ kv \in [Layers -> [Positions -> Inputs \cup {NoInput}]]
      /\ turn[c] \in Turns /\ pos[c] \in Positions /\ layer[c] \in Int
      /\ Offload[c] \subseteq Layers
  BY DEF IInv, TypeOK, Take
<1>1. RangeRequest(c, f)
  BY <1>0 DEF ClientInv, Asks, TensorRequest, LoadTensor
<1>2. /\ f.first = layer[c] /\ f.first \in Int /\ f.last \in Int
      /\ f.first .. f.last \subseteq Layers /\ f.first .. f.last \subseteq Offload[c]
      /\ f.first .. f.last \subseteq uploaded[c]
      /\ f.input = Input(c) /\ f.input.position = pos[c] /\ f.input \in Inputs
      /\ f.input = OwnRow(c, pos[c]) /\ turn[c] > 0 /\ f.last \in Layers
      /\ f.first <= f.last
  <2>1. f.input = Input(c) /\ f.input.position = pos[c] /\ f.input \in Inputs
        /\ f.input = OwnRow(c, pos[c])
    BY <1>0, <1>1 DEF RangeRequest, Input, Inputs, OwnRow
  <2>2. f.first \in Int /\ f.last \in Int
    BY <1>0, <1>1 DEF RangeRequest, Layers
  <2> QED BY <1>0, <1>1, <2>1, <2>2 DEF RangeRequest
<1>3. PICK done \in Int : kv' = RowsWritten(f.first, done, f.input)
  BY <1>2
<1>4. /\ kv' \in [Layers -> [Positions -> Inputs \cup {NoInput}]]
      /\ \A l \in Layers, q \in Positions :
           kv'[l][q] = IF l \in f.first .. done /\ q = pos[c] THEN f.input ELSE kv[l][q]
  <2> DEFINE Wrote(l) == [kv[l] EXCEPT ![f.input.position] = f.input]
  <2>1. \A l \in Layers : kv'[l] = IF l \in f.first .. done THEN Wrote(l) ELSE kv[l]
    BY <1>3 DEF RowsWritten
  <2>2. \A l \in Layers :
          /\ Wrote(l) \in [Positions -> Inputs \cup {NoInput}]
          /\ \A q \in Positions : Wrote(l)[q] = IF q = pos[c] THEN f.input ELSE kv[l][q]
    BY <1>0, <1>2
  <2>3. kv' = [l \in Layers |-> kv'[l]]
    BY <1>3 DEF RowsWritten
  <2> HIDE DEF Wrote
  <2>4. \A l \in Layers : kv'[l] \in [Positions -> Inputs \cup {NoInput}]
    BY <1>0, <2>1, <2>2
  <2>5. kv' \in [Layers -> [Positions -> Inputs \cup {NoInput}]]
    BY <2>3, <2>4
  <2>6. ASSUME NEW l \in Layers, NEW q \in Positions
        PROVE  kv'[l][q] = IF l \in f.first .. done /\ q = pos[c] THEN f.input ELSE kv[l][q]
    BY <2>1, <2>2
  <2> QED BY <2>5, <2>6
<1>5. Held(c)'
  BY <1>0 DEF ClientInv, Held
<1>6. \A l \in Offload[c], q \in Positions :
        q < pos[c] \/ (q = pos[c] /\ l < layer[c]) =>
          kv[l][q] = OwnRow(c, q) /\ kv'[l][q] = OwnRow(c, q)
  <2> SUFFICES ASSUME NEW l \in Offload[c], NEW q \in Positions,
                      q < pos[c] \/ (q = pos[c] /\ l < layer[c])
               PROVE  kv[l][q] = OwnRow(c, q) /\ kv'[l][q] = OwnRow(c, q)
    OBVIOUS
  <2>1. kv[l][q] = OwnRow(c, q)
    BY <1>0, <1>2 DEF ClientInv, Rows
  <2>2. l \in Layers /\ l \in Int /\ q \in Int /\ pos[c] \in Int
    BY <1>0 DEF Layers, Positions
  <2>3. ~(l \in f.first .. done /\ q = pos[c])
    BY <1>0, <1>2, <2>2
  <2> QED BY <1>4, <2>1, <2>2, <2>3
<1>7. Rows(c)'
  BY <1>6, SameOwn DEF Rows
<1>8. ASSUME bound' = bound,
             kv' = RowsWritten(f.first, f.last, f.input),
             reply' = LayerRangeResult(f.id, f.first, f.last, f.input.position,
                        Output(bound, kv', f.first, f.last, f.input.position))
      PROVE  Says(c, reply)'
  <2>1. ASSUME NEW l \in f.first .. f.last
        PROVE  kv'[l][pos[c]] = OwnRow(c, pos[c])
    BY <1>0, <1>2, <1>8, <2>1 DEF RowsWritten
  <2>2. ASSUME NEW l \in f.first .. f.last, NEW q \in 0 .. pos[c]
        PROVE  kv'[l][q] = OwnRow(c, q)
    <3>1. q \in Positions /\ (q = pos[c] \/ q < pos[c]) /\ l \in Offload[c]
      BY <1>0, <1>2 DEF Positions
    <3> QED BY <1>6, <2>1, <3>1
  <2>3. \A l \in f.first .. f.last, t \in 1 .. NumTensors :
          bound[<<l, t>>] = Weight[c][<<l, t>>]
    BY <1>0, <1>2 DEF ClientInv, Held
  <2>4. Output(bound, kv', f.first, f.last, pos[c]) = OwnOutput(c, f.first, f.last, pos[c])
    <3> DEFINE own == [l \in Layers |-> [q \in Positions |-> OwnRow(c, q)]]
    <3>1. \A n \in (f.first .. f.last) \X (1 .. NumTensors) : bound[n] = Weight[c][n]
      BY <2>3
    <3>2. \A l \in f.first .. f.last : \A q \in 0 .. pos[c] : kv'[l][q] = own[l][q]
      <4> SUFFICES ASSUME NEW l \in f.first .. f.last, NEW q \in 0 .. pos[c]
                   PROVE  kv'[l][q] = own[l][q]
        OBVIOUS
      <4>1. l \in Layers /\ q \in Positions
        BY <1>0, <1>2 DEF Positions
      <4> QED BY <2>2, <4>1
    <3>3. [n \in (f.first .. f.last) \X (1 .. NumTensors) |-> bound[n]]
            = [n \in (f.first .. f.last) \X (1 .. NumTensors) |-> Weight[c][n]]
      BY <3>1
    <3>4. [l \in f.first .. f.last |-> [q \in 0 .. pos[c] |-> kv'[l][q]]]
            = [l \in f.first .. f.last |-> [q \in 0 .. pos[c] |-> own[l][q]]]
      BY <3>2
    <3> QED BY <3>3, <3>4 DEF Output, OwnOutput
  <2>5. OwnOutput(c, f.first, f.last, pos[c])' = OwnOutput(c, f.first, f.last, pos[c])
    BY SameOwn
  <2>6. /\ reply'.type = "LayerRangeResult" /\ reply'.first = f.first
        /\ reply'.last = f.last /\ reply'.position = pos[c]
        /\ reply'.output = OwnOutput(c, f.first, f.last, pos[c])
    BY <1>2, <1>8, <2>4 DEF LayerRangeResult
  <2>7. RangeAnswer(c, reply)'
    BY <1>2, <2>1, <2>5, <2>6, SameOwn DEF RangeAnswer
  <2> QED BY <2>6, <2>7 DEF Says
<1>9. ASSUME reply' = ErrorReply(f.id) PROVE Says(c, reply)'
  BY <1>9 DEF Says, ErrorReply
<1>10. Says(c, reply)'
  BY <1>8, <1>9
<1>11. reply'.type \in ResponseTypes /\ reply'.id = f.id
  BY DEF ErrorReply, LayerRangeResult, ResponseTypes
<1> QED BY <1>0, <1>4, <1>5, <1>7, <1>10, <1>11, ServeKeeps DEF TypeOK

\* The response leaves the server.
LEMMA ReplySent ==
  ASSUME IInv, NEW c \in Clients, SendReply(c)
  PROVE  IInv'
<1> USE DEF SendReply, clientVars
<1>0. ClientInv(c) /\ TypeOK /\ Answering(c)
  BY DEF IInv, Answering
<1>1. toClient[c] = {} /\ toServer[c] = {} /\ reply.id = Pending(c) /\ Says(c, reply)
  BY <1>0 DEF ClientInv, Exclusive, Answers
<1>2. /\ toClient'[c] = {reply} /\ DOMAIN toClient' = Clients
      /\ \A d \in Clients \ {c} : toClient'[d] = toClient[d]
  BY <1>0, <1>1 DEF TypeOK
<1>3. TypeOK'
  <2>1. \A d \in Clients : \A f \in toClient'[d] : f.type \in ResponseTypes
    BY <1>0, <1>2 DEF TypeOK
  <2> QED BY <1>0, <1>2, <2>1 DEF TypeOK
<1>4. \A d \in Clients \ {c} : Untouched(d)
  BY <1>2 DEF Untouched
<1>5. Exclusive(c)'
  <2>1. cstate[c] \in Waiting \cup Gone
    BY <1>0 DEF ClientInv, Exclusive
  <2> QED BY <1>1, <1>2, <2>1 DEF Exclusive, Answering, Pending
<1>6. Says(c, reply) => \A f \in toClient'[c] : Says(c, f)'
  BY <1>2, SameOwn DEF Says, TensorAnswer, RangeAnswer, Current
<1>7. Answers(c)'
  BY <1>1, <1>6 DEF Answers, Answering
<1>8. Local(c)' /\ Asks(c)' /\ Held(c)'
  BY <1>0, <1>1 DEF ClientInv, Local, Asks, Held
<1>9. Rows(c)'
  BY <1>0, SameOwn DEF ClientInv, Rows
<1>10. ClientInv(c)'
  BY <1>5, <1>7, <1>8, <1>9 DEF ClientInv
<1> QED BY <1>3, <1>4, <1>10, ServerKeeps

\* A connection is taken from the queue: its client is a newcomer, of whom the
\* invariant asks nothing yet.
LEMMA Accepted == ASSUME IInv, Accept PROVE IInv'
<1> USE DEF Accept, clientVars
<1>0. TypeOK /\ QueueInv /\ backlog \in Seq(Clients) /\ backlog # <<>> /\ reply = NoReply
  BY DEF IInv, TypeOK, QueueInv
<1>1. PICK c \in Clients : c = Head(backlog) /\ c = backlog[1] /\ 1 \in 1 .. Len(backlog)
  BY <1>0
<1>2. Newcomer(c) /\ ClientInv(c)
  BY <1>0, <1>1 DEF QueueInv, IInv
<1>3. /\ backlog' \in Seq(Clients) /\ Len(backlog') = Len(backlog) - 1
      /\ \A i \in 1 .. Len(backlog') : backlog'[i] = backlog[i + 1]
  BY <1>0
<1>4. TypeOK'
  BY <1>0, <1>1, <1>3 DEF TypeOK
<1>5. ClientInv(c)'
  <2>1. Local(c)' /\ Held(c)' /\ Rows(c)'
    <3>1. suffix[c] = 1 /\ suffix[c] \in 1 .. NumTensors
      BY <1>0, <1>1, <1>2 DEF Newcomer, TypeOK
    <3> QED BY <1>2, <3>1 DEF Newcomer, ClientInv, Local, Held, Rows, Gone
  <2>2. Exclusive(c)' /\ Asks(c)'
    BY <1>0, <1>2 DEF Newcomer, ClientInv, Exclusive, Asks, Answering, Pending
  <2>3. Answers(c)'
    BY <1>0, <1>2 DEF Newcomer, Answers, Answering
  <2> QED BY <2>1, <2>2, <2>3 DEF ClientInv
<1>6. ASSUME NEW d \in Clients \ {c} PROVE ClientInv(d)'
  BY <1>1, Bystander DEF IInv, Untouched
<1>7. QueueInv'
  <2>1. \A i \in 1 .. Len(backlog') :
          i + 1 \in 1 .. Len(backlog) /\ i + 1 # 1 /\ backlog'[i] = backlog[i + 1]
    BY <1>0, <1>3
  <2>2. ASSUME NEW i \in 1 .. Len(backlog') PROVE (backlog[i] # cur /\ Newcomer(backlog[i]))'
    <3>1. backlog[i + 1] # c /\ Newcomer(backlog[i + 1])
      BY <1>0, <1>1, <2>1 DEF QueueInv
    <3> QED BY <1>1, <2>1, <3>1 DEF Newcomer
  <2>3. ASSUME NEW i \in 1 .. Len(backlog'), NEW j \in 1 .. Len(backlog'),
               backlog'[i] = backlog'[j]
        PROVE  i = j
    <3>1. i + 1 = j + 1
      BY <1>0, <2>1, <2>3 DEF QueueInv
    <3> QED BY <3>1
  <2> QED BY <1>0, <2>2, <2>3 DEF QueueInv
<1> QED BY <1>4, <1>5, <1>6, <1>7 DEF IInv

\* The connection ends: the server goes back to accept.
LEMMA Closed == ASSUME IInv, NEW c \in Clients, CloseConnection(c) PROVE IInv'
<1> USE DEF CloseConnection, clientVars
<1>0. TypeOK /\ backlog \in Seq(Clients)
  BY DEF IInv, TypeOK
<1>1. ASSUME NEW d \in Clients PROVE ClientInv(d)'
  BY Bystander DEF IInv, Untouched
<1>2. QueueInv'
  <2>1. ASSUME NEW i \in 1 .. Len(backlog) PROVE backlog[i] # cur' /\ Newcomer(backlog[i])'
    <3>1. backlog[i] \in Clients
      BY <1>0
    <3> QED BY <3>1 DEF IInv, QueueInv, Newcomer
  <2> QED BY <1>0, <2>1 DEF IInv, QueueInv
<1>3. TypeOK'
  BY <1>0 DEF TypeOK
<1> QED BY <1>1, <1>2, <1>3 DEF IInv

\* The server process ends: no connection is left, nor anything on the phone.
LEMMA Crashed == ASSUME IInv, ServerCrash PROVE IInv'
<1> USE DEF ServerCrash, clientVars
<1>0. TypeOK
  BY DEF IInv
<1>1. /\ bound' \in [Names -> Contents \cup {NoContent}]
      /\ kv' \in [Layers -> [Positions -> Inputs \cup {NoInput}]]
  BY DEF NoTensors, NoRows
<1>2. \A d \in Clients : toServer'[d] = {} /\ toClient'[d] \subseteq toClient[d]
  BY <1>0 DEF TypeOK
<1>3. TypeOK'
  <2>1. toServer' \in [Clients -> SUBSET RequestFrames] /\ DOMAIN toClient' = Clients
    BY <1>0 DEF TypeOK
  <2>2. \A d \in Clients : \A f \in toClient'[d] : f.type \in ResponseTypes
    BY <1>0, <1>2 DEF TypeOK
  <2>3. backlog' \in Seq(Clients)
    OBVIOUS
  <2>4. up' \in BOOLEAN /\ handshake' \in BOOLEAN
    OBVIOUS
  <2> QED BY <1>0, <1>1, <2>1, <2>2, <2>3, <2>4 DEF TypeOK
<1>4. QueueInv'
  BY DEF QueueInv
<1>5. ASSUME NEW d \in Clients PROVE ClientInv(d)'
  <2>0. ClientInv(d) /\ cur' # d /\ ~Answering(d)'
    BY <1>5 DEF IInv, Answering
  <2>1. Local(d)' /\ Held(d)' /\ Rows(d)'
    BY <2>0 DEF ClientInv, Local, Held, Rows
  <2>2. Exclusive(d)' /\ Asks(d)'
    BY <1>2, <2>0 DEF ClientInv, Exclusive, Asks, Pending
  <2>3. ASSUME NEW f, Says(d, f) PROVE Says(d, f)'
    BY <2>0, <2>3, SameOwn DEF Says, TensorAnswer, RangeAnswer, Current
  <2>4. Answers(d)'
    BY <1>2, <2>0, <2>3 DEF ClientInv, Answers
  <2> QED BY <2>1, <2>2, <2>4 DEF ClientInv
<1> QED BY <1>3, <1>4, <1>5 DEF IInv

\* The server comes back empty, with nobody connected.
LEMMA Started == ASSUME IInv, ServerStart PROVE IInv'
<1> USE DEF ServerStart, clientVars
<1>1. ASSUME NEW d \in Clients PROVE ClientInv(d)'
  BY Bystander DEF IInv, Untouched
<1>2. backlog \in Seq(Clients) /\ TypeOK
  BY DEF IInv, TypeOK
<1>3. QueueInv'
  BY <1>2 DEF IInv, QueueInv, Newcomer
<1>4. TypeOK'
  BY <1>2 DEF TypeOK
<1> QED BY <1>1, <1>3, <1>4 DEF IInv

\* A client joins the listen queue with its HELLO already sent.
LEMMA Queueing == ASSUME IInv, NEW c \in Clients, Connect(c) PROVE IInv'
<1> USE DEF Connect, serverVars
<1>0. /\ ClientInv(c) /\ TypeOK /\ QueueInv /\ backlog \in Seq(Clients)
      /\ cstate[c] = "start" /\ nextReq[c] \in Nat
  BY DEF IInv, TypeOK, MayConnect
<1> DEFINE frame == Hello(nextReq[c])
<1>1. frame \in RequestFrames /\ frame.id = nextReq[c] /\ frame.type = "Hello"
  BY <1>0 DEF Hello, RequestFrames
<1>2. cstate'[c] = "hello" /\ backlog' \in Seq(Clients)
  BY <1>0 DEF Request, TypeOK
<1>3. /\ turn[c] = 0 /\ uploaded[c] = {} /\ suffix[c] = 1 /\ cur # c
      /\ toServer[c] = {} /\ toClient[c] = {}
  BY <1>0 DEF ClientInv, Local, Exclusive, Waiting, Gone
<1>4. Local(c)'
  BY <1>2, <1>3 DEF Local
<1>5. TypeOK' /\ ClientInv(c)' /\ \A d \in Clients \ {c} : Untouched(d)
  BY <1>0, <1>1, <1>2, <1>4, RequestKeeps DEF Waiting, Gone
<1>6. ASSUME NEW d \in Clients PROVE ClientInv(d)'
  BY <1>5, Bystander DEF IInv
<1>7. QueueInv'
  <2>1. /\ Len(backlog') = Len(backlog) + 1 /\ backlog'[Len(backlog) + 1] = c
        /\ \A i \in 1 .. Len(backlog) : backlog'[i] = backlog[i]
    BY <1>0
  <2>2. Newcomer(c)'
    <3>1. toServer'[c] = {frame}
      BY <1>0, <1>3 DEF Request, TypeOK
    <3> QED BY <1>1, <1>2, <1>3, <3>1 DEF Newcomer
  <2>3. \A i \in 1 .. Len(backlog) :
          backlog[i] \in Clients \ {c} /\ Newcomer(backlog[i]) /\ backlog[i] # cur
    BY <1>0 DEF QueueInv, Newcomer, Gone
  <2>4. \A i \in 1 .. Len(backlog') : i \in 1 .. Len(backlog) \/ i = Len(backlog) + 1
    BY <1>0, <2>1
  <2>5. ASSUME NEW d \in Clients \ {c}, Newcomer(d) PROVE Newcomer(d)'
    BY <1>5, <2>5 DEF Newcomer, Untouched
  <2>6. ASSUME NEW i \in 1 .. Len(backlog') PROVE (backlog[i] # cur /\ Newcomer(backlog[i]))'
    <3>1. PICK d : d = backlog'[i]
      OBVIOUS
    <3>2. d # cur /\ Newcomer(d)'
      BY <1>3, <2>1, <2>2, <2>3, <2>4, <2>5, <3>1
    <3> QED BY <3>1, <3>2 DEF Newcomer
  <2>7. \A i, j \in 1 .. Len(backlog') : backlog'[i] = backlog'[j] => i = j
    BY <1>0, <2>1, <2>3, <2>4 DEF QueueInv
  <2> QED BY <1>0, <2>6, <2>7 DEF QueueInv
<1> QED BY <1>5, <1>6, <1>7 DEF IInv

-------------------------------------------------------------------------------
(* The theorems. *)

\* Every step keeps the inductive invariant.
LEMMA NextKeeps == ASSUME IInv, Next PROVE IInv'
<1>1. ASSUME NEW c \in Clients, Load(c) PROVE IInv'
  BY <1>1, Queueing, Endings, Receiving, Computing, Sending DEF Load
<1>2. ASSUME NEW c \in Clients, Forward(c) PROVE IInv'
  BY <1>2, Endings, Receiving, Computing, Sending DEF Forward
<1>3. ASSUME NEW c \in Clients,
             StartTurn(c) \/ Exit(c) \/ ClientFails(c) \/ ClientDies(c) \/ ClientVanishes(c)
      PROVE  IInv'
  BY <1>3, Endings, Computing
<1>4. ASSUME NEW c \in Clients, Serve(c) PROVE IInv'
  BY <1>4, HelloServed, TensorServed, RangeServed DEF Serve
<1>5. ASSUME ServerStep PROVE IInv'
  BY <1>4, <1>5, Accepted, ReplySent, Closed DEF ServerStep
<1> QED BY <1>1, <1>2, <1>3, <1>5, Crashed, Started DEF Next

\* So does a step in which neither process moves.
LEMMA StutterKeeps == ASSUME IInv, UNCHANGED vars PROVE IInv'
<1> USE DEF vars, clientVars, serverVars
<1>1. ASSUME NEW d \in Clients PROVE ClientInv(d)'
  BY Bystander DEF IInv, Untouched
<1>2. backlog \in Seq(Clients) /\ TypeOK
  BY DEF IInv, TypeOK
<1>3. QueueInv'
  BY <1>2 DEF IInv, QueueInv, Newcomer
<1>4. TypeOK'
  BY <1>2 DEF TypeOK
<1> QED BY <1>1, <1>3, <1>4 DEF IInv

\* The inductive invariant: what each process believes about the requests it
\* sent, the tensors and the rows on the phone is so.
THEOREM Invariance == Spec => []IInv
<1>1. IInv /\ [Next]_vars => IInv'
  BY NextKeeps, StutterKeeps
<1> QED BY <1>1, InitInvariant, PTL DEF Spec
\* Every variable keeps its type: the layers and positions a client counts
\* through stay below block_count and max_context (remote_client.cpp,
\* qwen_model.cpp, tcp_server.cpp).
THEOREM TypeCorrect == Spec => []TypeOK
<1>1. IInv => TypeOK
  BY DEF IInv
<1> QED BY <1>1, Invariance, PTL

\* Every layer range that comes back to a client was computed from its own
\* weights and the rows of its own turn.
THEOREM ResultsAreOwn == Spec => []OwnResults
BY Invariance, Consequences, PTL

\* The caches of the client being served hold the rows of its own turn.
THEOREM RowsAreOwn == Spec => []OwnRows
BY Invariance, Consequences, PTL

\* A layer in uploaded_layers_ is on the phone with the client's own content.
THEOREM UploadsAreHeld == Spec => []UploadedHeld
BY Invariance, Consequences, PTL

\* The blocking RemoteClient never has two requests outstanding.
THEOREM OneRequestAtATime == Spec => []OneOutstanding
BY Invariance, Consequences, PTL

\* No connection is served twice, or queued while it is served.
THEOREM EachServedOnce == Spec => []ServedOnce
BY Invariance, Consequences, PTL

\* One step of the whole system never replaces a tensor on a running phone.
LEMMA StepKeepsTensors ==
  ASSUME TypeOK, [Next]_vars
  PROVE  up' => \A n \in Names : bound[n] # NoContent => bound'[n] = bound[n]
<1> SUFFICES ASSUME up', NEW n \in Names, bound[n] # NoContent
             PROVE  bound'[n] = bound[n]
  OBVIOUS
<1>1. ASSUME NEW c \in Clients, NEW f, ServeLoadTensor(c, f) PROVE bound'[n] = bound[n]
  BY <1>1 DEF ServeLoadTensor, Store!Bind, Store!MayBind, TypeOK
<1>2. ASSUME NEW c \in Clients, Load(c) PROVE bound' = bound
  BY <1>2 DEF Load, Connect, ConnectFails, RecvCapabilities, LoadLocalLayer, SendTensor,
              RecvTensorLoaded, ModelLoaded, serverVars
<1>3. ASSUME NEW c \in Clients, Forward(c) PROVE bound' = bound
  BY <1>3 DEF Forward, RunLocalLayer, SendRange, RecvRangeResult, NextToken, EndTurn,
              serverVars
<1>4. ASSUME NEW c \in Clients,
             StartTurn(c) \/ Exit(c) \/ ClientFails(c) \/ ClientDies(c) \/ ClientVanishes(c)
      PROVE  bound' = bound
  BY <1>4 DEF StartTurn, Exit, ClientFails, ClientDies, ClientVanishes, serverVars
<1>5. ASSUME NEW c \in Clients, Serve(c) PROVE bound'[n] = bound[n]
  BY <1>1, <1>5 DEF Serve, ServeHello, ServeRunLayerRange
<1>6. ASSUME NEW c \in Clients, SendReply(c) \/ CloseConnection(c) PROVE bound' = bound
  BY <1>6 DEF SendReply, CloseConnection
<1>7. Accept \/ ServerStart \/ UNCHANGED vars => bound' = bound
  BY DEF Accept, ServerStart, vars, serverVars
<1>8. ~ServerCrash
  BY DEF ServerCrash
<1> QED BY <1>2, <1>3, <1>4, <1>5, <1>6, <1>7, <1>8 DEF Next, ServerStep

\* Whoever uploads, in whatever order, a tensor on a running phone stays.
THEOREM NeverOverwritten == Spec => NoOverwrite
<1>1. TypeOK /\ [Next]_vars =>
        [up' => \A n \in Names : bound[n] # NoContent => bound'[n] = bound[n]]_vars
  BY StepKeepsTensors
<1> QED BY <1>1, TypeCorrect, PTL DEF Spec, NoOverwrite

===============================================================================
