---------------------------- MODULE RemoteOffload ----------------------------
(***************************************************************************)
(* Layers of a Qwen3 model computed on the phone: the CLI processes of     *)
(* several PCs (RemoteClient under QwenModel under InferenceSession), the  *)
(* connections, and the phone's serial TCP server with its tensors and KV  *)
(* caches, which outlive the connections.                                  *)
(*                                                                         *)
(* Hidden states are abstracted to what they were computed from: the input *)
(* of a layer range to the turn and position it belongs to, a KV row to    *)
(* the input that wrote it, a range's output to the weights used and the   *)
(* KV rows attended to.  Layers, tensors of a layer and positions are      *)
(* numbered as in the code.                                                *)
(***************************************************************************)
EXTENDS Integers, Sequences

CONSTANTS
  Clients,      \* the CLI processes, each of which connects once
  NoClient,
  NumLayers,    \* config_.block_count
  NumTensors,   \* tensors per layer: the 11 suffixes of upload_layer
  MaxContext,   \* positions of a KV cache
  MaxTurns,     \* bound: generations of an interactive session
  ListenQueue,  \* connections the kernel completes before accept
  Offload,      \* Offload[c]: layers that client c computes on the phone
  Interactive,  \* clients started with -i; the others generate once and exit
  Supported,    \* clients that ask for a backend the server implements
  MayVanish,    \* clients whose link may go silent without a FIN or RST
  Contents,     \* tensor contents
  NoContent,
  Weight,       \* Weight[c][name]: the contents of c's own GGUF file
  NoInput,      \* a KV row that was never written
  NoReply

Layers == 0 .. NumLayers - 1
Names == Layers \X (1 .. NumTensors)
Positions == 0 .. MaxContext - 1
Turns == 0 .. MaxTurns
Inputs == [client : Clients, turn : Turns, position : Positions]

ASSUME ClientAssumption ==
  /\ NoClient \notin Clients
  /\ Interactive \subseteq Clients
  /\ Supported \subseteq Clients
  /\ MayVanish \subseteq Clients
ASSUME SizeAssumption ==
  /\ NumLayers \in Nat \ {0}
  /\ NumTensors \in Nat \ {0}
  /\ MaxContext \in Nat \ {0}
  /\ MaxTurns \in Nat \ {0}
  /\ ListenQueue \in Nat
ASSUME ModelAssumption ==
  /\ Offload \in [Clients -> SUBSET Layers]
  /\ Weight \in [Clients -> [Names -> Contents]]
  /\ NoContent \notin Contents
  /\ NoInput \notin Inputs

VARIABLES
  \* One record of variables per client process.
  cstate,     \* where the process is
  nextReq,    \* next_request_id_
  layer,      \* the layer being uploaded, then the layer being computed
  suffix,     \* the tensor of that layer to upload next
  uploaded,   \* uploaded_layers_
  turn,       \* the generation under way
  pos,        \* the position under way
  \* The TCP connections: frames on their way, and the listen queue.
  toServer,
  toClient,
  backlog,
  \* The server process.
  up,
  cur,        \* the client of the connection being served
  handshake,  \* handshake_complete of that connection
  reply,      \* the response about to be sent on it
  bound,      \* tensor_names_ and tensors_ together
  kv          \* the rows of each layer's K and V cache

clientVars == <<cstate, nextReq, layer, suffix, uploaded, turn, pos>>
serverVars == <<up, cur, handshake, reply, bound, kv>>
vars == <<clientVars, toServer, toClient, backlog, serverVars>>

Store == INSTANCE WriteOnceStore

-------------------------------------------------------------------------------
(* Frames. *)

Hello(id) == [type |-> "Hello", id |-> id]
LoadTensor(id, n, w) == [type |-> "LoadTensor", id |-> id, name |-> n, content |-> w]
RunLayerRange(id, first, last, input) ==
  [type |-> "RunLayerRange", id |-> id, first |-> first, last |-> last, input |-> input]
ErrorReplyMissing(id) == NoReply    \* wrong on purpose: errors are only logged
ErrorReply(id) == [type |-> "Error", id |-> id]
Capabilities(id) == [type |-> "Capabilities", id |-> id]
TensorLoaded(id, n, w) == [type |-> "TensorLoaded", id |-> id, name |-> n, content |-> w]
LayerRangeResult(id, first, last, position, output) ==
  [type |-> "LayerRangeResult", id |-> id, first |-> first, last |-> last,
   position |-> position, output |-> output]

Input(c) == [client |-> c, turn |-> turn[c], position |-> pos[c]]

\* The output of layers first..last at a position, by what went into it.
Output(weights, rows, first, last, p) ==
  [weights |-> [n \in (first .. last) \X (1 .. NumTensors) |-> weights[n]],
   rows |-> [l \in first .. last |-> [q \in 0 .. p |-> rows[l][q]]]]

\* What the same layers would compute on the client itself, from its own GGUF
\* file and the positions of its own turn.
OwnRow(c, q) == [client |-> c, turn |-> turn[c], position |-> q]
OwnOutput(c, first, last, p) ==
  Output(Weight[c], [l \in Layers |-> [q \in Positions |-> OwnRow(c, q)]],
         first, last, p)

-------------------------------------------------------------------------------
(* States. *)

Waiting == {"hello", "tensor", "range"}   \* blocked in receive_frame
Gone == {"exited", "failed", "vanished"}  \* the process is no more
ClientStates ==
  {"start", "hello", "upload", "tensor", "idle", "forward", "range"} \cup Gone

Running(c) == cstate[c] \notin Gone \cup {"start"}
Queued(c) == \E i \in 1 .. Len(backlog) : backlog[i] = c
Connected(c) == cur = c \/ Queued(c)

InitClients ==
  /\ cstate = [c \in Clients |-> "start"]
  /\ nextReq = [c \in Clients |-> 1]
  /\ layer = [c \in Clients |-> 0]
  /\ suffix = [c \in Clients |-> 1]
  /\ uploaded = [c \in Clients |-> {}]
  /\ turn = [c \in Clients |-> 0]
  /\ pos = [c \in Clients |-> 0]

NoTensors == [n \in Names |-> NoContent]
NoRows == [l \in Layers |-> [q \in Positions |-> NoInput]]

Init ==
  /\ InitClients
  /\ toServer = [c \in Clients |-> {}]
  /\ toClient = [c \in Clients |-> {}]
  /\ backlog = <<>>
  /\ up = TRUE
  /\ cur = NoClient
  /\ handshake = FALSE
  /\ reply = NoReply
  /\ bound = NoTensors
  /\ kv = NoRows

-------------------------------------------------------------------------------
(* The client process: load_model, then turns of forward_token. *)

\* send_frame with the next request id, then wait for the response.
Request(c, frame, state) ==
  /\ toServer' = [toServer EXCEPT ![c] = @ \cup {frame}]
  /\ nextReq' = [nextReq EXCEPT ![c] = @ + 1]
  /\ cstate' = [cstate EXCEPT ![c] = state]

\* The request the client waits on: ids are taken before sending.
Pending(c) == nextReq[c] - 1

\* The longest run of offloaded layers that starts at first ends at last.
IsRemoteRun(c, first, last) ==
  /\ first .. last \subseteq Offload[c]
  /\ last + 1 < NumLayers => last + 1 \notin Offload[c]

\* The tensor being uploaded.
Current(c) == <<layer[c], suffix[c]>>

\* The response passes the checks of the call that waits for it: its type, the
\* echoed id, and what it says of the tensor or the layer range.
Expected(c, f) ==
  \/ cstate[c] = "hello" /\ f = Capabilities(Pending(c))
  \/ /\ cstate[c] = "tensor"
     /\ f = TensorLoaded(Pending(c), Current(c), Weight[c][Current(c)])
  \/ /\ cstate[c] = "range"
     /\ f.type = "LayerRangeResult"
     /\ f.id = Pending(c)
     /\ f.first = layer[c]
     /\ IsRemoteRun(c, f.first, f.last)
     /\ f.position = pos[c]

\* The response the client is blocked on arrived and is taken.
Receive(c, frame) ==
  /\ Expected(c, frame)
  /\ toClient' = [toClient EXCEPT ![c] = @ \ {frame}]

\* RemoteClient connects in its constructor and never again.
MayConnect(c) == cstate[c] = "start"

\* connect_tcp succeeds as soon as the kernel queues the connection; HELLO
\* follows at once, whoever the server is busy with.
Connect(c) ==
  /\ MayConnect(c)
  /\ up
  /\ Len(backlog) < ListenQueue
  /\ backlog' = Append(backlog, c)
  /\ Request(c, Hello(nextReq[c]), "hello")
  /\ UNCHANGED <<layer, suffix, uploaded, turn, pos, toClient, serverVars>>

ConnectFails(c) ==
  /\ cstate[c] = "start"
  /\ ~up
  /\ cstate' = [cstate EXCEPT ![c] = "failed"]
  /\ UNCHANGED <<nextReq, layer, suffix, uploaded, turn, pos,
                 toServer, toClient, backlog, serverVars>>

RecvCapabilities(c) ==
  /\ cstate[c] = "hello"
  /\ \E f \in toClient[c] : Receive(c, f)
  /\ cstate' = [cstate EXCEPT ![c] = "upload"]
  /\ UNCHANGED <<nextReq, layer, suffix, uploaded, turn, pos,
                 toServer, backlog, serverVars>>

\* A layer that stays on the PC: weights and KV cache go to its own GPU.
LoadLocalLayer(c) ==
  /\ cstate[c] = "upload"
  /\ layer[c] < NumLayers
  /\ layer[c] \notin Offload[c]
  /\ layer' = [layer EXCEPT ![c] = @ + 1]
  /\ UNCHANGED <<cstate, nextReq, suffix, uploaded, turn, pos,
                 toServer, toClient, backlog, serverVars>>

SendTensor(c) ==
  /\ cstate[c] = "upload"
  /\ layer[c] \in Offload[c]
  /\ Request(c, LoadTensor(nextReq[c], Current(c), Weight[c][Current(c)]), "tensor")
  /\ UNCHANGED <<layer, suffix, uploaded, turn, pos, toClient, backlog, serverVars>>

\* Wrong on purpose: the layer counts from its first tensor on.
RecordedEarly(c) == uploaded[c] \cup {layer[c]}

\* uploaded_layers_ after a tensor was stored: the layer counts after its last.
Recorded(c) ==
  IF suffix[c] = NumTensors THEN uploaded[c] \cup {layer[c]} ELSE uploaded[c]

RecvTensorLoaded(c) ==
  /\ cstate[c] = "tensor"
  /\ \E f \in toClient[c] : Receive(c, f)
  /\ uploaded' = [uploaded EXCEPT ![c] = Recorded(c)]
  /\ IF suffix[c] < NumTensors
       THEN /\ suffix' = [suffix EXCEPT ![c] = @ + 1]
            /\ UNCHANGED layer
       ELSE /\ suffix' = [suffix EXCEPT ![c] = 1]
            /\ layer' = [layer EXCEPT ![c] = @ + 1]
  /\ cstate' = [cstate EXCEPT ![c] = "upload"]
  /\ UNCHANGED <<nextReq, turn, pos, toServer, backlog, serverVars>>

ModelLoaded(c) ==
  /\ cstate[c] = "upload"
  /\ layer[c] = NumLayers
  /\ cstate' = [cstate EXCEPT ![c] = "idle"]
  /\ UNCHANGED <<nextReq, layer, suffix, uploaded, turn, pos,
                 toServer, toClient, backlog, serverVars>>

\* Wrong on purpose: a new turn goes on where the last one ended.
ResumePosition(c) == pos[c]

\* generate_from_prompt_text: every generation starts again at position 0 and
\* runs the whole prompt, the history included.
FirstPosition(c) == 0

StartTurn(c) ==
  /\ cstate[c] = "idle"
  /\ turn[c] < (IF c \in Interactive THEN MaxTurns ELSE 1)
  /\ cstate' = [cstate EXCEPT ![c] = "forward"]
  /\ turn' = [turn EXCEPT ![c] = @ + 1]
  /\ pos' = [pos EXCEPT ![c] = FirstPosition(c)]
  /\ layer' = [layer EXCEPT ![c] = 0]
  /\ UNCHANGED <<nextReq, suffix, uploaded, toServer, toClient, backlog, serverVars>>

RunLocalLayer(c) ==
  /\ cstate[c] = "forward"
  /\ layer[c] < NumLayers
  /\ layer[c] \notin Offload[c]
  /\ layer' = [layer EXCEPT ![c] = @ + 1]
  /\ UNCHANGED <<cstate, nextReq, suffix, uploaded, turn, pos,
                 toServer, toClient, backlog, serverVars>>

\* One request per run of offloaded layers; refused before it is sent if a
\* layer of it was not uploaded.
SendRange(c) ==
  /\ cstate[c] = "forward"
  /\ layer[c] \in Offload[c]
  /\ \E last \in layer[c] .. NumLayers - 1 :
       /\ IsRemoteRun(c, layer[c], last)
       /\ IF layer[c] .. last \subseteq uploaded[c]
            THEN Request(c, RunLayerRange(nextReq[c], layer[c], last, Input(c)), "range")
            ELSE /\ cstate' = [cstate EXCEPT ![c] = "failed"]
                 /\ UNCHANGED <<toServer, nextReq>>
  /\ UNCHANGED <<layer, suffix, uploaded, turn, pos, toClient, backlog, serverVars>>

RecvRangeResult(c) ==
  /\ cstate[c] = "range"
  /\ \E f \in toClient[c] :
       /\ Receive(c, f)
       /\ layer' = [layer EXCEPT ![c] = f.last + 1]
  /\ cstate' = [cstate EXCEPT ![c] = "forward"]
  /\ UNCHANGED <<nextReq, suffix, uploaded, turn, pos, toServer, backlog, serverVars>>

\* All layers ran for this token: the next token, or the end of the turn (EOS
\* or max_new_tokens; the check before generating keeps it below MaxContext).
NextToken(c) ==
  /\ cstate[c] = "forward"
  /\ layer[c] = NumLayers
  /\ pos[c] + 1 < MaxContext
  /\ pos' = [pos EXCEPT ![c] = @ + 1]
  /\ layer' = [layer EXCEPT ![c] = 0]
  /\ UNCHANGED <<cstate, nextReq, suffix, uploaded, turn,
                 toServer, toClient, backlog, serverVars>>

EndTurn(c) ==
  /\ cstate[c] = "forward"
  /\ layer[c] = NumLayers
  /\ cstate' = [cstate EXCEPT ![c] = "idle"]
  /\ UNCHANGED <<nextReq, layer, suffix, uploaded, turn, pos,
                 toServer, toClient, backlog, serverVars>>

\* run_cli returns: after its only generation, or when the user quits.
Exit(c) ==
  /\ cstate[c] = "idle"
  /\ c \in Interactive \/ turn[c] = 1
  /\ cstate' = [cstate EXCEPT ![c] = "exited"]
  /\ UNCHANGED <<nextReq, layer, suffix, uploaded, turn, pos,
                 toServer, toClient, backlog, serverVars>>

\* Any exception ends the process: an ERROR response, one that fails the
\* checks, or a connection that the server closed.
ClientFails(c) ==
  /\ cstate[c] \in Waiting
  /\ \/ \E f \in toClient[c] : ~Expected(c, f)
     \/ toClient[c] = {} /\ ~Connected(c)
  /\ cstate' = [cstate EXCEPT ![c] = "failed"]
  /\ UNCHANGED <<nextReq, layer, suffix, uploaded, turn, pos,
                 toServer, toClient, backlog, serverVars>>

\* The process is killed, fails on its own (a tensor the wire does not take, a
\* prompt that is too long, a CUDA error) or loses the link; a frame that was
\* on its way may be cut off.
ClientDies(c) ==
  /\ Running(c)
  /\ cstate' = [cstate EXCEPT ![c] = "failed"]
  /\ toServer' \in {toServer, [toServer EXCEPT ![c] = {}]}
  /\ UNCHANGED <<nextReq, layer, suffix, uploaded, turn, pos,
                 toClient, backlog, serverVars>>

\* The PC loses power or the link goes dead: nothing tells the server.
ClientVanishes(c) ==
  /\ c \in MayVanish
  /\ Running(c)
  /\ cstate' = [cstate EXCEPT ![c] = "vanished"]
  /\ UNCHANGED <<nextReq, layer, suffix, uploaded, turn, pos,
                 toServer, toClient, backlog, serverVars>>

-------------------------------------------------------------------------------
(* The server process: run accepts, serve_client serves until the end of the *)
(* connection; receiving and handling a frame is one step, sending the       *)
(* response another.                                                         *)

Accept ==
  /\ up
  /\ cur = NoClient
  /\ backlog # <<>>
  /\ cur' = Head(backlog)
  /\ backlog' = Tail(backlog)
  /\ handshake' = FALSE
  /\ UNCHANGED <<clientVars, toServer, toClient, up, reply, bound, kv>>

\* serve_client is in receive_frame and the client's next frame is complete.
Take(c, f) ==
  /\ cur = c
  /\ reply = NoReply
  /\ toServer' = [toServer EXCEPT ![c] = @ \ {f}]

ServeHello(c, f) ==
  /\ f.type = "Hello"
  /\ Take(c, f)
  /\ IF c \in Supported
       THEN reply' = Capabilities(f.id) /\ handshake' = TRUE
       ELSE reply' = ErrorReply(f.id) /\ UNCHANGED handshake
  /\ UNCHANGED <<clientVars, toClient, backlog, up, cur, bound, kv>>

\* Stored or already there with the same content; refused if the name has
\* other content or the device has no room.  If the response cannot be built
\* the tensor stays.
ServeLoadTensor(c, f) ==
  /\ f.type = "LoadTensor"
  /\ Take(c, f)
  /\ \/ /\ handshake
        /\ Store!Bind(f.name, f.content)
        /\ reply' \in {TensorLoaded(f.id, f.name, f.content), ErrorReply(f.id)}
     \/ reply' = ErrorReply(f.id) /\ UNCHANGED bound
  /\ UNCHANGED <<clientVars, toClient, backlog, up, cur, handshake, kv>>

\* Wrong on purpose: only the first layer of the range gets its row.
RowsWrittenFirst(first, last, input) ==
  [kv EXCEPT ![first] = [@ EXCEPT ![input.position] = input]]

\* The copies into row input.position of the K and V cache of each layer.
RowsWritten(first, last, input) ==
  [l \in Layers |-> IF l \in first .. last
                      THEN [kv[l] EXCEPT ![input.position] = input]
                      ELSE kv[l]]

\* One submission computes all layers of the range; attention reads the rows
\* up to the position, the new one included.  A failure (tensor missing or of
\* the wrong shape, no memory, device lost) may come after some layers ran.
ServeRunLayerRange(c, f) ==
  /\ f.type = "RunLayerRange"
  /\ Take(c, f)
  /\ \/ /\ handshake
        /\ \A l \in f.first .. f.last, t \in 1 .. NumTensors : bound[<<l, t>>] # NoContent
        /\ kv' = RowsWritten(f.first, f.last, f.input)
        /\ reply' = LayerRangeResult(f.id, f.first, f.last, f.input.position,
                      Output(bound, kv', f.first, f.last, f.input.position))
     \/ /\ \E done \in f.first - 1 .. f.last :
             kv' = RowsWritten(f.first, done, f.input)
        /\ reply' = ErrorReply(f.id)
  /\ UNCHANGED <<clientVars, toClient, backlog, up, cur, handshake, bound>>

Serve(c) ==
  \E f \in toServer[c] :
    ServeHello(c, f) \/ ServeLoadTensor(c, f) \/ ServeRunLayerRange(c, f)

SendReply(c) ==
  /\ cur = c
  /\ reply # NoReply
  /\ toClient' = [toClient EXCEPT ![c] = @ \cup {reply}]
  /\ reply' = NoReply
  /\ UNCHANGED <<clientVars, toServer, backlog, up, cur, handshake, bound, kv>>

\* Wrong on purpose: the server does not go back to accept.
CloseConnectionKept(c) ==
  /\ cur = c
  /\ cstate[c] \in Gone
  /\ reply # NoReply \/ (toServer[c] = {} /\ cstate[c] # "vanished")
  /\ reply' = NoReply
  /\ UNCHANGED <<clientVars, toServer, toClient, backlog, up, cur, handshake, bound, kv>>

\* The response cannot be sent, or the next frame never comes: end of file,
\* or a frame cut off.
CloseConnection(c) ==
  /\ cur = c
  /\ cstate[c] \in Gone
  /\ reply # NoReply \/ (toServer[c] = {} /\ cstate[c] # "vanished")
  /\ cur' = NoClient
  /\ reply' = NoReply
  /\ UNCHANGED <<clientVars, toServer, toClient, backlog, up, handshake, bound, kv>>

\* The process ends, and with it every connection; responses already sent may
\* or may not reach their clients.
ServerCrash ==
  /\ up
  /\ up' = FALSE
  /\ cur' = NoClient
  /\ handshake' = FALSE
  /\ reply' = NoReply
  /\ backlog' = <<>>
  /\ toServer' = [c \in Clients |-> {}]
  /\ toClient' \in {toClient, [c \in Clients |-> {}]}
  /\ bound' = NoTensors
  /\ kv' = NoRows
  /\ UNCHANGED clientVars

ServerStart ==
  /\ ~up
  /\ up' = TRUE
  /\ UNCHANGED <<clientVars, toServer, toClient, backlog, cur, handshake, reply, bound, kv>>

-------------------------------------------------------------------------------
Load(c) ==
  \/ Connect(c) \/ ConnectFails(c) \/ RecvCapabilities(c)
  \/ LoadLocalLayer(c) \/ SendTensor(c) \/ RecvTensorLoaded(c) \/ ModelLoaded(c)

Forward(c) ==
  RunLocalLayer(c) \/ SendRange(c) \/ RecvRangeResult(c) \/ NextToken(c) \/ EndTurn(c)

ServerStep ==
  \/ Accept
  \/ \E c \in Clients : Serve(c) \/ SendReply(c) \/ CloseConnection(c)

Next ==
  \/ \E c \in Clients :
       \/ Load(c) \/ Forward(c) \/ StartTurn(c) \/ Exit(c)
       \/ ClientFails(c) \/ ClientDies(c) \/ ClientVanishes(c)
  \/ ServerStep
  \/ ServerCrash
  \/ ServerStart

Spec == Init /\ [][Next]_vars

\* Both programs run on; a user of an interactive session need not type, and
\* nothing makes a process die or a server come back.
ClientProgress(c) ==
  \/ (cstate[c] # "start" /\ Load(c)) \/ Forward(c) \/ ClientFails(c)
  \/ c \notin Interactive /\ (StartTurn(c) \/ Exit(c))

Fairness ==
  /\ WF_vars(ServerStep)
  /\ \A c \in Clients : WF_vars(ClientProgress(c))

FairSpec == Spec /\ Fairness

-------------------------------------------------------------------------------
RequestFrames ==
  [type : {"Hello"}, id : Nat]
    \cup [type : {"LoadTensor"}, id : Nat, name : Names, content : Contents]
    \cup [type : {"RunLayerRange"}, id : Nat, first : Layers, last : Layers, input : Inputs]

ResponseTypes == {"Error", "Capabilities", "TensorLoaded", "LayerRangeResult"}

TypeOK ==
  /\ cstate \in [Clients -> ClientStates]
  /\ nextReq \in [Clients -> Nat]
  /\ layer \in [Clients -> 0 .. NumLayers]
  /\ suffix \in [Clients -> 1 .. NumTensors]
  /\ uploaded \in [Clients -> SUBSET Layers]
  /\ turn \in [Clients -> Turns]
  /\ pos \in [Clients -> Positions]
  /\ toServer \in [Clients -> SUBSET RequestFrames]
  /\ DOMAIN toClient = Clients
  /\ \A c \in Clients : \A f \in toClient[c] : f.type \in ResponseTypes
  /\ backlog \in Seq(Clients)
  /\ up \in BOOLEAN
  /\ cur \in Clients \cup {NoClient}
  /\ handshake \in BOOLEAN
  /\ reply # NoReply => reply.type \in ResponseTypes
  /\ bound \in [Names -> Contents \cup {NoContent}]
  /\ kv \in [Layers -> [Positions -> Inputs \cup {NoInput}]]

\* A layer range that comes back was computed from the client's own weights
\* and from the KV rows of its own turn at all positions so far, although the
\* phone's tensors and caches still hold what earlier clients and turns left.
OwnResults ==
  \A c \in Clients : \A f \in toClient[c] :
    f.type = "LayerRangeResult" =>
      f.output = OwnOutput(c, f.first, f.last, f.position)

\* The caches of a connected client's layers hold its own turn: all earlier
\* positions, and the current one for the layers already computed.
OwnRows ==
  \A c \in Clients : cur = c /\ turn[c] > 0 =>
    \A l \in Offload[c] : \A q \in Positions :
      q < pos[c] \/ (q = pos[c] /\ l < layer[c]) => kv[l][q] = OwnRow(c, q)

\* A layer in uploaded_layers_ is on the phone, complete and with the client's
\* own content, for as long as the connection is served.
UploadedHeld ==
  \A c \in Clients : cur = c =>
    \A l \in uploaded[c], t \in 1 .. NumTensors : bound[<<l, t>>] = Weight[c][<<l, t>>]

\* A client has at most one request outstanding, somewhere between its send
\* and the receipt of the response, and none while it is not waiting.
InFlight(c) ==
  {f.id : f \in toServer[c]} \cup {f.id : f \in toClient[c]}
    \cup (IF cur = c /\ reply # NoReply THEN {reply.id} ELSE {})
OneOutstanding ==
  \A c \in Clients :
    /\ InFlight(c) \subseteq {Pending(c)}
    /\ toServer[c] # {} => toClient[c] = {} /\ ~(cur = c /\ reply # NoReply)
    /\ Running(c) /\ cstate[c] \notin Waiting => InFlight(c) = {}

\* Connections are served one at a time, each once: a client that is being
\* served or was served is not in the listen queue.
ServedOnce ==
  /\ \A i, j \in 1 .. Len(backlog) : backlog[i] = backlog[j] => i = j
  /\ \A i \in 1 .. Len(backlog) :
       backlog[i] # cur /\ uploaded[backlog[i]] = {} /\ turn[backlog[i]] = 0

\* While the server lives a tensor on the phone is never replaced, whoever
\* uploads.
NoOverwrite ==
  [][up' => \A n \in Names : bound[n] # NoContent => bound'[n] = bound[n]]_vars

\* The blocking calls return: a client waiting on the connection being served
\* gets its response, or fails when the connection ends.
RequestsAnswered ==
  \A c \in Clients : \A s \in Waiting :
    cstate[c] = s /\ cur = c ~> cstate[c] # s

\* Unless a link goes silent or a user stays at a prompt for ever, the listen
\* queue drains: each client that connected comes to its end, however many are
\* ahead of it (TcpServer::run, tcp_server.cpp:86-109).
UsersGoOn == \A c \in Interactive : []<>(cstate[c] # "idle")
LinksReport == \A c \in Clients : [](cstate[c] # "vanished")

SessionsEnd ==
  UsersGoOn /\ LinksReport =>
    \A c \in Clients : cstate[c] # "start" ~> cstate[c] \in Gone

===============================================================================
