------------------------------ MODULE Connection ------------------------------
(***************************************************************************)
(* Frames over TCP: send_all and receive_exact of both programs on a byte  *)
(* stream that takes and delivers any number of bytes at a time, and the   *)
(* phone's serve_client, which answers each frame it receives, whoever     *)
(* sends it.  Connections come one after another; each may be cut at any   *)
(* byte.                                                                   *)
(*                                                                         *)
(* A byte is the frame it belongs to and its place in it; a header is what *)
(* the bytes received in its place turn out to be.                         *)
(***************************************************************************)
EXTENDS Integers, Sequences

CONSTANTS
  HeaderBytes,     \* kFrameHeaderBytes
  PayloadSizes,    \* sizes of payloads, as small as the bytes modelled
  BufferBytes,     \* what a socket takes before send blocks
  MaxRequests,     \* bound: requests of all clients
  None

ASSUME ByteAssumption ==
  /\ HeaderBytes \in Nat \ {0}
  /\ PayloadSizes \subseteq Nat
  /\ BufferBytes \in Nat \ {0}
  /\ MaxRequests \in Nat

\* What serve_client tells apart in a request.  "BadHello": a payload that does
\* not decode, no common version, or a backend other than Auto or VulkanGpu.
\* "BadTensor", "BadRange": a payload that does not decode.  "BadFrame": wrong
\* magic or version, or a payload beyond the limit.  "Other": any other type.
RequestKinds == {"Ping", "Hello", "BadHello", "LoadTensor", "BadTensor",
                 "RunLayerRange", "BadRange", "Other", "BadFrame"}
ResponseKinds ==
  {"Pong", "Capabilities", "TensorLoaded", "LayerRangeResult", "Error"}

RequestIds == 1 .. MaxRequests
Requests == [kind : RequestKinds, id : RequestIds, size : PayloadSizes]
Responses == [kind : ResponseKinds, id : RequestIds, size : PayloadSizes]

ASSUME NoneAssumption == None \notin Requests \cup Responses

\* The type that answers a request if nothing goes wrong.
Success(kind) ==
  CASE kind = "Ping" -> "Pong"
    [] kind = "Hello" -> "Capabilities"
    [] kind = "LoadTensor" -> "TensorLoaded"
    [] kind = "RunLayerRange" -> "LayerRangeResult"
    [] OTHER -> "Error"

VARIABLES
  \* The client's end.
  cpc,        \* "closed", "ready", "sending" or "receiving"
  request,    \* the request of the call under way
  csent,      \* bytes of it that the socket took
  cin,        \* bytes of the response received
  nextRequestId,  \* next_request_id_, of all clients together
  returned,   \* the response of the last call
  greeted,    \* a HELLO that can be accepted was sent on this connection
  \* The two directions of the stream.
  toServer,
  toClient,
  \* The server's end.
  spc,        \* "accept", "receiving" or "sending"
  sin,        \* bytes of the request received
  response,   \* the response built for it
  ssent,      \* bytes of it that the socket took
  handshake,  \* handshake_complete
  touched     \* a tensor was stored or a range computed for this connection

clientVars == <<cpc, request, csent, cin, nextRequestId, returned, greeted>>
serverVars == <<spc, sin, response, ssent, handshake, touched>>
connectionVars == <<clientVars, toServer, toClient, serverVars>>

-------------------------------------------------------------------------------
(* Bytes. *)

Bytes(frame) == [i \in 1 .. HeaderBytes + frame.size |-> <<frame, i>>]

\* The frame that the bytes received so far begin with, if they are a header.
Header(bytes) ==
  IF SubSeq(bytes, 1, HeaderBytes) = SubSeq(Bytes(bytes[1][1]), 1, HeaderBytes)
    THEN bytes[1][1] ELSE None

\* Bytes the loop of receive_exact still asks for: those of the header, then
\* those of the payload that the header announces.
Missing(bytes) ==
  IF Len(bytes) < HeaderBytes THEN HeaderBytes - Len(bytes)
  ELSE HeaderBytes + Header(bytes).size - Len(bytes)

\* The header is complete and receive_frame refuses it.
HeaderRefused(bytes) ==
  Len(bytes) >= HeaderBytes /\ (Header(bytes) = None \/ Header(bytes).kind = "BadFrame")

\* Wrong on purpose: one recv of the payload is taken for all of it.
CompleteAtOnce(bytes) == Len(bytes) >= HeaderBytes /\ ~HeaderRefused(bytes)

Complete(bytes) ==
  Len(bytes) >= HeaderBytes /\ ~HeaderRefused(bytes) /\ Missing(bytes) = 0

Lesser(m, n) == IF m < n THEN m ELSE n

\* Counts that one send or recv may transfer, the loops asking for at most
\* wanted bytes.
SendCounts(frame, sent, stream) ==
  1 .. Lesser(Len(Bytes(frame)) - sent, BufferBytes - Len(stream))
RecvCounts(bytes, stream) == 1 .. Lesser(Missing(bytes), Len(stream))

-------------------------------------------------------------------------------
ConnectionInit ==
  /\ cpc = "closed" /\ request = None /\ csent = 0 /\ cin = <<>>
  /\ nextRequestId = 1 /\ returned = None /\ greeted = FALSE
  /\ toServer = <<>> /\ toClient = <<>>
  /\ spc = "accept" /\ sin = <<>> /\ response = None /\ ssent = 0
  /\ handshake = FALSE /\ touched = FALSE

(* The client's end. *)

\* A connection is made, and accepted: serve_client begins.
Accept ==
  /\ cpc = "closed" /\ spc = "accept"
  /\ cpc' = "ready" /\ greeted' = FALSE
  /\ toServer' = <<>> /\ toClient' = <<>>
  /\ spc' = "receiving" /\ sin' = <<>> /\ response' = None /\ ssent' = 0
  /\ handshake' = FALSE /\ touched' = FALSE
  /\ UNCHANGED <<request, csent, cin, nextRequestId, returned>>

\* A call begins: send_frame with the next id.
Ask(frame) ==
  /\ cpc = "ready"
  /\ nextRequestId \in RequestIds /\ frame.id = nextRequestId
  /\ nextRequestId' = nextRequestId + 1
  /\ request' = frame /\ csent' = 0 /\ cin' = <<>>
  /\ cpc' = "sending"
  /\ greeted' = (greeted \/ frame.kind = "Hello")
  /\ UNCHANGED <<returned, toServer, toClient, serverVars>>

\* One send: the socket takes as many bytes as it has room for.
ClientSend ==
  /\ cpc = "sending"
  /\ \E k \in SendCounts(request, csent, toServer) :
       /\ toServer' = toServer \o SubSeq(Bytes(request), csent + 1, csent + k)
       /\ csent' = csent + k
       /\ cpc' = IF csent + k = Len(Bytes(request)) THEN "receiving" ELSE "sending"
  /\ UNCHANGED <<request, cin, nextRequestId, returned, greeted, toClient, serverVars>>

\* One recv of the response, and the call's return once it is complete.
ClientRecv ==
  /\ cpc = "receiving"
  /\ \E k \in RecvCounts(cin, toClient) :
       LET bytes == cin \o SubSeq(toClient, 1, k) IN
         /\ toClient' = SubSeq(toClient, k + 1, Len(toClient))
         /\ ~HeaderRefused(bytes)
         /\ IF Complete(bytes)
              THEN /\ returned' = Header(bytes)
                   /\ request' = None /\ cin' = <<>> /\ csent' = 0
                   /\ cpc' = "ready"
              ELSE /\ cin' = bytes
                   /\ UNCHANGED <<cpc, request, csent, returned>>
  /\ UNCHANGED <<nextRequestId, greeted, toServer, serverVars>>

\* The process ends, whether it wants to or not, or gives up on an exception
\* (the stream ended, an ERROR frame); what the kernel still delivers is a
\* prefix of what was written.
ClientClose ==
  /\ cpc # "closed"
  /\ cpc' = "closed"
  /\ request' = None /\ csent' = 0 /\ cin' = <<>>
  /\ \E k \in 0 .. Len(toServer) : toServer' = SubSeq(toServer, 1, k)
  /\ UNCHANGED <<nextRequestId, returned, greeted, toClient, serverVars>>

-------------------------------------------------------------------------------
(* The server's end. *)

\* Wrong on purpose: layers run for anybody.
AdmitsAll(kind) == TRUE

\* Requests that change the phone need a HELLO first.
Admits(kind) == handshake

\* The response to a request, and what handling it does to the connection.
\* store_tensor and run_layer_range may throw.
Reply(q, kind) == \E size \in PayloadSizes :
  response' = [kind |-> kind, id |-> q.id, size |-> size]

Dispatch(q) ==
  \/ q.kind = "Ping" /\ Reply(q, "Pong") /\ UNCHANGED <<handshake, touched>>
  \/ q.kind = "Hello" /\ Reply(q, "Capabilities") /\ handshake' = TRUE /\ UNCHANGED touched
  \/ /\ q.kind = "LoadTensor" /\ Admits(q.kind)
     /\ \/ Reply(q, "TensorLoaded") /\ touched' = TRUE
        \/ Reply(q, "Error") /\ UNCHANGED touched
     /\ UNCHANGED handshake
  \/ /\ q.kind = "RunLayerRange" /\ Admits(q.kind)
     /\ Reply(q, "LayerRangeResult") \/ Reply(q, "Error")
     /\ touched' = TRUE
     /\ UNCHANGED handshake
  \/ /\ \/ q.kind \in {"BadHello", "BadTensor", "BadRange", "Other"}
        \/ q.kind \in {"LoadTensor", "RunLayerRange"} /\ ~Admits(q.kind)
     /\ Reply(q, "Error")
     /\ UNCHANGED <<handshake, touched>>

\* One recv of a request, and its handling once it is complete.
ServerRecv ==
  /\ spc = "receiving"
  /\ \E k \in RecvCounts(sin, toServer) :
       LET bytes == sin \o SubSeq(toServer, 1, k) IN
         /\ toServer' = SubSeq(toServer, k + 1, Len(toServer))
         /\ ~HeaderRefused(bytes)
         /\ IF Complete(bytes)
              THEN /\ Dispatch(Header(bytes))
                   /\ sin' = <<>> /\ ssent' = 0
                   /\ spc' = "sending"
              ELSE /\ sin' = bytes
                   /\ UNCHANGED <<spc, response, ssent, handshake, touched>>
  /\ UNCHANGED <<clientVars, toClient>>

\* Wrong on purpose: the rest of a response is dropped when the socket is full.
SentShort(k) == TRUE

\* The loop of send_all goes on until the whole response is sent.
SentAll(k) == ssent + k = Len(Bytes(response))

ServerSend ==
  /\ spc = "sending"
  /\ \E k \in SendCounts(response, ssent, toClient) :
       /\ toClient' = toClient \o SubSeq(Bytes(response), ssent + 1, ssent + k)
       /\ IF SentAll(k)
            THEN spc' = "receiving" /\ response' = None /\ ssent' = 0
            ELSE ssent' = ssent + k /\ UNCHANGED <<spc, response>>
  /\ UNCHANGED <<clientVars, toServer, sin, handshake, touched>>

\* The stream ended, between frames or within one, the header was refused, or
\* nobody takes the response.
ServingEnds ==
  \/ spc = "receiving" /\ toServer = <<>> /\ cpc = "closed"
  \/ spc = "receiving" /\ \E k \in RecvCounts(sin, toServer) :
                            HeaderRefused(sin \o SubSeq(toServer, 1, k))
  \/ spc = "sending" /\ cpc = "closed"

\* serve_client returns and the socket is closed.
ServerClose ==
  /\ ServingEnds
  /\ spc' = "accept" /\ response' = None /\ sin' = <<>> /\ ssent' = 0
  /\ toServer' = <<>>
  /\ UNCHANGED <<clientVars, toClient, handshake, touched>>

\* The stream ended before the response was complete, or receive_frame refuses
\* what should be its header.
CallBreaks ==
  \/ cpc = "sending" /\ spc = "accept"
  \/ cpc = "receiving" /\ spc = "accept" /\ toClient = <<>>
  \/ cpc = "receiving" /\ \E k \in RecvCounts(cin, toClient) :
                            HeaderRefused(cin \o SubSeq(toClient, 1, k))

\* The client gives up on the exception that ends its call.
ClientCutOff == CallBreaks /\ ClientClose

-------------------------------------------------------------------------------
ServerStep == ServerRecv \/ ServerSend \/ ServerClose
ClientStep == ClientSend \/ ClientRecv \/ ClientCutOff

ConnectionNext ==
  \/ Accept
  \/ \E f \in Requests : Ask(f)
  \/ ClientSend \/ ClientRecv \/ ClientClose
  \/ ServerStep

ConnectionSpec == ConnectionInit /\ [][ConnectionNext]_connectionVars

\* Both loops go on; nothing makes a client call, or connect, or close.
ConnectionFairness == WF_connectionVars(ServerStep) /\ WF_connectionVars(ClientStep)

-------------------------------------------------------------------------------
ConnectionTypeOK ==
  /\ cpc \in {"closed", "ready", "sending", "receiving"}
  /\ request \in Requests \cup {None}
  /\ csent \in Nat /\ ssent \in Nat
  /\ nextRequestId \in 1 .. MaxRequests + 1
  /\ returned \in Responses \cup {None}
  /\ spc \in {"accept", "receiving", "sending"}
  /\ response \in Responses \cup {None}
  /\ {handshake, touched, greeted} \subseteq BOOLEAN
  /\ Len(toServer) <= BufferBytes /\ Len(toClient) <= BufferBytes
  /\ cpc \in {"closed", "ready"} <=> request = None
  /\ spc = "sending" <=> response # None

\* The response given to the call under way: being sent, or on its way.
Answered ==
  IF request = None THEN None
  ELSE IF response # None THEN response
  ELSE IF cin \o toClient # <<>> THEN (cin \o toClient)[1][1] ELSE None

Call == INSTANCE RemoteCall WITH
  asked <- request, answered <- Answered,
  Answers <- [q \in Requests |->
                [kind : {Success(q.kind), "Error"}, id : {q.id}, size : PayloadSizes]]

\* However the stream cuts and joins bytes, the server handles the very frame
\* the client sent, once, and the call returns the response to it.
ImplementsCalls == Call!Spec

\* Nothing is stored or computed for a connection on which no acceptable HELLO
\* was sent, whatever an earlier connection did.
GreetedFirst == touched => greeted

\* A blocking call comes back or finds the connection ended, although the
\* sockets take fewer bytes than a frame has.
CallsEnd ==
  \A n \in RequestIds :
    request # None /\ request.id = n ~> ~(request # None /\ request.id = n)

===============================================================================
