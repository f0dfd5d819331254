------------------------------- MODULE InOrder -------------------------------
(***************************************************************************)
(* What the phone promises of a range of layers: its commands take effect  *)
(* one at a time, each on what the groups before it left, and the result   *)
(* is what the last of them left in x.                                     *)
(***************************************************************************)
EXTENDS LayerCommands

CONSTANTS None

VARIABLES
  phase,     \* "idle", "recorded" or "running"
  request,   \* the request at hand
  executed,  \* its commands that took effect
  memory,    \* Cells -> Values
  output     \* what the last range returned, until the next one starts, or None

inOrderVars == <<phase, request, executed, memory, output>>

Init ==
  /\ phase = "idle" /\ request = None /\ executed = {} /\ output = None
  /\ memory \in FreshMemories

\* The hidden state arrives, is copied to x, and the commands are recorded.
Upload(q, input) ==
  /\ phase = "idle"
  /\ phase' = "recorded" /\ request' = q
  /\ memory' = [memory EXCEPT ![Work("x")] = input]
  /\ output' = None
  /\ UNCHANGED executed

Start == phase = "recorded" /\ phase' = "running" /\ UNCHANGED <<request, executed, memory, output>>

Execute(c) ==
  /\ executed' = executed \cup {c}
  /\ \A d \in Commands(request) : Precedes(d, c) => d \in executed
  /\ memory' = [memory EXCEPT ![Writes(c, request.position)] =
                  Result(c, [r \in Reads(c, request.position) |-> memory[r]])]
  /\ UNCHANGED <<phase, request, output>>

Finish ==
  /\ phase = "running" /\ executed = Commands(request)
  /\ phase' = "idle" /\ request' = None /\ executed' = {}
  /\ output' = memory[Work("x")]
  /\ UNCHANGED memory

\* The request ends without a result.
Fail ==
  /\ phase # "idle"
  /\ phase' = "idle" /\ request' = None /\ executed' = {}
  /\ UNCHANGED <<memory, output>>

Next ==
  \/ \E q \in Requests, input \in Values : Upload(q, input)
  \/ Start \/ Finish \/ Fail
  \/ phase = "running" /\ \E c \in Commands(request) \ executed : Execute(c)

Spec == Init /\ [][Next]_inOrderVars

=============================================================================
