--------------------------- MODULE MCImplementation ---------------------------
(***************************************************************************)
(* What implements the two abstract specifications that RemoteOffload      *)
(* builds on, the stream and the registry, in one run, as in               *)
(* ImplementationProofs. They share no state: in a behaviour one of them   *)
(* takes its steps and the other rests in its initial state.               *)
(***************************************************************************)
EXTENDS Connection, MCTensorStore

VARIABLE subject  \* "connection" or "registry"

ImplementationInit ==
  Init /\ ConnectionInit /\ subject \in {"connection", "registry"}

ImplementationNext ==
  /\ \/ subject = "connection" /\ ConnectionNext /\ UNCHANGED vars
     \/ subject = "registry" /\ Next /\ UNCHANGED connectionVars
  /\ UNCHANGED subject

\* Before a connection is made neither loop has a step to take, so a behaviour of
\* the registry is fair as it is.
ImplementationSpec ==
  /\ ImplementationInit
  /\ [][ImplementationNext]_<<vars, connectionVars, subject>>
  /\ ConnectionFairness

===============================================================================
