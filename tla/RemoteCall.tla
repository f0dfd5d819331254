------------------------------ MODULE RemoteCall ------------------------------
(***************************************************************************)
(* What a connection to the phone promises: calls one after another, each  *)
(* handled once and answered with the response to that very request, until *)
(* the connection breaks.  Connection implements this over a byte stream;  *)
(* RemoteOffload treats frames as whole messages because of it.            *)
(***************************************************************************)

CONSTANTS
  Requests,
  Answers,  \* Answers[q]: the responses that request q may get
  None

VARIABLES
  asked,     \* the request of the call under way
  answered,  \* the response it was given, once it is handled
  returned   \* the response of the last call that came back

callVars == <<asked, answered, returned>>

Init == asked = None /\ answered = None /\ returned = None

Ask(q) == asked = None /\ asked' = q /\ UNCHANGED <<answered, returned>>

Handle ==
  /\ asked # None
  /\ answered = None
  /\ answered' \in Answers[asked]
  /\ UNCHANGED <<asked, returned>>

Return ==
  /\ answered # None
  /\ returned' = answered
  /\ asked' = None
  /\ answered' = None

\* The connection is gone, and with it the call under way; the next one is
\* made on another connection.
Break == asked' = None /\ answered' = None /\ UNCHANGED returned

Next == (\E q \in Requests : Ask(q)) \/ Handle \/ Return \/ Break

Spec == Init /\ [][Next]_callVars

===============================================================================
