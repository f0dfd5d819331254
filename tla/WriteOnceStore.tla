---------------------------- MODULE WriteOnceStore ----------------------------
(***************************************************************************)
(* What the phone promises a client about the tensors uploaded to it: a    *)
(* name is bound to content at most once, and stays bound to that content  *)
(* for the life of the server process.  Asking for the same binding again  *)
(* succeeds and changes nothing; asking for a different one is refused.    *)
(* TensorStore implements this; RemoteOffload relies on it.                *)
(***************************************************************************)

CONSTANTS
  Names,      \* tensor names, "blk.<layer>.<suffix>"
  Contents,   \* what an upload carries: type, dimensions and bytes
  NoContent   \* the binding of a name that was never uploaded

VARIABLE bound

TypeOK == bound \in [Names -> Contents \cup {NoContent}]

Init == bound = [n \in Names |-> NoContent]

\* A name may be bound to c now: it is free, or it already is.
MayBind(n, c) == bound[n] \in {NoContent, c}

Bind(n, c) ==
  /\ MayBind(n, c)
  /\ bound' = [bound EXCEPT ![n] = c]

Next == \E n \in Names, c \in Contents : Bind(n, c)

Spec == Init /\ [][Next]_bound

===============================================================================
