------------------------------ MODULE Submission ------------------------------
(***************************************************************************)
(* One RUN_LAYER_RANGE on the phone's GPU.  The host copies the hidden     *)
(* state into x, records the commands of the range, submits them, waits    *)
(* for the fence and copies x back.  The GPU may run commands of one       *)
(* submission together and in any order except where a barrier between     *)
(* them forbids it, and shows what one command wrote to another only where *)
(* a barrier's access masks say so.                                        *)
(*                                                                         *)
(* A command takes what it reads when it begins and writes when it ends;   *)
(* RaceFree is what makes that as good as reading and writing all the time *)
(* in between.                                                             *)
(***************************************************************************)
EXTENDS LayerCommands

CONSTANTS None

ASSUME NoneAssumption == None \notin Requests \cup AllCommands

VARIABLES
  \* The host.
  phase,    \* "idle", "recorded" (x is filled) or "running" (submitted)
  request,  \* the request at hand
  output,   \* what the last range returned, until the next one starts, or None
  lost,     \* the device was lost
  \* The GPU.
  running,  \* the commands begun and not ended, as a function to what they took
  ended,    \* the commands that ended
  memory,   \* Cells -> Values
  writer    \* the command of this submission that wrote a cell last, or None

vars == <<phase, request, output, lost, running, ended, memory, writer>>

-----------------------------------------------------------------------------
(* The barrier behind each group: transfer_barrier after the copies,       *)
(* compute_barrier everywhere else.                                        *)

\* Wrong on purpose: copies are not waited for.
ComputeScope(group) == {"compute"}

\* srcStageMask
FirstScope(group) == IF group = CopyGroup THEN {"transfer"} ELSE {"compute"}

\* dstStageMask
SecondScope(group) == IF group = CopyGroup THEN {"compute"} ELSE {"compute", "transfer"}

\* srcAccessMask
MadeAvailable(group) ==
  IF group = CopyGroup THEN {"transfer write"} ELSE {"shader write"}

\* Wrong on purpose: shaders see what was written, copies do not.
VisibleToShaders(group) == {"shader read", "shader write"}

\* dstAccessMask
MadeVisible(group) ==
  IF group = CopyGroup THEN {"shader read"}
  ELSE {"shader read", "shader write", "transfer read"}

ReadAccess(group) == IF Stage(group) = "compute" THEN "shader read" ELSE "transfer read"
WriteAccess(group) == IF Stage(group) = "compute" THEN "shader write" ELSE "transfer write"

\* The barrier behind group g of layer l stands between c and d, which may be
\* a command of that group itself.
Between(c, l, g, d) ==
  /\ c.layer < l \/ (c.layer = l /\ c.group <= g)
  /\ l < d.layer \/ (l = d.layer /\ g < d.group)

\* The commands a barrier makes d wait for.
WaitsFor == [d \in AllCommands |->
  {c \in AllCommands : \E l \in Layers, g \in Groups :
     /\ Between(c, l, g, d)
     /\ Stage(c.group) \in FirstScope(g) /\ Stage(d.group) \in SecondScope(g)}]

\* The commands of which a barrier shows to d what they wrote.
Shown == [d \in AllCommands |->
  {c \in AllCommands : \E l \in Layers, g \in Groups :
     /\ Between(c, l, g, d)
     /\ WriteAccess(c.group) \in MadeAvailable(g)
     /\ ReadAccess(d.group) \in MadeVisible(g)}]

-----------------------------------------------------------------------------
NoneRunning == [c \in {} |-> None]

Init ==
  /\ phase = "idle" /\ request = None /\ output = None /\ lost = FALSE
  /\ running = NoneRunning /\ ended = {}
  /\ memory \in FreshMemories
  /\ writer = [r \in Cells |-> None]

\* vkMapMemory, memcpy; then the command buffer is recorded.
Upload(q, input) ==
  /\ phase = "idle"
  /\ phase' = "recorded" /\ request' = q
  /\ memory' = [memory EXCEPT ![Work("x")] = input]
  /\ output' = None
  /\ UNCHANGED <<lost, running, ended, writer>>

\* A tensor is missing or a Vulkan call fails before the submission, which
\* vkQueueSubmit does on a device that was lost.
Refuse ==
  /\ phase = "recorded"
  /\ phase' = "idle" /\ request' = None
  /\ UNCHANGED <<output, lost, running, ended, memory, writer>>

\* vkQueueSubmit.  What earlier submissions wrote is visible to this one: the
\* host waited for their fence, and their barriers reach beyond their end.
Submit ==
  /\ phase = "recorded" /\ ~lost
  /\ phase' = "running"
  /\ writer' = [r \in Cells |-> None]
  /\ UNCHANGED <<request, output, lost, running, ended, memory>>

\* A cell may show anything if no barrier made its last write visible.
Takes(c, r, value) ==
  (writer[r] = None \/ writer[r] \in Shown[c]) => value = memory[r]

Begin(c) ==
  /\ c \notin ended \cup DOMAIN running
  /\ WaitsFor[c] \cap Commands(request) \subseteq ended
  /\ \E taken \in [Reads(c, request.position) -> Values] :
       /\ \A r \in Reads(c, request.position) : Takes(c, r, taken[r])
       /\ running' = [d \in DOMAIN running \cup {c} |-> IF d = c THEN taken ELSE running[d]]
  /\ UNCHANGED <<phase, request, output, lost, ended, memory, writer>>

End(c) ==
  /\ c \in DOMAIN running
  /\ memory' = [memory EXCEPT ![Writes(c, request.position)] = Result(c, running[c])]
  /\ writer' = [writer EXCEPT ![Writes(c, request.position)] = c]
  /\ running' = [d \in DOMAIN running \ {c} |-> running[d]]
  /\ ended' = ended \cup {c}
  /\ UNCHANGED <<phase, request, output, lost>>

\* The fence is signaled.
SubmissionDone == ended = Commands(request)

\* vkWaitForFences returns, x is copied back.
ReadBack ==
  /\ phase = "running" /\ SubmissionDone
  /\ phase' = "idle" /\ request' = None
  /\ output' = memory[Work("x")]
  /\ running' = NoneRunning /\ ended' = {}
  /\ UNCHANGED <<lost, memory, writer>>

\* vkGetQueryPoolResults or vkMapMemory fails.
ReadFails ==
  /\ phase = "running" /\ SubmissionDone
  /\ phase' = "idle" /\ request' = None
  /\ running' = NoneRunning /\ ended' = {}
  /\ UNCHANGED <<output, lost, memory, writer>>

\* vkWaitForFences fails, which it is taken to do only when the device is lost;
\* the commands that still ran end with it.
DeviceLost ==
  /\ phase = "running"
  /\ lost' = TRUE
  /\ phase' = "idle" /\ request' = None
  /\ running' = NoneRunning /\ ended' = {}
  /\ UNCHANGED <<output, memory, writer>>

Next ==
  \/ \E q \in Requests, input \in Values : Upload(q, input)
  \/ Refuse \/ Submit \/ ReadBack \/ ReadFails \/ DeviceLost
  \/ phase = "running" /\ \E c \in Commands(request) : Begin(c)
  \/ \E c \in DOMAIN running : End(c)

Spec == Init /\ [][Next]_vars

-----------------------------------------------------------------------------
TypeOK ==
  /\ phase \in {"idle", "recorded", "running"}
  /\ request \in Requests \cup {None}
  /\ phase = "idle" <=> request = None
  /\ output \in Values \cup {None}
  /\ lost \in BOOLEAN
  /\ request # None => DOMAIN running \cup ended \subseteq Commands(request)
  /\ DOMAIN running \cap ended = {}
  /\ phase # "running" => ended = {} /\ DOMAIN running = {}
  /\ memory \in [Cells -> Values]
  /\ writer \in [Cells -> AllCommands \cup {None}]

\* Commands c and d touch a cell that one of them writes.
Conflict(c, d, position) ==
  \/ Writes(c, position) \in Reads(d, position) \cup {Writes(d, position)}
  \/ Writes(d, position) \in Reads(c, position)

\* Commands that run together touch nothing that one of them writes, although
\* attention and projection serve twice in a layer and x, norm and the rest
\* again in the next one (vulkan_context_layer.cpp:292-448).
RaceFree ==
  \A c, d \in DOMAIN running : c # d => ~Conflict(c, d, request.position)

\* However the GPU overlaps and reorders the commands, memory and the result
\* are those of the commands carried out in the order of recording: barriers
\* are where they have to be, with the stages and accesses they have to name.
Sequential == INSTANCE InOrder WITH executed <- ended

ImplementsInOrder == Sequential!Spec

===============================================================================
