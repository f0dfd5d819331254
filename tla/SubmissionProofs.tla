--------------------------- MODULE SubmissionProofs ---------------------------
(***************************************************************************)
(* For any number of layers and positions: commands that run together do   *)
(* not touch each other's buffers, and a submission takes effect as its    *)
(* commands do in the order of recording.                                  *)
(***************************************************************************)
EXTENDS TLAPS, Submission

-----------------------------------------------------------------------------
(* The table of commands. *)

AllOps == UNION {Ops(g) : g \in Groups}

LEMMA GroupSplit ==
  ASSUME NEW g \in Groups
  PROVE  \/ g = 1 \/ g = 2 \/ g = 3 \/ g = 4 \/ g = 5 \/ g = 6 \/ g = 7
         \/ g = 8 \/ g = 9 \/ g = 10 \/ g = 11 \/ g = 12 \/ g = 13 \/ g = 14
BY DEF Groups, NumGroups

LEMMA OpsAre ==
  /\ Ops(1) = {"attn_norm"} /\ Ops(2) = {"attn_q", "attn_k", "attn_v"}
  /\ Ops(3) = {"q_norm", "k_norm"} /\ Ops(4) = {"q_rope", "k_rope"}
  /\ Ops(5) = {"k_copy", "v_copy"} /\ Ops(6) = {"attention_scores"}
  /\ Ops(7) = {"attention_value"} /\ Ops(8) = {"attn_output"}
  /\ Ops(9) = {"attn_residual"} /\ Ops(10) = {"ffn_norm"}
  /\ Ops(11) = {"ffn_gate", "ffn_up"} /\ Ops(12) = {"swiglu"}
  /\ Ops(13) = {"ffn_down"} /\ Ops(14) = {"ffn_residual"}
BY DEF Ops

LEMMA WrittenAre ==
  /\ Written("attn_norm") = "norm" /\ Written("ffn_norm") = "norm"
  /\ Written("attn_q") = "q" /\ Written("q_norm") = "q"
  /\ Written("attn_k") = "k" /\ Written("k_norm") = "k"
  /\ Written("attn_v") = "v" /\ Written("q_rope") = "projection"
  /\ Written("k_rope") = "attention" /\ Written("k_copy") = "kCache"
  /\ Written("v_copy") = "vCache" /\ Written("attention_scores") = "scores"
  /\ Written("attention_value") = "attention" /\ Written("attn_output") = "projection"
  /\ Written("attn_residual") = "x" /\ Written("ffn_residual") = "x"
  /\ Written("ffn_gate") = "gate" /\ Written("ffn_up") = "up"
  /\ Written("swiglu") = "activation" /\ Written("ffn_down") = "ffn_output"
BY DEF Written

LEMMA WorkReadAre ==
  /\ WorkRead("attn_norm") = {"x"} /\ WorkRead("ffn_norm") = {"x"}
  /\ WorkRead("attn_q") = {"norm"} /\ WorkRead("attn_k") = {"norm"}
  /\ WorkRead("attn_v") = {"norm"}
  /\ WorkRead("q_norm") = {"q"} /\ WorkRead("q_rope") = {"q"}
  /\ WorkRead("k_norm") = {"k"} /\ WorkRead("k_rope") = {"k"}
  /\ WorkRead("k_copy") = {"attention"} /\ WorkRead("v_copy") = {"v"}
  /\ WorkRead("attention_scores") = {"projection"} /\ WorkRead("attention_value") = {"scores"}
  /\ WorkRead("attn_output") = {"attention"}
  /\ WorkRead("attn_residual") = {"x", "projection"}
  /\ WorkRead("ffn_gate") = {"norm"} /\ WorkRead("ffn_up") = {"norm"}
  /\ WorkRead("swiglu") = {"gate", "up"} /\ WorkRead("ffn_down") = {"activation"}
  /\ WorkRead("ffn_residual") = {"x", "ffn_output"}
BY DEF WorkRead

LEMMA CommandType ==
  ASSUME NEW c \in AllCommands
  PROVE  c.layer \in Layers /\ c.group \in Groups /\ c.op \in Ops(c.group)
BY DEF AllCommands

\* What a command writes is a work buffer, or, if it is a copy, a cache.
LEMMA WrittenType ==
  ASSUME NEW c \in AllCommands
  PROVE  /\ Written(c.op) \in WorkBuffers \cup Caches
         /\ Written(c.op) \in Caches <=> c.group = CopyGroup
         /\ WorkRead(c.op) \subseteq WorkBuffers
<1>1. c.group \in Groups /\ c.op \in Ops(c.group)
  BY CommandType
<1>2. CASE c.group \in {1, 2, 3, 4}
  BY <1>1, <1>2, OpsAre, WrittenAre, WorkReadAre DEF WorkBuffers, Caches, CopyGroup
<1>3. CASE c.group \in {5, 6, 7, 8, 9}
  BY <1>1, <1>3, OpsAre, WrittenAre, WorkReadAre DEF WorkBuffers, Caches, CopyGroup
<1>4. CASE c.group \in {10, 11, 12, 13, 14}
  BY <1>1, <1>4, OpsAre, WrittenAre, WorkReadAre DEF WorkBuffers, Caches, CopyGroup
<1>5. QED
  BY <1>1, <1>2, <1>3, <1>4, GroupSplit


-----------------------------------------------------------------------------
(* Cells. *)

LEMMA WorkFacts ==
  ASSUME NEW b, NEW d PROVE Work(b) = Work(d) <=> b = d
BY DEF Work

\* A work buffer is no row of a cache.
LEMMA WorkIsNoRow ==
  ASSUME NEW b \in WorkBuffers, NEW cache \in Caches, NEW l, NEW p
  PROVE  Work(b) # Row(cache, l, p)
BY DEF Work, Row, WorkBuffers, Caches

LEMMA RowFacts ==
  ASSUME NEW a, NEW l, NEW p, NEW b, NEW m, NEW q
  PROVE  Row(a, l, p) = Row(b, m, q) <=> a = b /\ l = m /\ p = q
BY DEF Row

LEMMA WritesCell ==
  ASSUME NEW c \in AllCommands, NEW p \in Positions
  PROVE  Writes(c, p) \in Cells
<1>1. CASE Written(c.op) \in Caches
  BY <1>1, CommandType DEF Writes, Cells
<1>2. CASE Written(c.op) \notin Caches
  BY <1>2, WrittenType DEF Writes, Cells
<1>3. QED
  BY <1>1, <1>2

\* What each command reads, the rows of a cache apart from the work buffers.
CacheRead(c) ==
  CASE c.op = "attention_scores" -> {"kCache"}
    [] c.op = "attention_value" -> {"vCache"}
    [] OTHER -> {}

LEMMA ReadsSplit ==
  ASSUME NEW c, NEW p, NEW r \in Reads(c, p)
  PROVE  \/ \E b \in WorkRead(c.op) : r = Work(b)
         \/ \E a \in CacheRead(c), s \in 0 .. p : r = Row(a, c.layer, s)
BY DEF Reads, CacheRead

LEMMA CacheReadType ==
  ASSUME NEW c \in AllCommands
  PROVE  /\ CacheRead(c) \subseteq Caches
         /\ CacheRead(c) # {} => c.group \in {6, 7}
<1>1. c.group \in Groups /\ c.op \in Ops(c.group)
  BY CommandType
<1>2. CASE c.op = "attention_scores"
  BY <1>1, <1>2, OpsAre, GroupSplit DEF CacheRead, Caches
<1>3. CASE c.op = "attention_value"
  BY <1>1, <1>3, OpsAre, GroupSplit DEF CacheRead, Caches
<1>4. CASE c.op \notin {"attention_scores", "attention_value"}
  BY <1>4 DEF CacheRead
<1>5. QED
  BY <1>2, <1>3, <1>4

LEMMA ReadsCells ==
  ASSUME NEW c \in AllCommands, NEW p \in Positions
  PROVE  Reads(c, p) \subseteq Cells
<1>1. SUFFICES ASSUME NEW r \in Reads(c, p) PROVE r \in Cells
  OBVIOUS
<1>2. CASE \E b \in WorkRead(c.op) : r = Work(b)
  BY <1>2, WrittenType DEF Cells
<1>3. CASE \E a \in CacheRead(c), s \in 0 .. p : r = Row(a, c.layer, s)
  <2>1. 0 .. p \subseteq Positions
    BY LayerAssumption DEF Positions
  <2>2. QED
    BY <1>3, <2>1, CacheReadType, CommandType DEF Cells
<1>4. QED
  BY <1>2, <1>3, ReadsSplit

\* Commands of one group that differ write different cells and read nothing
\* that the other writes.
LEMMA GroupsAreFree ==
  ASSUME NEW c \in AllCommands, NEW d \in AllCommands, NEW p,
         c.layer = d.layer, c.group = d.group, c # d
  PROVE  ~Conflict(c, d, p)
<1>1. c.group \in Groups /\ c.op \in Ops(c.group) /\ d.op \in Ops(c.group)
  BY CommandType
<1>2. c.op # d.op
  BY DEF AllCommands
<1>3. c.group \in {2, 3, 4, 5, 11}
  BY <1>1, <1>2, OpsAre, GroupSplit
<1>4. Written(c.op) # Written(d.op)
  BY <1>1, <1>2, <1>3, OpsAre, WrittenAre
<1>5. Written(c.op) \notin WorkRead(d.op) /\ Written(d.op) \notin WorkRead(c.op)
  BY <1>1, <1>2, <1>3, OpsAre, WrittenAre, WorkReadAre
<1>6. Writes(c, p) # Writes(d, p)
  <2>1. CASE c.group = CopyGroup
    <3>1. Written(c.op) \in Caches /\ Written(d.op) \in Caches
      BY <2>1, WrittenType
    <3>2. QED
      BY <1>4, <3>1, RowFacts DEF Writes
  <2>2. CASE c.group # CopyGroup
    <3>1. Written(c.op) \notin Caches /\ Written(d.op) \notin Caches
      BY <2>2, WrittenType
    <3>2. QED
      BY <1>4, <3>1, WorkFacts DEF Writes
  <2>3. QED
    BY <2>1, <2>2
<1>7. CacheRead(c) = {} /\ CacheRead(d) = {}
  BY <1>3, CacheReadType
<1>8. ASSUME NEW a \in AllCommands, NEW b \in AllCommands,
             Written(a.op) \notin WorkRead(b.op), CacheRead(b) = {}
      PROVE  Writes(a, p) \notin Reads(b, p)
  <2>1. SUFFICES ASSUME NEW r \in Reads(b, p) PROVE r # Writes(a, p)
    OBVIOUS
  <2>2. PICK w \in WorkRead(b.op) : r = Work(w)
    BY <1>8, ReadsSplit
  <2>3. w \in WorkBuffers /\ w # Written(a.op)
    BY <1>8, <2>2, WrittenType
  <2>4. QED
    BY <2>2, <2>3, WorkIsNoRow, WorkFacts, WrittenType DEF Writes
<1>9. QED
  BY <1>5, <1>6, <1>7, <1>8 DEF Conflict

\* A copy reads nothing that a copy of any layer wrote.
LEMMA CopiesReadNoCache ==
  ASSUME NEW c \in AllCommands, NEW d \in AllCommands, NEW p,
         c.group = CopyGroup, d.group = CopyGroup
  PROVE  Writes(c, p) \notin Reads(d, p)
<1>1. SUFFICES ASSUME NEW r \in Reads(d, p) PROVE r # Writes(c, p)
  OBVIOUS
<1>2. CacheRead(d) = {}
  BY CacheReadType DEF CopyGroup
<1>3. PICK w \in WorkRead(d.op) : r = Work(w)
  BY <1>2, ReadsSplit
<1>4. QED
  BY <1>3, WorkIsNoRow, WrittenType DEF Writes


-----------------------------------------------------------------------------
(* Barriers. *)

\* Whatever was recorded in an earlier group is waited for, but for a copy by
\* a copy of a later layer: the barrier behind the earlier group sees to it.
LEMMA BarrierWaits ==
  ASSUME NEW c \in AllCommands, NEW d \in AllCommands, Precedes(c, d),
         c.group # CopyGroup \/ d.group # CopyGroup
  PROVE  c \in WaitsFor[d]
<1>1. c.layer \in Layers /\ c.group \in Groups /\ d.layer \in Layers /\ d.group \in Groups
  BY CommandType
<1>2. c.layer \in Int /\ c.group \in Int /\ d.layer \in Int /\ d.group \in Int
  BY <1>1 DEF Layers, Groups
<1>3. Between(c, c.layer, c.group, d)
  BY <1>2 DEF Between, Precedes
<1>4. Stage(c.group) \in FirstScope(c.group) /\ Stage(d.group) \in SecondScope(c.group)
  BY DEF Stage, FirstScope, SecondScope
<1>5. QED
  BY <1>1, <1>3, <1>4 DEF WaitsFor

\* What it wrote is shown.
LEMMA BarrierShows ==
  ASSUME NEW c \in AllCommands, NEW d \in AllCommands, Precedes(c, d),
         c.group # CopyGroup \/ d.group # CopyGroup
  PROVE  c \in Shown[d]
<1>1. c.layer \in Layers /\ c.group \in Groups /\ d.layer \in Layers /\ d.group \in Groups
  BY CommandType
<1>2. c.layer \in Int /\ c.group \in Int /\ d.layer \in Int /\ d.group \in Int
  BY <1>1 DEF Layers, Groups
<1>3. Between(c, c.layer, c.group, d)
  BY <1>2 DEF Between, Precedes
<1>4. WriteAccess(c.group) \in MadeAvailable(c.group)
  BY DEF WriteAccess, Stage, MadeAvailable
<1>5. ReadAccess(d.group) \in MadeVisible(c.group)
  BY DEF ReadAccess, Stage, MadeVisible
<1>6. QED
  BY <1>1, <1>3, <1>4, <1>5 DEF Shown

LEMMA PrecedesTotal ==
  ASSUME NEW c \in AllCommands, NEW d \in AllCommands
  PROVE  Precedes(c, d) \/ Precedes(d, c) \/ (c.layer = d.layer /\ c.group = d.group)
<1>1. c.layer \in Int /\ c.group \in Int /\ d.layer \in Int /\ d.group \in Int
  BY CommandType DEF Layers, Groups
<1>2. QED
  BY <1>1 DEF Precedes

-----------------------------------------------------------------------------
(* The inductive invariant. *)

Begun == DOMAIN running \cup ended

\* A command begins when all groups before its own are through.
InGroupOrder ==
  \A c \in Commands(request), d \in Begun : Precedes(c, d) => c \in ended

\* What a running command took is what its cells still hold.
TakenIsThere ==
  \A c \in DOMAIN running :
    running[c] = [r \in Reads(c, request.position) |-> memory[r]]

\* The writer of a cell is a command that ended and writes that cell.
WriterEnded ==
  \A r \in Cells : writer[r] # None =>
    writer[r] \in ended /\ Writes(writer[r], request.position) = r

WhileRunning ==
  phase = "running" => InGroupOrder /\ TakenIsThere /\ WriterEnded

IInv == TypeOK /\ WhileRunning

LEMMA InitIInv == Init => IInv
<1>1. SUFFICES ASSUME Init PROVE IInv
  OBVIOUS
<1>2. memory \in [Cells -> Values]
  BY <1>1, LayerAssumption DEF Init, FreshMemories
<1>3. DOMAIN running = {}
  BY <1>1 DEF Init, NoneRunning
<1>4. QED
  BY <1>1, <1>2, <1>3 DEF Init, IInv, TypeOK, WhileRunning


\* The facts about a submission at work that the steps below share.
LEMMA RunningFacts ==
  ASSUME IInv, phase = "running"
  PROVE  /\ request \in Requests /\ request.position \in Positions
         /\ Commands(request) \subseteq AllCommands
         /\ DOMAIN running \subseteq Commands(request) /\ ended \subseteq Commands(request)
         /\ DOMAIN running \cap ended = {}
         /\ InGroupOrder /\ TakenIsThere /\ WriterEnded
<1>1. request \in Requests
  BY DEF IInv, TypeOK
<1>2. request # None
  BY DEF IInv, TypeOK
<1>3. QED
  BY <1>1, <1>2 DEF IInv, TypeOK, WhileRunning, Requests, Commands

LEMMA SameGroup ==
  ASSUME IInv, phase = "running", NEW c \in DOMAIN running, NEW d \in DOMAIN running
  PROVE  c.layer = d.layer /\ c.group = d.group
<1>1. c \in Commands(request) /\ d \in Commands(request) /\ c \notin ended /\ d \notin ended
  BY RunningFacts
<1>2. ~Precedes(c, d) /\ ~Precedes(d, c)
  BY <1>1, RunningFacts DEF InGroupOrder, Begun
<1>3. QED
  BY <1>1, <1>2, PrecedesTotal, RunningFacts

LEMMA RaceFreeHolds == IInv => RaceFree
<1>1. SUFFICES ASSUME IInv, NEW c \in DOMAIN running, NEW d \in DOMAIN running, c # d
               PROVE  ~Conflict(c, d, request.position)
  BY DEF RaceFree
<1>2. phase = "running"
  BY <1>1 DEF IInv, TypeOK
<1>3. c \in AllCommands /\ d \in AllCommands
  BY <1>1, <1>2, RunningFacts
<1>4. QED
  BY <1>1, <1>2, <1>3, SameGroup, GroupsAreFree

-----------------------------------------------------------------------------
(* A command begins. *)

\* All commands before it ended.
LEMMA BeginInOrder ==
  ASSUME IInv, phase = "running", NEW d \in Commands(request), Begin(d),
         NEW c \in Commands(request), Precedes(c, d)
  PROVE  c \in ended
<1>1. c \in AllCommands /\ d \in AllCommands
  BY RunningFacts
<1>2. WaitsFor[d] \cap Commands(request) \subseteq ended
  BY DEF Begin
<1>3. CASE c.group # CopyGroup \/ d.group # CopyGroup
  BY <1>1, <1>2, <1>3, BarrierWaits
<1>4. CASE c.group = CopyGroup /\ d.group = CopyGroup
  \* The kernel that scores the copied keys stands between the two copies.
  <2> DEFINE e == [layer |-> c.layer, group |-> 6, op |-> "attention_scores"]
  <2>1. c.layer \in Layers /\ d.layer \in Layers
    BY <1>1, CommandType
  <2>2. c.layer < d.layer
    BY <1>4, <2>1 DEF Precedes, CopyGroup, Layers
  <2>3. e \in AllCommands
    <3>1. 6 \in Groups /\ "attention_scores" \in Ops(6)
      BY OpsAre DEF Groups, NumGroups
    <3>2. QED
      BY <2>1, <3>1 DEF AllCommands
  <2>4. e \in Commands(request)
    BY <2>3 DEF Commands
  <2>5. Precedes(e, d) /\ Precedes(c, e)
    BY <1>4, <2>2 DEF Precedes, CopyGroup
  <2>6. e \in ended
    BY <1>1, <1>2, <2>3, <2>4, <2>5, BarrierWaits DEF CopyGroup
  <2>7. QED
    BY <2>5, <2>6, RunningFacts DEF InGroupOrder, Begun
<1>5. QED
  BY <1>3, <1>4

\* What it reads was last written by a command before it, and is shown to it.
LEMMA BeginReadsShown ==
  ASSUME IInv, phase = "running", NEW c \in Commands(request), Begin(c),
         NEW r \in Reads(c, request.position)
  PROVE  writer[r] = None \/ writer[r] \in Shown[c]
<1>1. SUFFICES ASSUME writer[r] # None PROVE writer[r] \in Shown[c]
  OBVIOUS
<1> DEFINE w == writer[r]
<1>2. c \in AllCommands /\ request.position \in Positions
  BY RunningFacts
<1>3. r \in Cells
  BY <1>2, ReadsCells
<1>4. w \in ended /\ Writes(w, request.position) = r
  BY <1>1, <1>3, RunningFacts DEF WriterEnded
<1>5. w \in Commands(request) /\ w \in AllCommands
  BY <1>4, RunningFacts
<1>6. c \notin ended
  BY DEF Begin
<1>7. ~Precedes(c, w)
  BY <1>4, <1>6, RunningFacts DEF InGroupOrder, Begun
<1>8. ~(c.layer = w.layer /\ c.group = w.group)
  <2>1. w # c
    BY <1>4, <1>6
  <2>2. Conflict(w, c, request.position)
    BY <1>4 DEF Conflict
  <2>3. QED
    BY <1>2, <1>5, <2>1, <2>2, GroupsAreFree
<1>9. Precedes(w, c)
  BY <1>2, <1>5, <1>7, <1>8, PrecedesTotal
<1>10. ~(w.group = CopyGroup /\ c.group = CopyGroup)
  BY <1>2, <1>4, <1>5, CopiesReadNoCache
<1>11. QED
  BY <1>2, <1>5, <1>9, <1>10, BarrierShows

\* So it takes what memory holds.
LEMMA BeginTakes ==
  ASSUME IInv, phase = "running", NEW c \in Commands(request), Begin(c)
  PROVE  running' = [d \in DOMAIN running \cup {c} |->
                       IF d = c THEN [r \in Reads(c, request.position) |-> memory[r]]
                       ELSE running[d]]
<1>1. PICK taken \in [Reads(c, request.position) -> Values] :
        /\ \A r \in Reads(c, request.position) : Takes(c, r, taken[r])
        /\ running' = [d \in DOMAIN running \cup {c} |-> IF d = c THEN taken ELSE running[d]]
  BY DEF Begin
<1>2. \A r \in Reads(c, request.position) : taken[r] = memory[r]
  BY <1>1, BeginReadsShown DEF Takes
<1>3. taken = [r \in Reads(c, request.position) |-> memory[r]]
  BY <1>1, <1>2
<1>4. QED
  BY <1>1, <1>3


LEMMA BeginIInv ==
  ASSUME IInv, phase = "running", NEW c \in Commands(request), Begin(c)
  PROVE  IInv'
<1>1. /\ UNCHANGED <<phase, request, output, lost, ended, memory, writer>>
      /\ c \notin ended \cup DOMAIN running
  BY DEF Begin
<1>2. DOMAIN running' = DOMAIN running \cup {c}
  BY BeginTakes
<1>3. TypeOK'
  BY <1>1, <1>2 DEF IInv, TypeOK, Commands
<1>4. InGroupOrder'
  <2>1. SUFFICES ASSUME NEW b \in Commands(request), NEW d \in Begun \cup {c}, Precedes(b, d)
                 PROVE  b \in ended
    BY <1>1, <1>2 DEF InGroupOrder, Begun, Commands
  <2>2. CASE d = c
    BY <2>1, <2>2, BeginInOrder
  <2>3. CASE d \in Begun
    BY <2>1, <2>3, RunningFacts DEF InGroupOrder
  <2>4. QED
    BY <2>1, <2>2, <2>3
<1>5. TakenIsThere'
  <2>1. SUFFICES ASSUME NEW d \in DOMAIN running \cup {c}
                 PROVE  running'[d] = [r \in Reads(d, request.position) |-> memory[r]]
    BY <1>1, <1>2 DEF TakenIsThere, Reads
  <2>2. CASE d = c
    BY <2>2, BeginTakes
  <2>3. CASE d # c
    BY <2>1, <2>3, BeginTakes, RunningFacts DEF TakenIsThere
  <2>4. QED
    BY <2>2, <2>3
<1>6. WriterEnded'
  BY <1>1, RunningFacts DEF WriterEnded, Writes
<1>7. QED
  BY <1>3, <1>4, <1>5, <1>6 DEF IInv, WhileRunning

LEMMA EndIInv ==
  ASSUME IInv, NEW c \in DOMAIN running, End(c)
  PROVE  IInv'
<1> DEFINE cell == Writes(c, request.position)
<1>1. phase = "running"
  BY DEF IInv, TypeOK
<1>2. /\ UNCHANGED <<phase, request, output, lost>>
      /\ memory' = [memory EXCEPT ![cell] = Result(c, running[c])]
      /\ writer' = [writer EXCEPT ![cell] = c]
      /\ running' = [d \in DOMAIN running \ {c} |-> running[d]]
      /\ ended' = ended \cup {c}
  BY DEF End
<1>3. c \in Commands(request) /\ c \in AllCommands /\ request.position \in Positions
  BY <1>1, RunningFacts
<1>4. cell \in Cells
  BY <1>3, WritesCell
<1>5. memory \in [Cells -> Values]
  BY DEF IInv, TypeOK
<1>6. running[c] = [r \in Reads(c, request.position) |-> memory[r]]
  BY <1>1, RunningFacts DEF TakenIsThere
<1>7. Result(c, running[c]) \in Values
  <2>1. running[c] \in [Reads(c, request.position) -> Values]
    BY <1>3, <1>5, <1>6, ReadsCells
  <2>2. QED
    BY <1>3, <2>1, ResultAssumption
<1>8. DOMAIN running' = DOMAIN running \ {c}
  BY <1>2
<1>9. TypeOK'
  <2>1. memory' \in [Cells -> Values]
    BY <1>2, <1>5, <1>7
  <2>2. writer' \in [Cells -> AllCommands \cup {None}]
    BY <1>2, <1>3 DEF IInv, TypeOK
  <2>3. DOMAIN running' \cup ended' \subseteq Commands(request)
    BY <1>1, <1>2, <1>3, <1>8, RunningFacts
  <2>4. QED
    BY <1>1, <1>2, <1>8, <2>1, <2>2, <2>3 DEF IInv, TypeOK, Commands
<1>10. InGroupOrder'
  BY <1>1, <1>2, <1>8, RunningFacts DEF InGroupOrder, Begun, Commands
<1>11. TakenIsThere'
  <2>1. SUFFICES ASSUME NEW d \in DOMAIN running \ {c}
                 PROVE  running[d] = [r \in Reads(d, request.position) |-> memory'[r]]
    BY <1>2, <1>8 DEF TakenIsThere, Reads
  <2>2. cell \notin Reads(d, request.position)
    BY <2>1, RaceFreeHolds DEF RaceFree, Conflict
  <2>3. d \in AllCommands
    BY <1>1, <2>1, RunningFacts
  <2>4. \A r \in Reads(d, request.position) : memory'[r] = memory[r]
    BY <1>2, <1>3, <1>5, <2>2, <2>3, ReadsCells
  <2>5. running[d] = [r \in Reads(d, request.position) |-> memory[r]]
    BY <1>1, <2>1, RunningFacts DEF TakenIsThere
  <2>6. QED
    BY <2>4, <2>5
<1>12. WriterEnded'
  <2>1. SUFFICES ASSUME NEW r \in Cells, writer'[r] # None
                 PROVE  writer'[r] \in ended' /\ Writes(writer'[r], request.position) = r
    BY <1>2 DEF WriterEnded, Writes
  <2>2. writer \in [Cells -> AllCommands \cup {None}]
    BY DEF IInv, TypeOK
  <2>3. QED
    BY <1>1, <1>2, <2>1, <2>2, RunningFacts DEF WriterEnded
<1>13. QED
  BY <1>9, <1>10, <1>11, <1>12 DEF IInv, WhileRunning


LEMMA NextIInv == IInv /\ [Next]_vars => IInv'
<1>1. SUFFICES ASSUME IInv, [Next]_vars PROVE IInv'
  OBVIOUS
<1>2. ASSUME NEW q \in Requests, NEW input \in Values, Upload(q, input) PROVE IInv'
  <2>1. memory' \in [Cells -> Values]
    BY <1>1, <1>2 DEF Upload, IInv, TypeOK
  <2>2. q # None
    BY NoneAssumption, <1>2
  <2>3. QED
    BY <1>1, <1>2, <2>1, <2>2 DEF Upload, IInv, TypeOK, WhileRunning
<1>3. CASE Refuse
  BY <1>1, <1>3 DEF Refuse, IInv, TypeOK, WhileRunning
<1>4. CASE Submit
  <2>1. DOMAIN running = {} /\ ended = {}
    BY <1>1, <1>4 DEF Submit, IInv, TypeOK
  <2>2. TypeOK'
    BY <1>1, <1>4 DEF Submit, IInv, TypeOK, Commands
  <2>3. InGroupOrder' /\ TakenIsThere' /\ WriterEnded'
    BY <1>4, <2>1 DEF Submit, InGroupOrder, TakenIsThere, WriterEnded, Begun
  <2>4. QED
    BY <2>2, <2>3 DEF IInv, WhileRunning
<1>5. CASE ReadBack
  BY <1>1, <1>5 DEF ReadBack, NoneRunning, IInv, TypeOK, WhileRunning, Cells, Work, WorkBuffers
<1>6. CASE DeviceLost
  BY <1>1, <1>6 DEF DeviceLost, NoneRunning, IInv, TypeOK, WhileRunning
<1>7. ASSUME phase = "running", NEW c \in Commands(request), Begin(c) PROVE IInv'
  BY <1>1, <1>7, BeginIInv
<1>8. ASSUME NEW c \in DOMAIN running, End(c) PROVE IInv'
  BY <1>1, <1>8, EndIInv
<1>9. CASE UNCHANGED vars
  <2>1. TypeOK'
    BY <1>1, <1>9 DEF vars, IInv, TypeOK
  <2>2. InGroupOrder => InGroupOrder'
    BY <1>9 DEF vars, InGroupOrder, Begun
  <2>3. TakenIsThere => TakenIsThere'
    BY <1>9 DEF vars, TakenIsThere
  <2>4. WriterEnded => WriterEnded'
    BY <1>9 DEF vars, WriterEnded
  <2>5. QED
    BY <1>1, <1>9, <2>1, <2>2, <2>3, <2>4 DEF vars, IInv, WhileRunning
<1>10. CASE ReadFails
  BY <1>1, <1>10 DEF ReadFails, NoneRunning, IInv, TypeOK, WhileRunning
<1>11. QED
  BY <1>1, <1>2, <1>3, <1>4, <1>5, <1>6, <1>7, <1>8, <1>9, <1>10 DEF Next

\* At all times what the host and the GPU keep has its type, nothing is begun
\* but while a submission runs, and only commands of the request are.
THEOREM TypeCorrect == Spec => []TypeOK
<1>1. IInv => TypeOK
  BY DEF IInv
<1>2. QED
  BY <1>1, InitIInv, NextIInv, PTL DEF Spec

\* Whatever the number of layers, commands that the GPU runs together do not
\* touch what one of them writes (vulkan_context_layer.cpp:292-448).
THEOREM NoRaces == Spec => []RaceFree
BY InitIInv, NextIInv, RaceFreeHolds, PTL DEF Spec

-----------------------------------------------------------------------------
(* The refinement: a command takes effect when it ends. *)

\* The table of commands is the same table in both specifications.
LEMMA SameCells ==
  /\ Sequential!Layers = Layers /\ Sequential!Positions = Positions
  /\ Sequential!Cells = Cells
  /\ \A b : Sequential!Work(b) = Work(b)
  /\ \A a, l, p : Sequential!Row(a, l, p) = Row(a, l, p)
BY DEF Sequential!Layers, Layers, Sequential!Positions, Positions, Sequential!Cells, Cells,
       Sequential!Work, Work, Sequential!Row, Row, Sequential!WorkBuffers, WorkBuffers,
       Sequential!Caches, Caches

LEMMA SameOps ==
  /\ Sequential!Groups = Groups
  /\ \A g : Sequential!Ops(g) = Ops(g)
  /\ \A op : Sequential!WorkRead(op) = WorkRead(op)
  /\ \A op : Sequential!Written(op) = Written(op)
BY DEF Sequential!Groups, Groups, Sequential!NumGroups, NumGroups, Sequential!Ops, Ops,
       Sequential!WorkRead, WorkRead, Sequential!Written, Written

LEMMA SameTable ==
  /\ Sequential!Requests = Requests /\ Sequential!FreshMemories = FreshMemories
  /\ Sequential!AllCommands = AllCommands
  /\ \A q : Sequential!Commands(q) = Commands(q)
  /\ \A c, d : Sequential!Precedes(c, d) <=> Precedes(c, d)
  /\ \A c, p : Sequential!Reads(c, p) = Reads(c, p)
  /\ \A c, p : Sequential!Writes(c, p) = Writes(c, p)
<1>1. Sequential!Requests = Requests
  BY SameCells DEF Sequential!Requests, Requests
<1>2. Sequential!FreshMemories = FreshMemories
  BY SameCells DEF Sequential!FreshMemories, FreshMemories
<1>3. Sequential!AllCommands = AllCommands
  BY SameCells, SameOps DEF Sequential!AllCommands, AllCommands
<1>4. \A q : Sequential!Commands(q) = Commands(q)
  BY <1>3 DEF Sequential!Commands, Commands
<1>5. \A c, d : Sequential!Precedes(c, d) <=> Precedes(c, d)
  BY DEF Sequential!Precedes, Precedes
<1>6. \A c, p : Sequential!Reads(c, p) = Reads(c, p)
  BY SameCells, SameOps DEF Sequential!Reads, Reads
<1>7. \A c, p : Sequential!Writes(c, p) = Writes(c, p)
  BY SameCells, SameOps DEF Sequential!Writes, Writes, Sequential!Caches, Caches
<1>8. QED
  BY <1>1, <1>2, <1>3, <1>4, <1>5, <1>6, <1>7

LEMMA EndExecutes ==
  ASSUME IInv, NEW c \in DOMAIN running, End(c)
  PROVE  Sequential!Next
<1>1. phase = "running"
  BY DEF IInv, TypeOK
<1>2. c \in Commands(request) \ ended
  BY <1>1, RunningFacts
<1>3. \A d \in Commands(request) : Precedes(d, c) => d \in ended
  BY <1>1, RunningFacts DEF InGroupOrder, Begun
<1>4. running[c] = [r \in Reads(c, request.position) |-> memory[r]]
  BY <1>1, RunningFacts DEF TakenIsThere
<1>5. Sequential!Execute(c)
  BY <1>3, <1>4, SameTable DEF Sequential!Execute, End
<1>6. QED
  BY <1>1, <1>2, <1>5, SameTable DEF Sequential!Next

LEMMA StepSimulates ==
  IInv /\ [Next]_vars => [Sequential!Next]_Sequential!inOrderVars
<1>1. SUFFICES ASSUME IInv, [Next]_vars PROVE [Sequential!Next]_Sequential!inOrderVars
  OBVIOUS
<1>2. ASSUME NEW q \in Requests, NEW input \in Values, Upload(q, input)
      PROVE  Sequential!Next
  BY <1>2, SameTable, SameCells DEF Upload, Sequential!Next, Sequential!Upload
<1>3. CASE Refuse
  <2>1. ended = {}
    BY <1>1, <1>3 DEF Refuse, IInv, TypeOK
  <2>2. QED
    BY <1>3, <2>1 DEF Refuse, Sequential!Next, Sequential!Fail
<1>4. CASE Submit
  BY <1>4 DEF Submit, Sequential!Next, Sequential!Start
<1>5. CASE ReadBack
  BY <1>5, SameTable, SameCells DEF ReadBack, SubmissionDone, Sequential!Next, Sequential!Finish
<1>6. CASE DeviceLost
  BY <1>6 DEF DeviceLost, Sequential!Next, Sequential!Fail
<1>7. ASSUME NEW c \in Commands(request), Begin(c) PROVE UNCHANGED Sequential!inOrderVars
  BY <1>7 DEF Begin, Sequential!inOrderVars
<1>8. ASSUME NEW c \in DOMAIN running, End(c) PROVE Sequential!Next
  BY <1>1, <1>8, EndExecutes
<1>9. CASE UNCHANGED vars
  BY <1>9 DEF vars, Sequential!inOrderVars
<1>10. CASE ReadFails
  BY <1>10 DEF ReadFails, Sequential!Next, Sequential!Fail
<1>11. QED
  BY <1>1, <1>2, <1>3, <1>4, <1>5, <1>6, <1>7, <1>8, <1>9, <1>10 DEF Next

\* Whatever the number of layers and positions and whatever the commands
\* compute, the GPU's overlapping of them is not seen: a range of layers is its
\* commands carried out in the order of recording.
THEOREM SubmissionImplementsInOrder == Spec => ImplementsInOrder
<1>1. Init => Sequential!Init
  BY SameTable DEF Init, Sequential!Init
<1>2. QED
  BY <1>1, InitIInv, NextIInv, StepSimulates, PTL DEF Spec, ImplementsInOrder, Sequential!Spec

===============================================================================
