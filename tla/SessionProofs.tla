----------------------------- MODULE SessionProofs -----------------------------
(***************************************************************************)
(* Proofs about generations of tokens, for every context length, number of *)
(* new tokens, size of prompts and number of turns.                        *)
(***************************************************************************)
EXTENDS TLAPS, Session

USE SizeAssumption

Making == {"prefill", "generate", "over"}

\* What the phases that make tokens say of their counters.
Counters ==
  /\ phase \in Making => prompt > 0 /\ turn > 0 /\ prompt <= MaxContext
  /\ phase = "prefill" => next = Unset /\ text = <<>> /\ stop = "max_new_tokens"
  /\ phase \in {"generate", "over"} =>
       position > 0 /\ next \in {Predicted(position - 1), Eos}
  /\ phase = "generate" => stop = "max_new_tokens"
  /\ phase = "over" => stop = "eos" \/ Len(text) = MaxNewTokens

\* The history during a turn: all of it is of turns begun, and it ends with
\* the message of the turn under way.
HistoryInv ==
  /\ \A i \in 1 .. Len(history) : history[i].turn <= turn
  /\ mode = "plain" => history = <<>>
  /\ phase \in Making /\ mode # "plain" =>
       Len(history) % 2 = 1 /\ history[Len(history)] = User(turn)

Rows == RoomForTheRest /\ RowsOfThisTurn /\ ReplyIsFed

IInv == TypeOK /\ Counters /\ Rows /\ HistoryInv /\ HistoryPaired

-------------------------------------------------------------------------------
\* An element of a sequence with one more at its end.
LEMMA Appending ==
  ASSUME NEW S, NEW s \in Seq(S), NEW e \in S
  PROVE  /\ Append(s, e) \in Seq(S)
         /\ Len(Append(s, e)) = Len(s) + 1
         /\ \A i \in 1 .. Len(s) : Append(s, e)[i] = s[i]
         /\ Append(s, e)[Len(s) + 1] = e
OBVIOUS

\* Odd and even lengths alternate.
LEMMA Alternation ==
  ASSUME NEW n \in Nat
  PROVE  /\ n % 2 \in {0, 1}
         /\ n % 2 = 0 => (n + 1) % 2 = 1
         /\ n % 2 = 1 => (n + 1) % 2 = 0
OBVIOUS

\* What an element of a paired history is: each reply follows its message.
Pair(h, i) ==
  IF i % 2 = 1 THEN h[i].role = "user"
  ELSE /\ h[i].role = "assistant"
       /\ h[i].turn = h[i - 1].turn
       /\ h[i].stop = "eos" \/ h[i].tokens = MaxNewTokens

LEMMA Paired ==
  HistoryPaired <=>
    /\ \A i \in 1 .. Len(history) : Pair(history, i)
    /\ \A i, j \in 1 .. Len(history) : i < j => history[i].turn <= history[j].turn
    /\ phase = "ready" => Len(history) % 2 = 0
BY DEF HistoryPaired, Pair

\* One more element keeps pairs and order if it continues them.
LEMMA Growing ==
  ASSUME NEW h, NEW g, NEW t \in Int, NEW n \in Nat, n = Len(h),
         \A i \in 1 .. n : Pair(h, i) /\ h[i].turn \in Int /\ h[i].turn <= t,
         \A i, j \in 1 .. n : i < j => h[i].turn <= h[j].turn,
         Len(g) = n + 1, \A i \in 1 .. n : g[i] = h[i],
         g[n + 1].turn = t, Pair(g, n + 1)
  PROVE  /\ \A i \in 1 .. Len(g) : Pair(g, i)
         /\ \A i, j \in 1 .. Len(g) : i < j => g[i].turn <= g[j].turn
<1>1. \A i \in 1 .. Len(g) : i \in 1 .. n \/ i = n + 1
  OBVIOUS
<1>2. ASSUME NEW i \in 1 .. n PROVE Pair(g, i)
  <2>1. g[i] = h[i] /\ Pair(h, i) /\ i \in Int
    BY <1>2
  <2>2. i = 1 \/ i - 1 \in 1 .. n
    BY <1>2
  <2>3. CASE i = 1
    BY <2>1, <2>3 DEF Pair
  <2>4. CASE i - 1 \in 1 .. n
    <3>1. g[i - 1] = h[i - 1]
      BY <2>4
    <3> QED BY <2>1, <3>1 DEF Pair
  <2> QED BY <2>2, <2>3, <2>4
<1>3. ASSUME NEW i \in 1 .. Len(g), NEW j \in 1 .. Len(g), i < j
      PROVE  g[i].turn <= g[j].turn
  <2>1. i \in 1 .. n
    BY <1>3
  <2>2. CASE j = n + 1
    BY <2>1, <2>2
  <2>3. CASE j \in 1 .. n
    BY <1>3, <2>1, <2>3
  <2> QED BY <1>1, <2>2, <2>3
<1> QED BY <1>1, <1>2, <1>3

\* The session starts in the invariant.
LEMMA InitInvariant == Init => IInv
<1> SUFFICES ASSUME Init PROVE IInv
  OBVIOUS
<1> USE DEF Init
<1>1. TypeOK
  BY DEF TypeOK, Turns, Stops, Positions
<1>2. Counters /\ Rows
  BY DEF Counters, Rows, RoomForTheRest, RowsOfThisTurn, ReplyIsFed, Making
<1>3. HistoryInv /\ HistoryPaired
  BY DEF HistoryInv, HistoryPaired, Making
<1> QED BY <1>1, <1>2, <1>3 DEF IInv

\* A step that leaves the history and its turn alone and makes no tokens.
LEMMA Still ==
  ASSUME IInv, UNCHANGED <<mode, history, turn, turnVars, rows>>,
         phase' \in {"exited", "failed"}, cause' \in {"none", "empty", "context", "fault"}
  PROVE  IInv'
<1>1. TypeOK'
  BY DEF IInv, TypeOK, turnVars
<1>2. Counters' /\ Rows'
  BY DEF Counters, Rows, RoomForTheRest, RowsOfThisTurn, ReplyIsFed, Making
<1>3. HistoryInv' /\ HistoryPaired'
  BY DEF IInv, HistoryInv, HistoryPaired, Making
<1> QED BY <1>1, <1>2, <1>3 DEF IInv

LEMMA ResetKeeps == ASSUME IInv, ResetConversation PROVE IInv'
<1> USE DEF ResetConversation
<1>1. TypeOK'
  BY DEF IInv, TypeOK, turnVars
<1>2. Counters' /\ Rows'
  BY DEF Counters, Rows, RoomForTheRest, RowsOfThisTurn, ReplyIsFed, Making
<1>3. HistoryInv' /\ HistoryPaired'
  BY DEF IInv, HistoryInv, HistoryPaired, Making
<1> QED BY <1>1, <1>2, <1>3 DEF IInv

\* A new message, its prompt accepted or not.
LEMMA BeginKeeps == ASSUME IInv, Begin PROVE IInv'
<1>0. /\ phase = "ready" /\ turn \in Turns /\ turn < MaxTurns
      /\ turn' = turn + 1 /\ turn + 1 \in 1 .. MaxTurns
      /\ history' = IF mode = "plain" THEN history ELSE Append(history, User(turn + 1))
      /\ position' = 0 /\ next' = Unset /\ text' = <<>> /\ stop' = "max_new_tokens"
      /\ UNCHANGED <<mode, rows>>
  <2>1. phase = "ready" /\ turn \in Turns /\ turn < MaxTurns
    BY DEF IInv, TypeOK, Begin, Turns
  <2> QED BY <2>1 DEF Begin, Turns, FirstPosition
<1>1. PICK size \in PromptSizes :
        /\ prompt' = size
        /\ \/ size > 0 /\ Fits(size) /\ phase' = "prefill" /\ cause' = cause
           \/ phase' = "failed" /\ cause' \in {"empty", "context"}
  BY DEF Begin, Fail, Failed
<1>2. history' \in Seq(Messages)
  <2>1. User(turn + 1) \in Messages
    BY <1>0 DEF Messages
  <2> QED BY <1>0, <2>1, Appending DEF IInv, TypeOK
<1>3. TypeOK'
  BY <1>0, <1>1, <1>2 DEF IInv, TypeOK, Turns, Stops
<1>4. Counters' /\ Rows'
  BY <1>0, <1>1 DEF Counters, Rows, RoomForTheRest, RowsOfThisTurn, ReplyIsFed, Making,
                    Fits, Positions
<1>5. HistoryInv' /\ HistoryPaired'
  <2>1. CASE mode = "plain"
    BY <1>0, <1>1, <2>1 DEF IInv, HistoryInv, HistoryPaired, Making
  <2>2. CASE mode # "plain"
    <3>1. /\ history \in Seq(Messages) /\ User(turn + 1) \in Messages
          /\ Len(history) \in Nat /\ Len(history) % 2 = 0
      <4>1. history \in Seq(Messages) /\ Len(history) % 2 = 0
        BY <1>0 DEF IInv, TypeOK, HistoryPaired
      <4>2. User(turn + 1) \in Messages
        BY <1>0 DEF Messages
      <4> QED BY <4>1, <4>2
    <3>2. /\ Len(history') = Len(history) + 1
          /\ \A i \in 1 .. Len(history) : history'[i] = history[i]
          /\ history'[Len(history) + 1] = User(turn + 1)
      BY <1>0, <2>2, <3>1, Appending
    <3>3. (Len(history) + 1) % 2 = 1
      BY <3>1, Alternation
    <3>4. \A i \in 1 .. Len(history) : history[i].turn \in Int /\ history[i].turn <= turn
      BY <3>1, <1>0 DEF IInv, HistoryInv, Messages, User, Assistant
    <3>5. User(turn + 1).turn = turn + 1 /\ User(turn + 1).role = "user"
      BY DEF User
    <3>6. HistoryInv'
      BY <1>0, <2>2, <3>1, <3>2, <3>3, <3>4, <3>5 DEF HistoryInv, Turns
    <3>7. HistoryPaired'
      <4>1. phase' # "ready"
        BY <1>1
      <4>2. /\ \A i \in 1 .. Len(history) : Pair(history, i)
            /\ \A i, j \in 1 .. Len(history) : i < j => history[i].turn <= history[j].turn
        BY Paired DEF IInv
      <4>3. \A i \in 1 .. Len(history) : history[i].turn \in Int /\ history[i].turn <= turn + 1
        BY <1>0, <3>4 DEF Turns
      <4>4. Pair(history', Len(history) + 1) /\ history'[Len(history) + 1].turn = turn + 1
        BY <3>2, <3>3, <3>5 DEF Pair
      <4>5. turn + 1 \in Int
        BY <1>0
      <4>6. /\ \A i \in 1 .. Len(history') : Pair(history', i)
            /\ \A i, j \in 1 .. Len(history') : i < j => history'[i].turn <= history'[j].turn
        BY <3>1, <3>2, <4>2, <4>3, <4>4, <4>5, Growing
      <4> QED BY <4>1, <4>6 DEF HistoryPaired, Pair
    <3> QED BY <3>6, <3>7
  <2> QED BY <2>1, <2>2
<1> QED BY <1>3, <1>4, <1>5 DEF IInv

-------------------------------------------------------------------------------
\* A row written at the position under way, by Prefill and Emit.
LEMMA Written ==
  ASSUME TypeOK, NEW token \in Tokens, turn > 0, position < MaxContext,
         rows' = [rows EXCEPT ![position] = [turn |-> turn, token |-> token]]
  PROVE  /\ position \in Positions
         /\ rows' \in [Positions -> [turn : 1 .. MaxTurns, token : Tokens] \cup {NoRow}]
         /\ rows'[position] = [turn |-> turn, token |-> token] /\ rows'[position] # NoRow
         /\ \A p \in Positions : p # position => rows'[p] = rows[p]
<1>1. position \in Positions
  BY DEF TypeOK, Positions
<1>2. [turn |-> turn, token |-> token] \in [turn : 1 .. MaxTurns, token : Tokens]
  BY DEF TypeOK, Turns
<1> QED BY <1>1, <1>2, RowAssumption DEF TypeOK

\* The history while tokens are made.
LEMMA SameHistory ==
  ASSUME IInv, phase \in Making, phase' \in Making, UNCHANGED <<mode, turn, history>>
  PROVE  HistoryInv' /\ HistoryPaired'
BY DEF IInv, HistoryInv, HistoryPaired, Making

LEMMA PrefillKeeps == ASSUME IInv, Prefill PROVE IInv'
<1>0. /\ TypeOK /\ phase = "prefill" /\ phase \in Making /\ prompt > 0 /\ turn > 0
      /\ next = Unset /\ text = <<>> /\ stop = "max_new_tokens"
      /\ position < prompt /\ prompt + MaxNewTokens < MaxContext
      /\ prompt \in Nat /\ position \in Nat /\ position < MaxContext
  BY DEF IInv, TypeOK, Counters, Rows, RoomForTheRest, Prefill, Making
<1>1. /\ rows' = [rows EXCEPT ![position] = [turn |-> turn, token |-> PromptToken(position)]]
      /\ position' = position + 1
      /\ next' \in IF position = prompt - 1 THEN {Predicted(position), Eos} ELSE {Unset}
      /\ phase' = IF position' = prompt THEN "generate" ELSE "prefill"
      /\ UNCHANGED <<mode, cause, turn, history, prompt, text, stop>>
  BY DEF Prefill, ForwardToken
<1>2. position \in Positions /\ PromptToken(position) \in Tokens /\ Predicted(position) \in Tokens
  BY <1>0 DEF Positions, Tokens
<1>3. /\ rows' \in [Positions -> [turn : 1 .. MaxTurns, token : Tokens] \cup {NoRow}]
      /\ rows'[position] = [turn |-> turn, token |-> PromptToken(position)]
      /\ rows'[position] # NoRow
      /\ \A p \in Positions : p # position => rows'[p] = rows[p]
  BY <1>0, <1>1, <1>2, Written
<1>4. TypeOK'
  BY <1>0, <1>1, <1>2, <1>3 DEF TypeOK
<1>5. Counters'
  BY <1>0, <1>1 DEF IInv, Counters, Making
<1>6. RoomForTheRest'
  BY <1>0, <1>1 DEF RoomForTheRest
<1>7. RowsOfThisTurn'
  <2> SUFFICES ASSUME NEW p \in Positions, p < position + 1
               PROVE  /\ rows'[p] # NoRow /\ rows'[p].turn = turn
                      /\ rows'[p].token = PromptToken(p)
    BY <1>0, <1>1 DEF RowsOfThisTurn, Positions
  <2>1. CASE p = position
    BY <1>3, <2>1
  <2>2. CASE p < position
    BY <1>0, <1>3, <2>2 DEF IInv, Rows, RowsOfThisTurn, Positions
  <2> QED BY <1>0, <2>1, <2>2 DEF Positions
<1>8. ReplyIsFed'
  BY <1>0, <1>1 DEF ReplyIsFed
<1>9. HistoryInv' /\ HistoryPaired'
  BY <1>0, <1>1, SameHistory DEF Making
<1> QED BY <1>4, <1>5, <1>6, <1>7, <1>8, <1>9 DEF IInv, Rows

LEMMA EmitKeeps == ASSUME IInv, Emit PROVE IInv'
<1>0. /\ TypeOK /\ phase = "generate" /\ phase \in Making /\ prompt > 0 /\ turn > 0
      /\ next = Predicted(position - 1) /\ stop = "max_new_tokens"
      /\ position = prompt + Len(text) /\ position > 0
      /\ prompt \in Nat /\ position \in Nat /\ Len(text) \in Nat
      /\ text \in Seq(Tokens) /\ Len(text) # MaxNewTokens /\ Len(text) <= MaxNewTokens
  BY DEF IInv, TypeOK, Counters, Rows, ReplyIsFed, Emit, Exhausted, Making
<1>1. /\ position + (MaxNewTokens - Len(text)) < MaxContext
      /\ position + 1 < MaxContext /\ position < MaxContext
  BY <1>0 DEF IInv, Rows, RoomForTheRest
<1>2. /\ rows' = [rows EXCEPT ![position] = [turn |-> turn, token |-> next]]
      /\ position' = position + 1
      /\ next' \in {Predicted(position), Eos}
      /\ text' = Append(text, next)
      /\ UNCHANGED <<mode, cause, turn, history, prompt, stop, phase>>
  BY <1>0, <1>1 DEF Emit, ForwardToken, Piece
<1>3. next \in Tokens /\ Predicted(position) \in Tokens
  <2>1. position - 1 \in Positions /\ position \in Positions
    BY <1>0, <1>1 DEF Positions
  <2> QED BY <1>0, <2>1 DEF Tokens
<1>4. /\ rows' \in [Positions -> [turn : 1 .. MaxTurns, token : Tokens] \cup {NoRow}]
      /\ rows'[position] = [turn |-> turn, token |-> next]
      /\ rows'[position] # NoRow
      /\ \A p \in Positions : p # position => rows'[p] = rows[p]
  <2>1. turn > 0 /\ position < MaxContext /\ next \in Tokens /\ TypeOK
    BY <1>0, <1>1, <1>3
  <2>2. rows' = [rows EXCEPT ![position] = [turn |-> turn, token |-> next]]
    BY <1>2
  <2> QED BY <2>1, <2>2, Written
<1>5. /\ text' \in Seq(Tokens) /\ Len(text') = Len(text) + 1
      /\ \A i \in 1 .. Len(text) : text'[i] = text[i]
      /\ text'[Len(text) + 1] = next
  BY <1>0, <1>2, <1>3, Appending
<1>6. TypeOK'
  BY <1>0, <1>1, <1>2, <1>3, <1>4, <1>5 DEF TypeOK
<1>7. Counters'
  BY <1>0, <1>2 DEF IInv, Counters, Making
<1>8. RoomForTheRest'
  BY <1>0, <1>1, <1>2, <1>5 DEF RoomForTheRest
<1>9. RowsOfThisTurn'
  <2> SUFFICES ASSUME NEW p \in Positions, p < position + 1
               PROVE  /\ rows'[p] # NoRow /\ rows'[p].turn = turn
                      /\ rows'[p].token = IF p < prompt THEN PromptToken(p) ELSE Predicted(p - 1)
    BY <1>0, <1>2 DEF RowsOfThisTurn, Positions
  <2>1. CASE p = position
    BY <1>0, <1>4, <2>1
  <2>2. CASE p < position
    BY <1>0, <1>4, <2>2 DEF IInv, Rows, RowsOfThisTurn, Positions
  <2> QED BY <1>0, <2>1, <2>2 DEF Positions
<1>10. ReplyIsFed'
  <2> SUFFICES ASSUME NEW i \in 1 .. Len(text) + 1
               PROVE  text'[i] = rows'[prompt + i - 1].token
    BY <1>0, <1>2, <1>5 DEF ReplyIsFed
  <2>1. CASE i = Len(text) + 1
    BY <1>0, <1>4, <1>5, <2>1
  <2>2. CASE i \in 1 .. Len(text)
    <3>1. prompt + i - 1 \in Positions /\ prompt + i - 1 # position
      BY <1>0, <1>1, <2>2 DEF Positions
    <3>2. text[i] = rows[prompt + i - 1].token
      BY <1>0, <2>2 DEF IInv, Rows, ReplyIsFed
    <3> QED BY <1>4, <1>5, <2>2, <3>1, <3>2
  <2> QED BY <1>0, <2>1, <2>2
<1>11. HistoryInv' /\ HistoryPaired'
  BY <1>0, <1>2, SameHistory
<1> QED BY <1>6, <1>7, <1>8, <1>9, <1>10, <1>11 DEF IInv, Rows

LEMMA StopKeeps == ASSUME IInv, StopGenerating PROVE IInv'
<1>0. /\ phase = "generate" /\ phase' = "over"
      /\ stop' \in {stop, "eos"} /\ (stop' = "eos" \/ Len(text) = MaxNewTokens)
      /\ UNCHANGED <<mode, cause, turn, history, prompt, position, next, text, rows>>
  BY DEF StopGenerating, Exhausted
<1>1. TypeOK'
  BY <1>0 DEF IInv, TypeOK, Stops
<1>2. Counters' /\ Rows'
  BY <1>0 DEF IInv, Counters, Rows, RoomForTheRest, RowsOfThisTurn, ReplyIsFed, Making
<1>3. HistoryInv' /\ HistoryPaired'
  BY <1>0, SameHistory DEF Making
<1> QED BY <1>1, <1>2, <1>3 DEF IInv

\* The reply joins its message.
LEMMA FinishKeeps == ASSUME IInv, Finish PROVE IInv'
<1>0. /\ TypeOK /\ phase = "over" /\ phase \in Making /\ phase' = "ready" /\ turn > 0
      /\ turn \in 1 .. MaxTurns /\ Len(text) \in 0 .. MaxNewTokens /\ stop \in Stops
      /\ stop = "eos" \/ Len(text) = MaxNewTokens
      /\ history' = IF mode = "plain" THEN history
                    ELSE Append(history, Assistant(turn, Len(text), stop))
      /\ UNCHANGED <<mode, cause, turn, turnVars, rows>>
  BY DEF IInv, TypeOK, Counters, Finish, Making, Turns
<1>1. Assistant(turn, Len(text), stop) \in Messages
  BY <1>0 DEF Messages
<1>2. history' \in Seq(Messages)
  BY <1>0, <1>1, Appending DEF TypeOK
<1>3. TypeOK'
  BY <1>0, <1>2 DEF TypeOK, turnVars
<1>4. Counters' /\ Rows'
  BY <1>0 DEF Counters, Rows, RoomForTheRest, RowsOfThisTurn, ReplyIsFed, Making
<1>5. CASE mode = "plain"
  <2>1. history = <<>> /\ history' = <<>>
    BY <1>0, <1>5 DEF IInv, HistoryInv
  <2>2. HistoryInv' /\ HistoryPaired'
    BY <1>0, <1>5, <2>1 DEF HistoryInv, HistoryPaired, Making
  <2> QED BY <1>3, <1>4, <2>2 DEF IInv
<1>6. CASE mode # "plain"
  <2>1. /\ history \in Seq(Messages) /\ Len(history) \in Nat /\ Len(history) % 2 = 1
        /\ history[Len(history)] = User(turn)
    BY <1>0, <1>6 DEF IInv, TypeOK, HistoryInv
  <2>2. /\ Len(history') = Len(history) + 1
        /\ \A i \in 1 .. Len(history) : history'[i] = history[i]
        /\ history'[Len(history) + 1] = Assistant(turn, Len(text), stop)
    BY <1>0, <1>1, <1>6, <2>1, Appending
  <2>3. (Len(history) + 1) % 2 = 0 /\ Len(history) > 0
    BY <2>1, Alternation
  <2>4. \A i \in 1 .. Len(history) : history[i].turn \in Int /\ history[i].turn <= turn
    <3>1. \A m \in Messages : m.turn \in Int
      BY DEF Messages, User, Assistant
    <3>2. \A i \in 1 .. Len(history) : history[i] \in Messages /\ history[i].turn <= turn
      BY <2>1 DEF IInv, HistoryInv
    <3> QED BY <3>1, <3>2
  <2>5. /\ \A i \in 1 .. Len(history) : Pair(history, i)
        /\ \A i, j \in 1 .. Len(history) : i < j => history[i].turn <= history[j].turn
    BY Paired DEF IInv
  <2>6. Pair(history', Len(history) + 1) /\ history'[Len(history) + 1].turn = turn
    <3>1. Len(history) + 1 - 1 = Len(history) /\ history'[Len(history)] = User(turn)
      BY <2>1, <2>2, <2>3
    <3>2. /\ User(turn).turn = turn
          /\ Assistant(turn, Len(text), stop).role = "assistant"
          /\ Assistant(turn, Len(text), stop).turn = turn
          /\ Assistant(turn, Len(text), stop).tokens = Len(text)
          /\ Assistant(turn, Len(text), stop).stop = stop
      BY DEF User, Assistant
    <3>3. (Len(history) + 1) % 2 # 1 /\ (stop = "eos" \/ Len(text) = MaxNewTokens)
      BY <1>0, <2>3
    <3> QED BY <2>2, <3>1, <3>2, <3>3 DEF Pair
  <2>7. /\ \A i \in 1 .. Len(history') : Pair(history', i)
        /\ \A i, j \in 1 .. Len(history') : i < j => history'[i].turn <= history'[j].turn
    <3>1. turn \in Int /\ Len(history) \in Nat
      BY <1>0, <2>1
    <3>2. \A i \in 1 .. Len(history) :
            Pair(history, i) /\ history[i].turn \in Int /\ history[i].turn <= turn
      BY <2>4, <2>5
    <3>3. \A i, j \in 1 .. Len(history) : i < j => history[i].turn <= history[j].turn
      BY <2>5
    <3> QED BY <2>2, <2>6, <3>1, <3>2, <3>3, Growing
  <2>8. HistoryPaired'
    BY <2>2, <2>3, <2>7 DEF HistoryPaired, Pair
  <2>9. HistoryInv'
    <3>1. \A i \in 1 .. Len(history) + 1 : history'[i].turn <= turn
      BY <1>0, <2>1, <2>2, <2>4, <2>6
    <3> QED BY <1>0, <1>6, <2>2, <3>1 DEF HistoryInv, Making
  <2> QED BY <1>3, <1>4, <2>8, <2>9 DEF IInv
<1> QED BY <1>5, <1>6

LEMMA Inductive == ASSUME IInv, [Next]_vars PROVE IInv'
<1>1. CASE UNCHANGED vars
  BY <1>1 DEF IInv, TypeOK, Counters, Rows, RoomForTheRest, RowsOfThisTurn, ReplyIsFed,
              HistoryInv, HistoryPaired, Making, vars, turnVars
<1>2. CASE Leave
  BY <1>2, Still DEF Leave, IInv, TypeOK
<1>3. CASE Fault
  BY <1>3, Still DEF Fault, Fail, Failed
<1> QED BY <1>1, <1>2, <1>3, ResetKeeps, BeginKeeps, PrefillKeeps, EmitKeeps, StopKeeps,
           FinishKeeps DEF Next, Generate

LEMMA Invariance == Spec => []IInv
<1> QED BY InitInvariant, Inductive, PTL DEF Spec

-------------------------------------------------------------------------------
\* The session's variables keep their types: no generation makes more tokens
\* than max_new_tokens, no row is written beyond the context.
THEOREM TypeCorrect == Spec => []TypeOK
<1> QED BY Invariance, PTL DEF IInv

\* The one check before a generation leaves room for all of its tokens, so that
\* forward_token never refuses a position.
THEOREM AlwaysRoomForTheRest == Spec => []RoomForTheRest
<1> QED BY Invariance, PTL DEF IInv, Rows

\* Attention reads rows of this turn only, in order, whatever earlier turns
\* left in the caches.
THEOREM RowsAreOfThisTurn == Spec => []RowsOfThisTurn
<1> QED BY Invariance, PTL DEF IInv, Rows

\* The reply consists of the tokens fed back to the model.
THEOREM RepliesAreFed == Spec => []ReplyIsFed
<1> QED BY Invariance, PTL DEF IInv, Rows

\* Messages and whole replies alternate in the history, in the order of turns.
THEOREM HistoryIsPaired == Spec => []HistoryPaired
<1> QED BY Invariance, PTL DEF IInv

===============================================================================
