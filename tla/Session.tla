-------------------------------- MODULE Session --------------------------------
(***************************************************************************)
(* A run of the CLI: the chat loop of run_cli over InferenceSession, with  *)
(* the conversation it keeps, and each generation token by token.          *)
(*                                                                         *)
(* Text is abstracted to where its tokens come from: the prompt, or the    *)
(* model's prediction after a position.  The row that forward_token writes *)
(* into the KV caches at a position is the token it was given there.       *)
(***************************************************************************)
EXTENDS Integers, Sequences

CONSTANTS
  MaxContext,    \* max_context of the model
  MaxNewTokens,  \* --max-new-tokens
  PromptSizes,   \* numbers of tokens a prompt may encode to
  MaxTurns,      \* bound: messages the user types
  NoRow, Unset   \* a row never written; next before there are logits

ASSUME SizeAssumption ==
  /\ MaxContext \in Nat \ {0}
  /\ MaxNewTokens \in Nat
  /\ PromptSizes \subseteq Nat
  /\ MaxTurns \in Nat \ {0}

Positions == 0 .. MaxContext - 1
Turns == 0 .. MaxTurns
PromptToken(i) == [from |-> "prompt", at |-> i]
Predicted(p) == [from |-> "model", at |-> p]
Eos == [from |-> "eos"]
Tokens == {Predicted(p) : p \in Positions} \cup {PromptToken(p) : p \in Positions}

ASSUME RowAssumption == NoRow \notin [turn : 1 .. MaxTurns, token : Tokens]

Stops == {"eos", "max_new_tokens", "context_limit"}

VARIABLES
  mode,      \* --interactive, one chat turn, or one bare prompt
  phase,     \* where run_cli is
  cause,     \* why it failed
  turn,      \* generations begun
  history,   \* history_
  prompt,    \* number of tokens of the prompt
  position,
  next,      \* the token predicted last
  text,      \* the tokens of result.text
  stop,      \* result.stop_reason
  rows       \* the KV row of each position, in all layers alike

turnVars == <<prompt, position, next, text, stop>>
vars == <<mode, phase, cause, turn, history, turnVars, rows>>

User(t) == [role |-> "user", turn |-> t]
Assistant(t, tokens, why) == [role |-> "assistant", turn |-> t, tokens |-> tokens, stop |-> why]

Init ==
  /\ mode \in {"interactive", "chat", "plain"}
  /\ phase = "ready" /\ cause = "none"
  /\ turn = 0 /\ history = <<>>
  /\ prompt = 0 /\ position = 0 /\ next = Unset /\ text = <<>> /\ stop = "max_new_tokens"
  /\ rows = [p \in Positions |-> NoRow]

-------------------------------------------------------------------------------
(* run_cli *)

\* Wrong on purpose: an exception is caught within the loop.
FailedAgain == "ready"

\* The exception leaves the loop and ends the process.
Failed == "failed"

Fail(why) == phase' = Failed /\ cause' = why

\* /reset
ResetConversation ==
  /\ phase = "ready" /\ mode = "interactive"
  /\ history' = <<>>
  /\ UNCHANGED <<mode, phase, cause, turn, turnVars, rows>>

\* /exit or the end of the input; the other modes end after their generation.
Leave ==
  /\ phase = "ready"
  /\ mode = "interactive" \/ turn = 1
  /\ phase' = "exited"
  /\ UNCHANGED <<mode, cause, turn, history, turnVars, rows>>

\* Wrong on purpose: only the prompt has to fit.
FitsPrompt(size) == size < MaxContext

\* The prompt and all tokens to generate fit the context.
Fits(size) == size + MaxNewTokens < MaxContext

\* Wrong on purpose: go on where the last turn ended.
LastPosition == IF position < MaxContext THEN position ELSE 0

FirstPosition == 0

\* A message: it joins the history, the history becomes the prompt, and the
\* prompt is refused if it is empty or does not fit.
Begin ==
  /\ phase = "ready"
  /\ turn < (IF mode = "interactive" THEN MaxTurns ELSE 1)
  /\ turn' = turn + 1
  /\ history' = IF mode = "plain" THEN history ELSE Append(history, User(turn + 1))
  /\ \E size \in PromptSizes :
       /\ prompt' = size
       /\ \/ size > 0 /\ Fits(size) /\ phase' = "prefill" /\ UNCHANGED cause
          \/ size = 0 /\ Fail("empty")
          \/ size > 0 /\ ~Fits(size) /\ Fail("context")
  /\ position' = FirstPosition
  /\ next' = Unset
  /\ text' = <<>>
  /\ stop' = "max_new_tokens"
  /\ UNCHANGED <<mode, rows>>

-------------------------------------------------------------------------------
(* generate_from_prompt_text *)

\* forward_token at the position under way; only with logits is there a
\* prediction.
ForwardToken(token, logits) ==
  /\ position < MaxContext
  /\ rows' = [rows EXCEPT ![position] = [turn |-> turn, token |-> token]]
  /\ position' = position + 1
  /\ next' \in IF logits THEN {Predicted(position), Eos} ELSE {Unset}

Prefill ==
  /\ phase = "prefill"
  /\ ForwardToken(PromptToken(position), position = prompt - 1)
  /\ phase' = IF position' = prompt THEN "generate" ELSE "prefill"
  /\ UNCHANGED <<mode, cause, turn, history, prompt, text, stop>>

Exhausted == Len(text) = MaxNewTokens

\* Wrong on purpose: the piece is decoded after the next prediction.
PieceLate == next'

\* The token decoded and shown is the one predicted before.
Piece == next

Emit ==
  /\ phase = "generate"
  /\ ~Exhausted /\ next # Eos
  /\ ForwardToken(next, TRUE)
  /\ text' = Append(text, Piece)
  /\ IF position' >= MaxContext
       THEN stop' = "context_limit" /\ phase' = "over"
       ELSE UNCHANGED <<stop, phase>>
  /\ UNCHANGED <<mode, cause, turn, history, prompt>>

StopGenerating ==
  /\ phase = "generate"
  /\ \/ Exhausted /\ UNCHANGED stop
     \/ ~Exhausted /\ next = Eos /\ stop' = "eos"
  /\ phase' = "over"
  /\ UNCHANGED <<mode, cause, turn, history, prompt, position, next, text, rows>>

\* Synchronized; the reply joins the history.
Finish ==
  /\ phase = "over"
  /\ history' = IF mode = "plain" THEN history
                ELSE Append(history, Assistant(turn, Len(text), stop))
  /\ phase' = "ready"
  /\ UNCHANGED <<mode, cause, turn, turnVars, rows>>

\* A CUDA error, the phone, a token outside the vocabulary: forward_token or
\* synchronize throws, having written the row or not.
Fault ==
  /\ phase \in {"prefill", "generate", "over"}
  /\ Fail("fault")
  /\ UNCHANGED <<mode, turn, history, turnVars, rows>>

-------------------------------------------------------------------------------
Generate == Prefill \/ Emit \/ StopGenerating \/ Finish

Next == ResetConversation \/ Leave \/ Begin \/ Generate \/ Fault

Spec == Init /\ [][Next]_vars

\* The program runs on; the user need not type, and nothing has to fail.
FairSpec == Spec /\ WF_vars(Generate)

-------------------------------------------------------------------------------
Messages ==
  {User(t) : t \in 1 .. MaxTurns}
    \cup {Assistant(t, n, why) : t \in 1 .. MaxTurns, n \in 0 .. MaxNewTokens, why \in Stops}

TypeOK ==
  /\ mode \in {"interactive", "chat", "plain"}
  /\ phase \in {"ready", "prefill", "generate", "over", "exited", "failed"}
  /\ cause \in {"none", "empty", "context", "fault"}
  /\ turn \in Turns
  /\ history \in Seq(Messages)
  /\ prompt \in PromptSizes \cup {0}
  /\ position \in 0 .. MaxContext
  /\ next \in Tokens \cup {Eos, Unset}
  /\ text \in Seq(Tokens) /\ Len(text) <= MaxNewTokens
  /\ stop \in Stops
  /\ rows \in [Positions -> [turn : 1 .. MaxTurns, token : Tokens] \cup {NoRow}]

\* While tokens are made there is room for all that may still come, so that
\* forward_token never refuses a position and no turn is cut short.
RoomForTheRest ==
  /\ phase = "prefill" => position < prompt /\ prompt + MaxNewTokens < MaxContext
  /\ phase = "generate" => position + (MaxNewTokens - Len(text)) < MaxContext

\* What attention reads are rows of this very turn, whatever earlier turns left
\* in the caches: the prompt in order, then each token at the position after
\* the one it was predicted from.
RowsOfThisTurn ==
  phase \in {"prefill", "generate", "over"} =>
    \A p \in Positions : p < position =>
      /\ rows[p] # NoRow
      /\ rows[p].turn = turn
      /\ rows[p].token = IF p < prompt THEN PromptToken(p) ELSE Predicted(p - 1)

\* The reply shown is what the model was fed: its tokens are those in the rows
\* after the prompt, none left out and none twice.
ReplyIsFed ==
  phase \in {"generate", "over"} =>
    /\ position = prompt + Len(text)
    /\ \A i \in 1 .. Len(text) : text[i] = rows[prompt + i - 1].token

\* The history pairs each message with its whole reply, in the order of the
\* turns; at most the message of the turn under way has none yet.
HistoryPaired ==
  /\ \A i \in 1 .. Len(history) :
       IF i % 2 = 1
         THEN history[i].role = "user"
         ELSE /\ history[i].role = "assistant"
              /\ history[i].turn = history[i - 1].turn
              /\ history[i].stop = "eos" \/ history[i].tokens = MaxNewTokens
  /\ \A i, j \in 1 .. Len(history) : i < j => history[i].turn <= history[j].turn
  /\ phase = "ready" => Len(history) % 2 = 0

\* Each turn comes to an end: generate_from_prompt_text returns or throws.
TurnsEnd == phase = "prefill" ~> phase \in {"ready", "failed"}

===============================================================================
