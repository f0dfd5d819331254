------------------------------- MODULE Loading -------------------------------
(***************************************************************************)
(* InferenceSession::load_model and what a session does with the tokenizer *)
(* afterwards: the file is read, the tokenizer takes its tables from it,   *)
(* the model is configured and its weights are read; then texts are        *)
(* encoded, as they are or in the chat template, and the ids decoded.      *)
(***************************************************************************)
EXTENDS ModelFile, Tokenizer

CONSTANTS
  Texts(_),  \* the texts encoded with a file's tokenizer
  Chats(_)   \* and the conversations: sequences of [role, content]

\* Strings are bytes.
ASSUME LoadingAssumption ==
  \A f \in Files :
    /\ \A i \in DOMAIN f.entries : f.entries[i].type = "strings" => f.entries[i].value \in Seq(Seq(Byte))
    /\ Texts(f) \subseteq Seq(Byte)
    /\ \A m \in Chats(f) : ChatTemplate(m) \in Seq(Byte)

vars == <<fileVars, tokenizerVars>>

AddBosKey == <<"tokenizer", "add_bos_token">>
BosKey == <<"tokenizer", "bos_token_id">>
UnknownKey == <<"tokenizer", "unknown_token_id">>
DefaultBos == 151643

GetBool(key, fallback) ==
  IF Has(key) /\ metadata[key].type = "bool" THEN metadata[key].value ELSE fallback

\* The cast to int32_t of an id in the file.
ToInt32(n) == IF n % Word < Word \div 2 THEN n % Word ELSE (n % Word) - Word

\* bos_id_ where add_bos_token_ holds; a negative one is not put before a text.
FirstToken ==
  IF GetBool(AddBosKey, FALSE) THEN ToInt32(GetU64(BosKey, DefaultBos)) ELSE -1

\* unk_id_
UnknownToken == ToInt32(GetU64(UnknownKey, 0))

Init == FileInit /\ TokenizerInit

ReadFile == (ReadEntry \/ ReadInfo \/ RefuseFile \/ Place) /\ UNCHANGED tokenizerVars

ReadTokenizer ==
  /\ phase = "read"
  /\ LoadTokenizer(GetStrings(TokensKey), GetStrings(MergesKey), FirstToken, UnknownToken)
  /\ UNCHANGED fileVars

RefuseTokenizer ==
  /\ phase = "read" /\ step = "unloaded" /\ GetStrings(TokensKey) = <<>>
  /\ Refuse /\ UNCHANGED tokenizerVars

LoadModel ==
  /\ step # "unloaded"
  /\ Configure \/ RefuseConfig \/ LoadGlobals \/ LoadLayer \/ RefuseWeights
  /\ UNCHANGED tokenizerVars

Ask ==
  /\ phase = "loaded"
  /\ \E t \in Texts(file) \cup {ChatTemplate(m) : m \in Chats(file)} : StartEncode(t)
  /\ UNCHANGED fileVars

Answer == TokenizerStep /\ UNCHANGED fileVars

Next == ReadFile \/ ReadTokenizer \/ RefuseTokenizer \/ LoadModel \/ Ask \/ Answer

Spec == Init /\ [][Next]_vars
===============================================================================
