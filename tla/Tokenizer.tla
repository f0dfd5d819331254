------------------------------ MODULE Tokenizer ------------------------------
(***************************************************************************)
(* Byte-level BPE: a text becomes pieces, byte by byte but for special     *)
(* tokens, neighbours are merged by the rule of lowest rank until none     *)
(* applies, and the pieces become ids; ids become text again.  A string is *)
(* the sequence of its bytes.                                              *)
(***************************************************************************)
EXTENDS Integers, Sequences, FiniteSets, SequencesExt

CONSTANTS
  Specials,   \* the special tokens, in the order they are looked for
  NoString

VARIABLES
  tokens,   \* vocab_: token id, from 0 on, less 1 -> string
  rules,    \* merges_: key -> [left, right, rank]
  bos,      \* the token put before a text, negative when there is none
  unk,      \* the id of pieces that the vocabulary does not have
  step,     \* "unloaded", "idle", "splitting", "merging" or "decoding"
  text,     \* the text at work
  cursor,   \* bytes of it split, later ids decoded
  pieces,
  ids,
  shown     \* what the ids so far decode to

tokenizerVars == <<tokens, rules, bos, unk, step, text, cursor, pieces, ids, shown>>

-----------------------------------------------------------------------------
(* Bytes and the visible characters that stand for them. *)

Byte == 0 .. 255
Visible == (33 .. 126) \cup (161 .. 172) \cup (174 .. 255)

CodePoint(b) ==
  IF b \in Visible THEN b ELSE 256 + Cardinality({c \in 0 .. b - 1 : c \notin Visible})

\* Code points of up to 11 bits.
Utf8(cp) == IF cp <= 127 THEN <<cp>> ELSE <<192 + (cp \div 64), 128 + (cp % 64)>>

ByteEncoder == [b \in Byte |-> Utf8(CodePoint(b))]

ByteDecoder == [s \in Range(ByteEncoder) |-> CHOOSE b \in Byte : ByteEncoder[b] = s]

Utf8CharSize(b) ==
  CASE b < 128 -> 1
    [] b \div 32 = 6 -> 2
    [] b \div 16 = 14 -> 3
    [] b \div 8 = 30 -> 4
    [] OTHER -> 1

HexDigit(n) == IF n < 10 THEN 48 + n ELSE 55 + n
HexValue(c) ==
  CASE c \in 48 .. 57 -> c - 48
    [] c \in 65 .. 70 -> c - 55
    [] c \in 97 .. 102 -> c - 87
    [] OTHER -> 0

Less == 60      \* <
Bar == 124      \* |
Greater == 62   \* >
Space == 32
NewLine == 10

\* <0xXX>
Hex(b) == <<Less, 48, 120, HexDigit(b \div 16), HexDigit(b % 16), Greater>>

-----------------------------------------------------------------------------
(* load_from_gguf *)

Known(s) == \E i \in DOMAIN tokens : tokens[i] = s

\* token_to_id_ keeps the last of equal tokens.
IdOf(s) ==
  LET places == {i \in DOMAIN tokens : tokens[i] = s}
  IN IF places = {} THEN unk ELSE (CHOOSE i \in places : \A j \in places : j <= i) - 1

Key(left, right) == left \o <<NewLine>> \o right

FirstSpace(line) ==
  CHOOSE p \in DOMAIN line : line[p] = Space /\ \A q \in 1 .. p - 1 : line[q] # Space

\* The table of the merge lines; lines without a space count for nothing.
RulesOf(lines) ==
  LET valid == {i \in DOMAIN lines : Space \in Range(lines[i])}
      left(i) == SubSeq(lines[i], 1, FirstSpace(lines[i]) - 1)
      right(i) == SubSeq(lines[i], FirstSpace(lines[i]) + 1, Len(lines[i]))
      key(i) == Key(left(i), right(i))
      last(k) == CHOOSE i \in valid : key(i) = k /\ \A j \in valid : key(j) = k => j <= i
  IN [k \in {key(i) : i \in valid} |->
        [left |-> left(last(k)), right |-> right(last(k)),
         rank |-> Cardinality({i \in valid : i < last(k)})]]

TokenizerInit ==
  /\ tokens = <<>> /\ rules = <<>> /\ bos = -1 /\ unk = 0
  /\ step = "unloaded"
  /\ text = <<>> /\ cursor = 0 /\ pieces = <<>> /\ ids = <<>> /\ shown = <<>>

LoadTokenizer(vocabulary, lines, first, unknown) ==
  /\ step = "unloaded" /\ vocabulary # <<>>
  /\ tokens' = vocabulary
  /\ rules' = RulesOf(lines)
  /\ bos' = first
  /\ unk' = unknown
  /\ step' = "idle"
  /\ UNCHANGED <<text, cursor, pieces, ids, shown>>

-----------------------------------------------------------------------------
(* encode *)

ImStart == <<60, 124, 105, 109, 95, 115, 116, 97, 114, 116, 124, 62>>
ImEnd == <<60, 124, 105, 109, 95, 101, 110, 100, 124, 62>>
Assistant == <<97, 115, 115, 105, 115, 116, 97, 110, 116>>

\* apply_chat_template, for an answer to come.
ChatTemplate(messages) ==
  FoldLeft(LAMBDA out, m : out \o ImStart \o m.role \o <<NewLine>> \o m.content \o ImEnd \o <<NewLine>>,
           <<>>, messages)
    \o ImStart \o Assistant \o <<NewLine>>

StartEncode(t) ==
  /\ step = "idle"
  /\ text' = t
  /\ ids' = IF bos >= 0 THEN <<bos>> ELSE <<>>
  /\ step' = "splitting"
  /\ UNCHANGED <<tokens, rules, bos, unk, cursor, pieces, shown>>

StartsAt(s, at) == at + Len(s) <= Len(text) /\ SubSeq(text, at + 1, at + Len(s)) = s

\* The special token that begins at a place, if the vocabulary has it.
SpecialAt(at) ==
  LET found == {i \in DOMAIN Specials : StartsAt(Specials[i], at)}
      first == Specials[CHOOSE i \in found : \A j \in found : i <= j]
  IN IF found # {} /\ Known(first) THEN first ELSE NoString

ByteToTokenPiece(b) ==
  IF Known(ByteEncoder[b]) THEN ByteEncoder[b]
  ELSE IF Known(Hex(b)) THEN Hex(b)
  ELSE <<b>>

Split ==
  LET special == SpecialAt(cursor) IN
  /\ step = "splitting" /\ cursor < Len(text)
  /\ IF special # NoString
     THEN pieces' = Append(pieces, special) /\ cursor' = cursor + Len(special)
     ELSE pieces' = Append(pieces, ByteToTokenPiece(text[cursor + 1])) /\ cursor' = cursor + 1
  /\ UNCHANGED <<tokens, rules, bos, unk, step, text, ids, shown>>

SplitDone ==
  /\ step = "splitting" /\ cursor = Len(text)
  /\ step' = "merging" /\ cursor' = 0
  /\ UNCHANGED <<tokens, rules, bos, unk, text, pieces, ids, shown>>

\* Wrong on purpose: a piece may begin with "<".
MergesAnything(i) == Key(pieces[i], pieces[i + 1]) \in DOMAIN rules

Merges(i) ==
  /\ pieces[i][1] # Less /\ pieces[i + 1][1] # Less
  /\ Key(pieces[i], pieces[i + 1]) \in DOMAIN rules

Candidates == {i \in 1 .. Len(pieces) - 1 : Merges(i)}

RankAt(i) == rules[Key(pieces[i], pieces[i + 1])].rank

\* Wrong on purpose: the last of equals.
BestIsLast(i) ==
  \A j \in Candidates : RankAt(i) < RankAt(j) \/ (RankAt(i) = RankAt(j) /\ i >= j)

\* The lowest rank, and the first of equals.
Best(i) ==
  \A j \in Candidates : RankAt(i) < RankAt(j) \/ (RankAt(i) = RankAt(j) /\ i <= j)

Merge ==
  /\ step = "merging"
  /\ \E i \in Candidates :
       LET rule == rules[Key(pieces[i], pieces[i + 1])] IN
       /\ Best(i)
       /\ pieces' = SubSeq(pieces, 1, i - 1) \o <<rule.left \o rule.right>>
                      \o SubSeq(pieces, i + 2, Len(pieces))
  /\ UNCHANGED <<tokens, rules, bos, unk, step, text, cursor, ids, shown>>

MergeDone ==
  /\ step = "merging" /\ Candidates = {}
  /\ ids' = ids \o [i \in DOMAIN pieces |-> IdOf(pieces[i])]
  /\ step' = "decoding"
  /\ UNCHANGED <<tokens, rules, bos, unk, text, cursor, pieces, shown>>

-----------------------------------------------------------------------------
(* decode *)

TokenPiece(id) == IF id \in 0 .. Len(tokens) - 1 THEN tokens[id + 1] ELSE <<>>

\* The bytes that visible characters stand for, NoString if some do not.
Unescaped(s) ==
  LET from[i \in 1 .. Len(s) + 4] ==
        IF i = Len(s) + 1 THEN <<>>
        ELSE IF i > Len(s) THEN NoString
        ELSE LET n == Utf8CharSize(s[i])
                 c == SubSeq(s, i, i + n - 1)
             IN IF i + n - 1 <= Len(s) /\ c \in DOMAIN ByteDecoder /\ from[i + n] # NoString
                THEN <<ByteDecoder[c]>> \o from[i + n]
                ELSE NoString
  IN from[1]

DecodeByteLevelPiece(s) ==
  IF Len(s) = 6 /\ SubSeq(s, 1, 3) = <<Less, 48, 120>> /\ s[6] = Greater
  THEN <<16 * HexValue(s[4]) + HexValue(s[5])>>
  ELSE IF Unescaped(s) = NoString THEN s ELSE Unescaped(s)

\* Of the form <|...|>, which is not shown.
Marked(s) ==
  Len(s) >= 3 /\ SubSeq(s, 1, 2) = <<Less, Bar>> /\ SubSeq(s, Len(s) - 1, Len(s)) = <<Bar, Greater>>

DecodeToken(id) ==
  IF Marked(TokenPiece(id)) THEN <<>> ELSE DecodeByteLevelPiece(TokenPiece(id))

Decode ==
  /\ step = "decoding" /\ cursor < Len(ids)
  /\ shown' = shown \o DecodeToken(ids[cursor + 1])
  /\ cursor' = cursor + 1
  /\ UNCHANGED <<tokens, rules, bos, unk, step, text, pieces, ids>>

Decoded == step = "decoding" /\ cursor = Len(ids)

\* The caller has what was decoded.
DecodeDone ==
  /\ Decoded
  /\ step' = "idle"
  /\ text' = <<>> /\ cursor' = 0 /\ pieces' = <<>> /\ ids' = <<>> /\ shown' = <<>>
  /\ UNCHANGED <<tokens, rules, bos, unk>>

\* The program's special tokens are not shown.
ASSUME TokenizerAssumption ==
  /\ NoString \notin Seq(Byte)
  /\ Specials \in Seq(Seq(Byte))
  /\ \A i \in DOMAIN Specials : Marked(Specials[i])

TokenizerStep == Split \/ SplitDone \/ Merge \/ MergeDone \/ Decode \/ DecodeDone

-----------------------------------------------------------------------------
(* What a tokenizer is for. *)

\* The text without the special tokens of the vocabulary.
Plain ==
  LET from[i \in 0 .. Len(text)] ==
        IF i = Len(text) THEN <<>>
        ELSE IF SpecialAt(i) # NoString THEN from[i + Len(SpecialAt(i))]
        ELSE <<text[i + 1]>> \o from[i + 1]
  IN from[0]

\* Every byte of the text has a token and every merge leads to one.
Covers ==
  /\ \A i \in DOMAIN text : Known(ByteEncoder[text[i]]) \/ Known(Hex(text[i]))
  /\ \A k \in DOMAIN rules : Known(rules[k].left \o rules[k].right)
  /\ bos >= 0 => DecodeToken(bos) = <<>>

\* With a vocabulary that covers everything, what is encoded comes back byte by
\* byte, but for the special tokens: no merge makes a token that is hidden or
\* read as a byte of its own (tokenizer.cpp:254-256, 311-374).
RoundTrip == Decoded /\ Covers => shown = Plain

\* The rules as they are trained: parts of a rule are made by earlier ones.
Trained ==
  \A k, m \in DOMAIN rules :
    rules[k].left \o rules[k].right \in {rules[m].left, rules[m].right} => rules[k].rank < rules[m].rank

\* One rule through a sequence of pieces from left to right.
Applied(s, rule) ==
  LET from[i \in 1 .. Len(s) + 1] ==
        IF i > Len(s) THEN <<>>
        ELSE IF i < Len(s) /\ s[i] = rule.left /\ s[i + 1] = rule.right
        THEN <<rule.left \o rule.right>> \o from[i + 2]
        ELSE <<s[i]>> \o from[i + 1]
  IN from[1]

\* The pieces of the text before any merge.
Unmerged ==
  LET from[i \in 0 .. Len(text)] ==
        IF i = Len(text) THEN <<>>
        ELSE IF SpecialAt(i) # NoString THEN <<SpecialAt(i)>> \o from[i + Len(SpecialAt(i))]
        ELSE <<ByteToTokenPiece(text[i + 1])>> \o from[i + 1]
  IN from[0]

\* Rules of pieces that may be merged.
Usable == {k \in DOMAIN rules : rules[k].left[1] # Less /\ rules[k].right[1] # Less}
Ranks == {rules[k].rank : k \in Usable}
Ranked(rank) == rules[CHOOSE k \in Usable : rules[k].rank = rank]

\* The rules one after the other, each through the whole text.
InTurn ==
  LET top == CHOOSE n \in {0} \cup {rank + 1 : rank \in Ranks} : \A rank \in Ranks : rank < n
      after[n \in 0 .. top] ==
        IF n = 0 THEN Unmerged
        ELSE IF n - 1 \in Ranks THEN Applied(after[n - 1], Ranked(n - 1))
        ELSE after[n - 1]
  IN after[top]

\* A new line is never a piece of its own, which the key of a rule could not
\* tell from where its parts meet.
NewLineHasToken ==
  NewLine \in Range(text) => Known(ByteEncoder[NewLine]) \/ Known(Hex(NewLine))

\* The search for the lowest rank over all neighbours comes to what training
\* means: the rules one after the other, each through the whole text from left
\* to right, "<" apart (tokenizer.cpp:240-285).
EncodesAsTrained ==
  step = "decoding" /\ cursor = 0 /\ Trained /\ NewLineHasToken => pieces = InTurn
===============================================================================
