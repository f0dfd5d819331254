------------------------------ MODULE MCLoading ------------------------------
(* Files made from a model by a writer that leaves out, repeats or mistypes  *)
(* entries, and files with vocabularies worth encoding with.                 *)
EXTENDS Loading

-----------------------------------------------------------------------------
(* Making a file. *)

Usual == [vocab |-> 3, hidden |-> 8, blocks |-> 2, ff |-> 6, heads |-> 2, kv |-> 1, dim |-> 4, vdim |-> 4]
Shared == [Usual EXCEPT !.blocks = 1, !.heads = 4, !.kv = 2]
EachItsOwn == [Usual EXCEPT !.blocks = 1, !.kv = 2, !.dim = 6, !.vdim = 6]
SmallValues == [Shared EXCEPT !.vdim = 2]
Uneven == [Shared EXCEPT !.kv = 3, !.dim = 2, !.vdim = 2]

\* The elements of a set in some order.
Listed(S) == FoldSet(LAMBDA x, list : Append(list, x), <<>>, S)

CountsSaid(c, prefix) ==
  LET counts == Counts(c)
  IN [i \in 1 .. 7 |->
        LET k == Listed(DOMAIN counts)[i]
        IN [key |-> <<prefix, k>>, type |-> "u32", value |-> counts[k]]]

Entry(key, type, value) == <<[key |-> key, type |-> type, value |-> value]>>

Shorts == <<<<97>>, <<98>>, <<99>>>>

Entries(c, architecture, prefix, strings) ==
  Entry(ArchitectureKey, "string", architecture) \o Entry(TokensKey, "strings", strings)
    \o CountsSaid(c, prefix)

\* Names of the tensors in the file: all required ones and some optional ones.
Parts(c, optional) ==
  Listed((Names(0, GlobalShapes(c)) \cup UNION {Names(i, LayerShapes(c)) : i \in 1 .. c.blocks})
             \ {<<i, k>> : i \in 0 .. c.blocks, k \in Optional \ optional})

\* Descriptions, each tensor's data at the next multiple of the alignment.
Tensors(c, alignment, optional) ==
  LET parts == Parts(c, optional)
      type(name) == IF name[2] \in {"output_norm", "attn_norm", "ffn_norm"} THEN "F32"
                    ELSE IF name[2] = "ffn_up" THEN "Q8_0" ELSE "F16"
      shape(name) == IF name[1] = 0 THEN GlobalShapes(c)[name[2]] ELSE TrueShapes(c)[name[2]]
      bytes(i) == TensorBytes(type(parts[i]), shape(parts[i])[1] * shape(parts[i])[2])
      offset[i \in DOMAIN parts] ==
        IF i = 1 THEN 0 ELSE AlignTo(offset[i - 1] + bytes(i - 1), alignment)
  IN [i \in DOMAIN parts |->
        [name |-> parts[i], cols |-> shape(parts[i])[1], rows |-> shape(parts[i])[2],
         type |-> type(parts[i]), offset |-> offset[i]]]

File(c, alignment, entries, tensors) ==
  LET f == [truth |-> c, alignment |-> alignment, entries |-> entries, tensors |-> tensors, size |-> 0]
      last == CHOOSE i \in DOMAIN tensors : \A j \in DOMAIN tensors : Extent(f, j).end <= Extent(f, i).end
  IN [f EXCEPT !.size = Extent(f, last).end]

Without(entries, keys) == SelectSeq(entries, LAMBDA e : e.key \notin keys)
Retype(entries, key, type, value) ==
  [i \in DOMAIN entries |->
     IF entries[i].key = key THEN [entries[i] EXCEPT !.type = type, !.value = value] ELSE entries[i]]

-----------------------------------------------------------------------------
(* What writers leave out, repeat and mistype. *)

CountKeys(prefix) == {<<prefix, k>> : k \in DOMAIN Counts(Usual)}

Variations(c, architecture, prefix) ==
  LET all == Entries(c, architecture, prefix, Shorts)
      derived == {<<prefix, "key_length">>, <<prefix, "value_length">>, <<prefix, "head_count_kv">>}
  IN {all}
       \cup {Without(all, keys) : keys \in SUBSET derived}
       \cup {Without(all, {k}) : k \in CountKeys(prefix) \cup {ArchitectureKey, TokensKey}}
       \cup {Retype(all, k, "f32", 1) : k \in CountKeys(prefix) \cup {TokensKey}}
       \cup {Retype(all, k, "i32", -1) : k \in CountKeys(prefix)}
       \cup {Entry(k, "u64", 1) \o all : k \in CountKeys(prefix)}

Configurations ==
  {File(c, 32, e, Tensors(c, 32, {"attn_q_norm", "attn_k_norm"})) :
     c \in {Shared}, e \in Variations(Shared, "qwen3", "qwen3") \cup Variations(Shared, "qwen3", "qwen2")}
  \cup {File(c, 32, e, Tensors(c, 32, {"output", "attn_q_bias", "attn_v_bias"})) :
     c \in {EachItsOwn}, e \in Variations(EachItsOwn, "qwen2", "qwen2")}
  \cup {File(c, 32, e, Tensors(c, 32, {})) : c \in {SmallValues}, e \in Variations(SmallValues, "qwen3", "qwen3")}
  \cup {File(c, 32, Entries(c, a, a, Shorts), Tensors(c, 32, {})) : c \in {Usual, Uneven}, a \in {"qwen2", "llama"}}

\* Alignments said, and something after the tensors.
Aligned ==
  {LET f == File(Usual, a, Entries(Usual, "qwen3", "qwen3", Shorts) \o Entry(AlignmentKey, "u32", a),
                 Tensors(Usual, a, {}))
   IN [f EXCEPT !.size = f.size + 100] : a \in {1, 8, 16, 64}}

Damaged ==
  LET f == File(Usual, 32, Entries(Usual, "qwen3", "qwen3", Shorts), Tensors(Usual, 32, {}))
      one == f.tensors[3]
      other == [one EXCEPT !.cols = one.cols + 1, !.offset = one.offset + 32]
  IN {[f EXCEPT !.size = n] : n \in {0, 100, EntrySize * (1 + Len(f.entries)), f.size - 1}}
       \cup {[f EXCEPT !.tensors[i].type = "Q3_K"] : i \in {1, 9}}
       \cup {[f EXCEPT !.tensors = SubSeq(f.tensors, 1, i - 1) \o SubSeq(f.tensors, i + 1, Len(f.tensors))] :
               i \in DOMAIN f.tensors}
       \cup {[f EXCEPT !.entries[5].type = "nested"], File(Usual, 32, f.entries, <<other>> \o f.tensors)}

-----------------------------------------------------------------------------
(* Vocabularies. *)

MCSpecials == <<ImStart, ImEnd>>

A == <<97>>
Gap == ByteEncoder[Space]
AllBytes == [i \in 1 .. 256 |-> ByteEncoder[i - 1]]

\* The bytes of the texts below and of the template.
Letters ==
  LET used == {NewLine, Space, Less, Bar, Greater, 95, 97, 100, 101, 105, 109, 110, 114, 115, 116}
  IN Listed({ByteEncoder[b] : b \in used})

Line(left, right) == left \o <<Space>> \o right

\* Rules in the order they are trained, and what they make.
Lines ==
  <<Line(Gap, A), Line(A, A), Line(Gap \o A, A), Line(<<Bar>>, <<Greater>>), Line(<<Less>>, <<Bar>>),
    Line(<<Less, Bar>>, <<Bar, Greater>>), Line(A \o A, <<Bar>>)>>
Made ==
  <<Gap \o A, A \o A, Gap \o A \o A, <<Bar, Greater>>, <<Less, Bar>>, <<Less, Bar, Bar, Greater>>,
    A \o A \o <<Bar>>>>

\* "a" and the new line have no token but the hexadecimal one.
ByHex == SelectSeq(Letters, LAMBDA s : s \notin {A, ByteEncoder[NewLine]}) \o <<Hex(97), Hex(NewLine)>>

\* Lines without a space, with nothing before it, and a rule said twice.
OddLines == <<A \o A, <<Space>> \o A, Line(A, A), Line(Gap, A), Line(A, A)>>

Vocabularies ==
  {[strings |-> Letters \o Made \o <<ImStart, ImEnd>>, lines |-> Lines,
    more |-> Entry(AddBosKey, "bool", TRUE) \o Entry(BosKey, "u64", Word - 1)],
   [strings |-> Letters \o Made \o <<ImStart>> \o Letters, lines |-> OddLines,
    more |-> Entry(AddBosKey, "bool", TRUE) \o Entry(BosKey, "u32", 22)],
   [strings |-> ByHex \o <<ImEnd, <<Bar, Greater>>>>, lines |-> <<Line(A, A), Line(<<Bar>>, <<Greater>>)>>,
    more |-> Entry(AddBosKey, "bool", TRUE)],
   [strings |-> <<A, <<Bar>>, <<Less>>, ImEnd>>, lines |-> Lines,
    more |-> Entry(AddBosKey, "bool", FALSE) \o Entry(BosKey, "u32", 1)
               \o Entry(UnknownKey, "u64", Word + 3)],
   [strings |-> AllBytes, lines |-> OddLines, more |-> Entry(UnknownKey, "u32", Word - 1)],
   [strings |-> Shorts, lines |-> <<>>, more |-> Entry(AddBosKey, "u32", 1)]}

Tokenizing ==
  {LET c == [Usual EXCEPT !.vocab = Len(v.strings), !.blocks = 1]
   IN File(c, 32, Entries(c, "qwen3", "qwen3", v.strings) \o Entry(MergesKey, "strings", v.lines) \o v.more,
           Tensors(c, 32, {})) : v \in Vocabularies}

MCFiles == Configurations \cup Aligned \cup Damaged \cup Tokenizing

Chunks == {<<Less>>, <<Bar>>, <<Greater>>, <<Space>>, A, ImEnd}

\* Up to n chunks, or every text of one byte.
Sentences(n) == {FlattenSeq(s) : s \in UNION {[1 .. k -> Chunks] : k \in 0 .. n}}

MCTexts(f) ==
  CASE Said(f, MergesKey) = None -> {}
    [] f.truth.vocab = 256 -> {<<b>> : b \in Byte}
    [] f.truth.vocab = Len(Letters \o Made) + 2 -> Sentences(4)
    [] OTHER -> Sentences(2)

MCChats(f) ==
  IF Said(f, MergesKey) # None
  THEN {<<[role |-> A, content |-> <<Space, 97, 97>>]>>,
        <<[role |-> A, content |-> <<>>], [role |-> <<Bar>>, content |-> <<Less, Bar, Bar, Greater>>]>>}
  ELSE {}
===============================================================================
