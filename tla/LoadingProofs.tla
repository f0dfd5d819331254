---------------------------- MODULE LoadingProofs ----------------------------
(***************************************************************************)
(* For every set of files whose writers are honest: a weight is taken from *)
(* the bytes that belong to it, and a model that is loaded has the         *)
(* configuration that it was made with.  For every vocabulary, rules and   *)
(* text: what is encoded comes back, and merging does what training means. *)
(***************************************************************************)
EXTENDS TLAPS, SequenceTheorems, FiniteSetTheorems, Loading

-----------------------------------------------------------------------------
(* Arithmetic. *)

LEMMA Cancel ==
  ASSUME NEW a \in Nat \ {0}, NEW b \in Int, NEW c \in Int, a * b = a * c
  PROVE  b = c
OBVIOUS

LEMMA ModRange ==
  ASSUME NEW n \in Nat, NEW a \in Nat \ {0}
  PROVE  n % a \in 0 .. a - 1 /\ n \div a \in Int /\ n = a * (n \div a) + (n % a)
OBVIOUS

LEMMA ModOfMultiple ==
  ASSUME NEW a \in Nat \ {0}, NEW q \in Int, a * q \in Nat
  PROVE  (a * q) % a = 0
OBVIOUS

LEMMA DivOfMultiple ==
  ASSUME NEW a \in Nat \ {0}, NEW q \in Nat
  PROVE  (a * q) % a = 0 /\ (a * q) \div a = q /\ a * q \in Nat
OBVIOUS

LEMMA Monotone ==
  ASSUME NEW e \in Nat, NEW n \in Nat, NEW m \in Nat, n <= m
  PROVE  e * (1 + n) <= e * (1 + m)
OBVIOUS

\* Less than a step apart, two multiples are one.
LEMMA OneMultiple ==
  ASSUME NEW a \in Nat \ {0}, NEW q \in Int, NEW r \in Int, a * q < a * r + a, a * r < a * q + a
  PROVE  q = r
<1>1. a * (q - r) < a * 1 /\ a * (r - q) < a * 1
  OBVIOUS
<1>2. q - r < 1 /\ r - q < 1
  BY <1>1
<1>3. QED
  BY <1>2

\* Counting to a and then to b.
LEMMA Counting ==
  \A a \in Nat, b \in Nat :
    /\ 0 \in 0 .. a + b /\ (0 < a \/ a = 0)
    /\ \A k \in 0 .. a + b :
         /\ k \in Nat
         /\ k < a => k + 1 \in 0 .. a + b /\ (k + 1 < a \/ k + 1 = a)
OBVIOUS

\* Where the data begins is where the program looks for it.
LEMMA Alignment ==
  ASSUME NEW end \in Nat, NEW a \in Nat \ {0}
  PROVE  /\ AlignTo(end, a) \in Nat /\ AlignTo(end, a) >= end
         /\ AlignTo(end, a) = CHOOSE n \in end .. end + a - 1 : n % a = 0
<1> DEFINE x == end + a - 1
           d == AlignTo(end, a)
<1>1. x \in Nat /\ x % a \in 0 .. a - 1 /\ x \div a \in Int /\ x = a * (x \div a) + (x % a)
  BY ModRange
<1>2. d = x - (x % a)
  BY DEF AlignTo
<1>3. d = a * (x \div a) /\ d \in end .. end + a - 1 /\ d \in Nat
  BY <1>1, <1>2
<1>4. d % a = 0
  BY <1>1, <1>3, ModOfMultiple
<1>5. ASSUME NEW n \in end .. end + a - 1, n % a = 0
      PROVE  n = d
  <2>1. n \in Nat /\ n \div a \in Int /\ n = a * (n \div a)
    BY <1>5, ModRange
  <2>2. n \div a = x \div a
    BY <1>1, <1>3, <2>1, OneMultiple
  <2>3. QED
    BY <1>3, <2>1, <2>2
<1>6. QED
  BY <1>3, <1>4, <1>5

-----------------------------------------------------------------------------
(* Files. *)

LEMMA OfFiles ==
  ASSUME NEW f \in Files
  PROVE  /\ Len(f.entries) \in Nat /\ DOMAIN f.entries = 1 .. Len(f.entries)
         /\ Len(f.tensors) \in Nat /\ DOMAIN f.tensors = 1 .. Len(f.tensors)
         /\ \A i \in DOMAIN f.entries : f.entries[i] # None
         /\ \A i \in DOMAIN f.tensors :
              f.tensors[i].cols \in Nat /\ f.tensors[i].rows \in Nat
                  /\ f.tensors[i].offset \in Nat
         /\ f.alignment \in Nat \ {0} /\ f.size \in Nat /\ f.truth.vocab \in Nat \ {0}
         /\ EntrySize \in Nat \ {0} /\ Word \in Nat \ {0}
         /\ Honest(f)
BY ModelFileAssumption

LEMMA CountsInRange ==
  ASSUME NEW f \in Files, NEW k \in DOMAIN Counts(f.truth)
  PROVE  Counts(f.truth)[k] \in 1 .. Word - 1
BY ModelFileAssumption

\* The numbers of a model by their names.
LEMMA TruthTypes ==
  ASSUME NEW f \in Files
  PROVE  /\ f.truth.hidden \in 1 .. Word - 1 /\ f.truth.blocks \in 1 .. Word - 1
         /\ f.truth.ff \in 1 .. Word - 1 /\ f.truth.heads \in 1 .. Word - 1
         /\ f.truth.kv \in 1 .. Word - 1 /\ f.truth.dim \in 1 .. Word - 1
             /\ f.truth.vdim \in 1 .. Word - 1
<1>1. \A k \in DOMAIN Counts(f.truth) : Counts(f.truth)[k] \in 1 .. Word - 1
  BY CountsInRange
<1>2. DOMAIN Counts(f.truth) =
        {"embedding_length", "block_count", "feed_forward_length", "head_count", "head_count_kv",
         "key_length", "value_length"}
  BY DEF Counts
<1>3. QED
  BY <1>1, <1>2 DEF Counts

\* Of the entries of a key the last is what the file says.
LEMMA SaidIsLast ==
  ASSUME NEW f, NEW key, NEW i \in DOMAIN f.entries, f.entries[i].key = key,
         DOMAIN f.entries = 1 .. Len(f.entries), Len(f.entries) \in Nat,
         \A j \in DOMAIN f.entries : f.entries[j].key = key => j <= i
  PROVE  Said(f, key) = f.entries[i]
<1> DEFINE of == {j \in DOMAIN f.entries : f.entries[j].key = key}
<1>1. i \in of /\ \A j \in of : j <= i
  OBVIOUS
<1>2. \A k \in of : (\A j \in of : j <= k) => k = i
  BY <1>1
<1>3. (CHOOSE k \in of : \A j \in of : j <= k) = i
  BY <1>1, <1>2
<1>4. QED
  BY <1>1, <1>3 DEF Said

LEMMA SaidNothing ==
  ASSUME NEW f, NEW key, \A j \in DOMAIN f.entries : f.entries[j].key # key
  PROVE  Said(f, key) = None
BY DEF Said

-----------------------------------------------------------------------------
(* The inductive invariant: metadata and infos hold the last of what was   *)
(* read of each key and name, the infos with their place in the file once  *)
(* it is known; of the configuration all but the heads' sizes is right at  *)
(* once, and those are when the first layer's shapes were compared.        *)

Keys ==
  {<<prefix, k>> : prefix \in QwenArchitectures,
                   k \in {"embedding_length", "block_count", "feed_forward_length", "head_count",
                          "head_count_kv", "key_length", "value_length"}}
    \cup {TokensKey, AlignmentKey, ArchitectureKey}

EntriesOf(f, n) == IF n < Len(f.entries) THEN n ELSE Len(f.entries)

EntriesRead == EntriesOf(file, taken)

\* The last of the entries read of a key.
LastRead(key, i) ==
  /\ file.entries[i].key = key
  /\ \A j \in 1 .. EntriesRead : file.entries[j].key = key => j <= i

MetaOf(key) ==
  /\ key \in DOMAIN metadata =>
       \E i \in 1 .. EntriesRead :
         LastRead(key, i)
             /\ metadata[key] = [type |-> file.entries[i].type, value |-> file.entries[i].value]
  /\ key \notin DOMAIN metadata => \A i \in 1 .. EntriesRead : file.entries[i].key # key

InfosRead == taken - EntriesRead

\* Tensors' places count from here.
Base == IF phase = "reading" THEN 0 ELSE DataStart(file)

InfoOf(i, base) ==
  [cols |-> file.tensors[i].cols, rows |-> file.tensors[i].rows,
      start |-> base + file.tensors[i].offset,
   bytes |-> TensorBytes(file.tensors[i].type, file.tensors[i].cols * file.tensors[i].rows)]

InfosAre(base) ==
  \A name \in DOMAIN infos :
    \E i \in 1 .. InfosRead :
      /\ file.tensors[i].name = name
      /\ \A j \in 1 .. InfosRead : file.tensors[j].name = name => j <= i
      /\ infos[name] = InfoOf(i, base)

ConfigSoFar ==
  phase \in {"configured", "loading", "loaded"} =>
    /\ config = [vocab |-> file.truth.vocab, hidden |-> file.truth.hidden,
        blocks |-> file.truth.blocks,
                 ff |-> file.truth.ff, heads |-> file.truth.heads, kv |-> config.kv,
                     dim |-> config.dim]
    /\ config.kv \in Nat \ {0} /\ config.dim \in Nat \ {0}
    /\ layer > 0 => /\ config.kv = file.truth.kv /\ config.dim = file.truth.dim
                    /\ file.truth.vdim = file.truth.dim

Progress ==
  /\ file \in Files
  /\ phase \in {"reading", "read", "configured", "loading", "loaded", "refused"}
  /\ taken \in 0 .. Described
  /\ phase \notin {"reading", "refused"} => taken = Described
  /\ layer \in Nat /\ (phase = "loaded" => layer > 0)
  /\ phase \in {"reading", "read", "configured"} => layer = 0

IInv ==
  /\ Progress
  /\ \A key \in Keys : MetaOf(key)
  /\ phase # "refused" => InfosAre(Base)
  /\ ConfigSoFar
  /\ BytesAreTheTensors

-----------------------------------------------------------------------------
(* What the getters return once all entries are read. *)

LEMMA Counters ==
  ASSUME NEW f \in Files, NEW n \in 0 .. Len(f.entries) + Len(f.tensors)
  PROVE  /\ n < Len(f.entries) => EntriesOf(f, n) = n
         /\ n >= Len(f.entries) => EntriesOf(f, n) = Len(f.entries)
         /\ n - EntriesOf(f, n) \in 0 .. Len(f.tensors)
<1>1. Len(f.entries) \in Nat /\ Len(f.tensors) \in Nat
  BY OfFiles
<1>2. \A a \in Nat, b \in Nat : \A k \in 0 .. a + b :
        /\ k < a => k - k \in 0 .. b
        /\ k >= a => ~(k < a) /\ k - a \in 0 .. b
        /\ k < a \/ k >= a
  OBVIOUS
<1>3. CASE n < Len(f.entries)
  <2>1. EntriesOf(f, n) = n
    BY <1>3, Zenon DEF EntriesOf
  <2>2. ~(n >= Len(f.entries))
    BY <1>1, <1>3
  <2>3. QED
    BY <1>1, <1>2, <1>3, <2>1, <2>2
<1>4. CASE n >= Len(f.entries)
  <2>1. ~(n < Len(f.entries))
    BY <1>1, <1>2, <1>4
  <2>2. EntriesOf(f, n) = Len(f.entries)
    BY <2>1, Zenon DEF EntriesOf
  <2>3. QED
    BY <1>1, <1>2, <1>4, <2>1, <2>2
<1>5. QED
  BY <1>1, <1>2, <1>3, <1>4

LEMMA CountersAtTheEnd ==
  ASSUME file \in Files, taken = Described
  PROVE  EntriesRead = Len(file.entries) /\ InfosRead = Len(file.tensors)
<1>1. Len(file.entries) \in Nat /\ Len(file.tensors) \in Nat
  BY OfFiles
<1>2. taken = Len(file.entries) + Len(file.tensors)
  BY DEF Described
<1>3. \A a \in Nat, b \in Nat : a + b \in 0 .. a + b /\ a + b >= a /\ (a + b) - a = b
  OBVIOUS
<1>4. EntriesRead = Len(file.entries)
  BY <1>1, <1>2, <1>3, Counters, ZenonT(30) DEF EntriesRead
<1>5. QED
  BY <1>1, <1>2, <1>3, <1>4 DEF InfosRead

LEMMA KeysRead ==
  ASSUME IInv, taken = Described, NEW key \in Keys
  PROVE  /\ key \in DOMAIN metadata =>
              /\ Said(file, key) # None
              /\ metadata[key] = [type |-> Said(file, key).type, value |-> Said(file, key).value]
         /\ key \notin DOMAIN metadata => Said(file, key) = None
<1>1. /\ Len(file.entries) \in Nat /\ DOMAIN file.entries = 1 .. Len(file.entries)
      /\ Len(file.tensors) \in Nat
      /\ \A i \in DOMAIN file.entries : file.entries[i] # None
  BY OfFiles DEF IInv, Progress
<1>3. EntriesRead = Len(file.entries)
  BY CountersAtTheEnd DEF IInv, Progress
<1>4. MetaOf(key)
  BY DEF IInv
<1>5. ASSUME key \in DOMAIN metadata
      PROVE  /\ Said(file, key) # None
             /\ metadata[key] = [type |-> Said(file, key).type, value |-> Said(file, key).value]
  <2>1. PICK i \in 1 .. EntriesRead :
          LastRead(key, i)
              /\ metadata[key] = [type |-> file.entries[i].type, value |-> file.entries[i].value]
    BY <1>4, <1>5, Zenon DEF MetaOf
  <2>2. Said(file, key) = file.entries[i]
    BY <2>1, <1>1, <1>3, SaidIsLast DEF LastRead
  <2>3. file.entries[i] # None
    BY <1>1, <1>3
  <2>4. QED
    BY <2>1, <2>2, <2>3
<1>6. ASSUME key \notin DOMAIN metadata
      PROVE  Said(file, key) = None
  BY <1>1, <1>3, <1>4, <1>6, SaidNothing DEF MetaOf
<1>7. QED
  BY <1>5, <1>6

LEMMA GetterReads ==
  ASSUME IInv, taken = Described, NEW key \in Keys, NEW fallback
  PROVE  GetU64(key, fallback) = IF SaysCount(file, key) THEN Said(file, key).value ELSE fallback
<1>1. CASE key \in DOMAIN metadata
  <2>1. /\ Said(file, key) # None
        /\ metadata[key] = [type |-> Said(file, key).type, value |-> Said(file, key).value]
    BY <1>1, KeysRead
  <2>2. metadata[key].type = Said(file, key).type /\ metadata[key].value = Said(file, key).value
    BY <2>1
  <2>3. QED
    BY <1>1, <2>1, <2>2 DEF GetU64, Has, Number, SaysCount
<1>2. CASE key \notin DOMAIN metadata
  <2>1. Said(file, key) = None
    BY <1>2, KeysRead
  <2>2. QED
    BY <1>2, <2>1 DEF GetU64, Has, SaysCount
<1>3. QED
  BY <1>1, <1>2

\* A count is the model's where it is said, or else the fallback.
LEMMA CountUnder ==
  ASSUME IInv, taken = Described, NEW prefix \in QwenArchitectures,
      NEW k \in DOMAIN Counts(file.truth),
         NEW fallback \in Int
  PROVE  Under(prefix, k, fallback) =
           IF SaysCount(file, <<prefix, k>>) THEN Counts(file.truth)[k] ELSE fallback % Word
<1>1. DOMAIN Counts(file.truth) =
        {"embedding_length", "block_count", "feed_forward_length", "head_count", "head_count_kv",
         "key_length", "value_length"}
  BY DEF Counts
<1>2. <<prefix, k>> \in Keys
  BY <1>1 DEF Keys
<1>3. Honest(file) /\ Counts(file.truth)[k] \in 1 .. Word - 1 /\ Word \in Nat \ {0}
  BY OfFiles, CountsInRange DEF IInv, Progress
<1>4. CASE SaysCount(file, <<prefix, k>>)
  <2>1. Said(file, <<prefix, k>>).value = Counts(file.truth)[k]
    BY <1>3, <1>4 DEF Honest
  <2>2. Under(prefix, k, fallback) = Counts(file.truth)[k] % Word
    BY <1>2, <1>4, <2>1, GetterReads DEF Under
  <2>3. QED
    BY <1>4, <2>2, <1>3
<1>5. CASE ~SaysCount(file, <<prefix, k>>)
  BY <1>2, <1>5, GetterReads DEF Under
<1>6. QED
  BY <1>4, <1>5

LEMMA CountsAreTrue ==
  ASSUME IInv, taken = Described, NEW prefix \in QwenArchitectures,
      NEW k \in DOMAIN Counts(file.truth),
         NEW fallback \in Int
  PROVE  Under(prefix, k, fallback) \in {Counts(file.truth)[k], fallback % Word}
BY CountUnder

\* So it is under either prefix.
LEMMA EitherIsTrue ==
  ASSUME IInv, taken = Described, Architecture \in QwenArchitectures,
      NEW k \in DOMAIN Counts(file.truth)
  PROVE  /\ ReadEither(k, 0, 0) \in {Counts(file.truth)[k], 0}
         /\ \A d \in Int, e \in Int : ReadEither(k, d, e) \in Nat
<1>1. "qwen2" \in QwenArchitectures
  BY DEF QwenArchitectures
<1>2. Word \in Nat \ {0} /\ Counts(file.truth)[k] \in 1 .. Word - 1
  BY OfFiles, CountsInRange DEF IInv, Progress
<1>3. 0 % Word = 0 /\ \A d \in Int : d % Word \in Nat
  BY <1>2
<1>4. /\ Under(Architecture, k, 0) \in {Counts(file.truth)[k], 0}
      /\ Under("qwen2", k, 0) \in {Counts(file.truth)[k], 0}
  BY <1>1, <1>3, CountsAreTrue
<1>5. \A d \in Int : Under(Architecture, k, d) \in Nat /\ Under("qwen2", k, d) \in Nat
  <2>1. TAKE d \in Int
  <2>2. Under(Architecture, k, d) \in {Counts(file.truth)[k], d % Word}
    BY CountsAreTrue
  <2>3. Under("qwen2", k, d) \in {Counts(file.truth)[k], d % Word}
    BY <1>1, CountsAreTrue
  <2>4. QED
    BY <2>2, <2>3, <1>2, <1>3
<1>6. QED
  BY <1>4, <1>5 DEF ReadEither

\* A name read has the place and shape of its last description.
LEMMA InfosRight ==
  ASSUME IInv, taken = Described, phase # "refused", NEW name \in DOMAIN infos
  PROVE  \E i \in DOMAIN file.tensors :
           IsLast(file, i) /\ file.tensors[i].name = name /\ infos[name] = InfoOf(i, Base)
<1>1. DOMAIN file.tensors = 1 .. Len(file.tensors)
  BY OfFiles DEF IInv, Progress
<1>2. InfosRead = Len(file.tensors)
  BY CountersAtTheEnd DEF IInv, Progress
<1>3. PICK i \in 1 .. InfosRead :
        /\ file.tensors[i].name = name
        /\ \A j \in 1 .. InfosRead : file.tensors[j].name = name => j <= i
        /\ infos[name] = InfoOf(i, Base)
  BY Zenon DEF IInv, InfosAre
<1>4. i \in DOMAIN file.tensors /\ IsLast(file, i)
  BY <1>1, <1>2, <1>3 DEF IsLast
<1>5. QED
  BY <1>3, <1>4

LEMMA RowsAreNumbers ==
  ASSUME IInv, taken = Described, phase # "refused", NEW name \in DOMAIN infos
  PROVE  infos[name].rows \in Nat
<1>1. PICK i \in DOMAIN file.tensors : infos[name] = InfoOf(i, Base)
  BY InfosRight
<1>2. infos[name].rows = file.tensors[i].rows
  BY <1>1 DEF InfoOf
<1>3. QED
  BY <1>2, OfFiles DEF IInv, Progress

-----------------------------------------------------------------------------
(* The configuration. *)

LEMMA NumbersAreTrue ==
  ASSUME IInv, taken = Described, Acceptable
  PROVE  /\ Hidden = file.truth.hidden /\ Blocks = file.truth.blocks
         /\ FeedForward = file.truth.ff /\ Heads = file.truth.heads
<1>1. DOMAIN Counts(file.truth) =
        {"embedding_length", "block_count", "feed_forward_length", "head_count", "head_count_kv",
         "key_length", "value_length"}
  BY DEF Counts
<1>2. Architecture \in QwenArchitectures
  BY DEF Acceptable
<1>3. /\ Hidden \in {Counts(file.truth)["embedding_length"], 0}
      /\ Blocks \in {Counts(file.truth)["block_count"], 0}
      /\ FeedForward \in {Counts(file.truth)["feed_forward_length"], 0}
      /\ Heads \in {Counts(file.truth)["head_count"], 0}
  BY <1>1, <1>2, EitherIsTrue DEF Hidden, Blocks, FeedForward, Heads
<1>4. /\ Counts(file.truth)["embedding_length"] = file.truth.hidden
      /\ Counts(file.truth)["block_count"] = file.truth.blocks
      /\ Counts(file.truth)["feed_forward_length"] = file.truth.ff
      /\ Counts(file.truth)["head_count"] = file.truth.heads
  BY DEF Counts
<1>5. Hidden > 0 /\ Blocks > 0 /\ FeedForward > 0 /\ Heads > 0
  BY DEF Acceptable
<1>6. ~(0 > 0)
  OBVIOUS
<1>7. Hidden # 0 /\ Blocks # 0 /\ FeedForward # 0 /\ Heads # 0
  BY <1>5, <1>6, Zenon
<1>8. QED
  BY <1>3, <1>4, <1>7, Zenon

LEMMA VocabularyIsTrue ==
  ASSUME IInv, taken = Described, Acceptable
  PROVE  Vocabulary = file.truth.vocab
<1>1. TokensKey \in Keys
  BY DEF Keys
<1>2. Vocabulary # 0
  <2>1. Vocabulary > 0 /\ ~(0 > 0)
    BY DEF Acceptable
  <2>2. QED
    BY <2>1, Zenon
<1>3. Len(<<>>) = 0
  OBVIOUS
<1>4. GetStrings(TokensKey) # <<>>
  BY <1>2, <1>3, Zenon DEF Vocabulary
<1>5. /\ TokensKey \in DOMAIN metadata /\ metadata[TokensKey].type = "strings"
      /\ GetStrings(TokensKey) = metadata[TokensKey].value
  BY <1>4, Zenon DEF GetStrings, Has
<1>6. /\ Said(file, TokensKey) # None
      /\ metadata[TokensKey] = [type |-> Said(file, TokensKey).type, value |-> Said(file,
          TokensKey).value]
  BY <1>1, <1>5, KeysRead
<1>7. Said(file, TokensKey).type = "strings"
        /\ metadata[TokensKey].value = Said(file, TokensKey).value
  <2>1. /\ metadata[TokensKey].type = Said(file, TokensKey).type
        /\ metadata[TokensKey].value = Said(file, TokensKey).value
    BY <1>6
  <2>2. QED
    BY <1>5, <2>1, Zenon
<1>8. Honest(file)
  BY OfFiles DEF IInv, Progress
<1>9. Len(Said(file, TokensKey).value) = file.truth.vocab
  BY <1>6, <1>7, <1>8, Zenon DEF Honest
<1>10. QED
  BY <1>5, <1>7, <1>9, Zenon DEF Vocabulary

\* A share of rows is a number.
LEMMA PerHeadIsNumber ==
  ASSUME IInv, taken = Described, phase # "refused", NEW kind, NEW heads \in Nat \ {0}
  PROVE  PerHead(kind, heads) \in Nat
<1>1. CASE <<1, kind>> \in DOMAIN infos
  <2>1. infos[<<1, kind>>].rows \in Nat
    BY <1>1, RowsAreNumbers
  <2>2. \A n \in Nat : n \div heads \in Nat
    OBVIOUS
  <2>3. infos[<<1, kind>>].rows \div heads \in Nat /\ 0 \in Nat
    BY <2>1, <2>2
  <2>4. QED
    BY <2>3, Zenon DEF PerHead
<1>2. CASE <<1, kind>> \notin DOMAIN infos
  <2>1. PerHead(kind, heads) = 0
    BY <1>2, Zenon DEF PerHead
  <2>2. QED
    BY <2>1
<1>3. QED
  BY <1>1, <1>2

LEMMA SharesAreNumbers ==
  ASSUME IInv, taken = Described, phase # "refused", Acceptable
  PROVE  KvHeads \in Nat \ {0} /\ HeadDim \in Nat \ {0}
<1>1. {"head_count", "head_count_kv", "key_length"} \subseteq DOMAIN Counts(file.truth)
  BY DEF Counts
<1>2. Architecture \in QwenArchitectures
  BY DEF Acceptable
<1>3. Heads = file.truth.heads /\ Hidden = file.truth.hidden
  BY NumbersAreTrue
<1>4. Heads \in Nat \ {0} /\ Hidden \in Nat
  BY <1>3, TruthTypes DEF IInv, Progress
<1>5. KvHeads \in Nat
  <2>1. Word \in Nat \ {0} /\ Counts(file.truth)["head_count"] \in 1 .. Word - 1
    BY <1>1, OfFiles, CountsInRange DEF IInv, Progress
  <2>2. Under(Architecture, "head_count", 0) \in {Counts(file.truth)["head_count"], 0 % Word}
    BY <1>1, <1>2, CountsAreTrue
  <2>3. Under(Architecture, "head_count", 0) \in Int
    BY <2>1, <2>2
  <2>4. QED
    BY <1>1, <1>2, <1>4, <2>3, EitherIsTrue DEF KvHeads
<1>6. HeadDim \in Nat
  <2>1. ReadEither("key_length", 0, 0) \in Nat
    BY <1>1, <1>2, EitherIsTrue
  <2>2. PerHead("attn_q", Heads) \in Nat
    BY <1>4, PerHeadIsNumber
  <2>3. Hidden \div Heads \in Nat /\ 0 \in Nat
    BY <1>4
  <2>4. QED
    BY <2>1, <2>2, <2>3, Zenon DEF HeadDim
<1>7. KvHeads > 0 /\ HeadDim > 0
  BY DEF Acceptable
<1>8. QED
  BY <1>5, <1>6, <1>7

\* What the first layer's shapes give away.
LEMMA FirstLayerShapes ==
  ASSUME IInv, taken = Described, phase # "refused", Loadable(1, LayerShapes(config)),
         NEW kind \in {"attn_q", "attn_k", "attn_v"}
  PROVE  LayerShapes(config)[kind][2] = TrueShapes(file.truth)[kind][2]
<1>1. kind \in DOMAIN LayerShapes(config) /\ kind \notin Optional
  BY DEF LayerShapes, Optional
<1>2. <<1, kind>> \in DOMAIN infos /\ Fits(<<1, kind>>, LayerShapes(config)[kind])
  BY <1>1, Zenon DEF Loadable
<1>3. PICK i \in DOMAIN file.tensors :
        IsLast(file, i) /\ file.tensors[i].name = <<1, kind>>
            /\ infos[<<1, kind>>] = InfoOf(i, Base)
  BY <1>2, InfosRight
<1>4. infos[<<1, kind>>].rows = file.tensors[i].rows
  BY <1>3 DEF InfoOf
<1>5. Honest(file)
  BY OfFiles DEF IInv, Progress
<1>6. file.tensors[i].name[1] = 1 /\ file.tensors[i].name[2] = kind
  BY <1>3
<1>7. 1 # 0
  OBVIOUS
<1>8. file.tensors[i].rows = TrueShapes(file.truth)[kind][2]
  BY <1>3, <1>5, <1>6, <1>7, Zenon DEF Honest
<1>9. QED
  BY <1>2, <1>4, <1>8, Zenon DEF Fits

-----------------------------------------------------------------------------
(* The steps. *)

\* Of what the steps below leave alone.
LEMMA SameMetadata ==
  ASSUME IInv, UNCHANGED <<file, metadata>>, EntriesRead' = EntriesRead
  PROVE  \A key \in Keys : MetaOf(key)'
<1>1. TAKE key \in Keys
<1>2. MetaOf(key)
  BY DEF IInv
<1>3. QED
  BY <1>2 DEF MetaOf, LastRead

LEMMA SameInfos ==
  ASSUME InfosAre(Base), UNCHANGED <<file, infos>>, InfosRead' = InfosRead, Base' = Base
  PROVE  InfosAre(Base)'
BY DEF InfosAre, InfoOf

LEMMA SameHeld ==
  ASSUME IInv, UNCHANGED <<file, held>>
  PROVE  BytesAreTheTensors'
BY DEF IInv, BytesAreTheTensors

\* What a part adds lies where its tensors lie.
LEMMA PartsAreTheTensors ==
  ASSUME IInv, taken = Described, phase \in {"configured", "loading"}, UNCHANGED file,
         NEW part, NEW shapes, Loadable(part, shapes), LoadPart(part, shapes)
  PROVE  BytesAreTheTensors'
<1> SUFFICES ASSUME NEW i \in DOMAIN file.tensors, IsLast(file, i),
      file.tensors[i].name \in DOMAIN held'
             PROVE  held'[file.tensors[i].name] = Extent(file, i)
                 /\ Extent(file, i).end <= file.size
  BY DEF BytesAreTheTensors
<1> DEFINE name == file.tensors[i].name
<1>1. CASE name \in DOMAIN held
  <2>1. held'[name] = held[name]
    BY <1>1 DEF LoadPart
  <2>2. QED
    BY <1>1, <2>1 DEF IInv, BytesAreTheTensors
<1>2. CASE name \notin DOMAIN held
  <2>1. /\ name \in DOMAIN infos \cap Names(part, shapes)
        /\ held'[name] = [start |-> infos[name].start,
            end |-> infos[name].start + infos[name].bytes]
    BY <1>2 DEF LoadPart
  <2>2. infos[name].start + infos[name].bytes <= file.size
    <3>1. PICK kind \in DOMAIN shapes : name = <<part, kind>>
      BY <2>1 DEF Names
    <3>2. QED
      BY <2>1, <3>1 DEF Loadable
  <2>3. PICK j \in DOMAIN file.tensors :
          IsLast(file, j) /\ file.tensors[j].name = name /\ infos[name] = InfoOf(j, Base)
    BY <2>1, InfosRight
  <2>4. j = i
    <3>1. DOMAIN file.tensors \subseteq Nat
      BY OfFiles DEF IInv, Progress
    <3>2. i <= j /\ j <= i
      BY <2>3 DEF IsLast
    <3>3. QED
      BY <3>1, <3>2
  <2>5. /\ infos[name].start = DataStart(file) + file.tensors[i].offset
        /\ infos[name].bytes = TensorBytes(file.tensors[i].type,
            file.tensors[i].cols * file.tensors[i].rows)
    BY <2>3, <2>4 DEF InfoOf, Base
  <2>6. Extent(file, i) = [start |-> infos[name].start,
          end |-> infos[name].start + infos[name].bytes]
    BY <2>5, Zenon DEF Extent
  <2>7. QED
    BY <2>1, <2>2, <2>6
<1>3. QED
  BY <1>1, <1>2

LEMMA NothingRead ==
  ASSUME Init
  PROVE  EntriesRead = 0 /\ InfosRead = 0
<1> USE DEF Init, FileInit
<1>1. Len(file.entries) \in Nat /\ Len(file.tensors) \in Nat
  BY OfFiles
<1>2. taken < Len(file.entries) \/ Len(file.entries) = taken
  BY <1>1, Counting
<1>3. EntriesRead = 0
  BY <1>2, Zenon DEF EntriesRead, EntriesOf
<1>4. taken - EntriesRead = 0
  BY <1>3
<1>5. QED
  BY <1>3, <1>4 DEF InfosRead

LEMMA InitStep ==
  ASSUME Init
  PROVE  IInv
<1> USE DEF Init, FileInit
<1>1. Len(file.entries) \in Nat /\ Len(file.tensors) \in Nat
  BY OfFiles
<1>2. Progress
  <2>1. taken \in 0 .. Described
    BY <1>1, Counting DEF Described
  <2>2. QED
    BY <2>1 DEF Progress
<1>3. EntriesRead = 0 /\ InfosRead = 0
  BY NothingRead
<1>4. \A key \in Keys : MetaOf(key)
  BY <1>3 DEF MetaOf
<1>5. InfosAre(Base)
  BY DEF InfosAre
<1>6. ConfigSoFar /\ BytesAreTheTensors
  BY DEF ConfigSoFar, BytesAreTheTensors
<1>7. QED
  BY <1>2, <1>4, <1>5, <1>6 DEF IInv

LEMMA ReadEntryStep ==
  ASSUME IInv, ReadEntry
  PROVE  IInv'
<1> USE DEF ReadEntry
<1>1. file \in Files /\ taken \in 0 .. Len(file.entries) + Len(file.tensors)
  BY DEF IInv, Progress, Described
<1>2. /\ Len(file.entries) \in Nat /\ DOMAIN file.entries = 1 .. Len(file.entries)
      /\ Len(file.tensors) \in Nat
  BY <1>1, OfFiles
<1>3. /\ taken + 1 \in 0 .. Len(file.entries) + Len(file.tensors) /\ taken \in Nat
      /\ taken + 1 < Len(file.entries) \/ taken + 1 = Len(file.entries)
  BY <1>1, <1>2, Counting
<1>4. EntriesRead = taken /\ InfosRead = 0
  <2>1. EntriesRead = taken
    BY Zenon DEF EntriesRead, EntriesOf
  <2>2. QED
    BY <1>3, <2>1 DEF InfosRead
<1>5. EntriesRead' = taken + 1 /\ InfosRead' = 0
  <2>1. EntriesRead' = IF taken + 1 < Len(file.entries) THEN taken + 1 ELSE Len(file.entries)
    BY Zenon DEF EntriesRead, EntriesOf
  <2>2. EntriesRead' = taken + 1
    BY <2>1, <1>3, Zenon
  <2>3. QED
    BY <1>3, <2>2 DEF InfosRead
<1>6. Progress'
  BY <1>3 DEF IInv, Progress, Described
<1>7. ASSUME NEW key \in Keys
      PROVE  MetaOf(key)'
  <2> DEFINE entry == file.entries[taken + 1]
  <2>1. MetaOf(key)
    BY DEF IInv
  <2>2. metadata' = With(metadata, entry.key, [type |-> entry.type, value |-> entry.value])
    OBVIOUS
  <2>3. CASE key = entry.key
    <3>1. key \in DOMAIN metadata'
            /\ metadata'[key] = [type |-> entry.type, value |-> entry.value]
      BY <2>2, <2>3 DEF With
    <3>2. PICK n \in Nat : n = taken + 1
      BY <1>3
    <3>3. n \in 1 .. EntriesRead' /\ \A j \in 1 .. EntriesRead' : j <= n
      BY <1>3, <1>5, <3>2
    <3>4. file' = file /\ file.entries[n].key = key
      BY <2>3, <3>2
    <3>5. LastRead(key, n)'
      BY <3>3, <3>4 DEF LastRead
    <3>6. metadata'[key] = [type |-> file'.entries[n].type, value |-> file'.entries[n].value]
      BY <3>1, <3>2, <3>4
    <3>7. QED
      BY <3>1, <3>3, <3>5, <3>6, Zenon DEF MetaOf
  <2>4. CASE key # entry.key
    <3>1. /\ key \in DOMAIN metadata' <=> key \in DOMAIN metadata
          /\ key \in DOMAIN metadata => metadata'[key] = metadata[key]
      BY <2>2, <2>4 DEF With
    <3>2. \A i \in 1 .. EntriesRead' : i \in 1 .. EntriesRead \/ i = taken + 1
      BY <1>3, <1>4, <1>5
    <3>3. 1 .. EntriesRead \subseteq 1 .. EntriesRead'
      BY <1>3, <1>4, <1>5
    <3>4. \A i \in 1 .. EntriesRead : LastRead(key, i) => LastRead(key, i)'
      <4>1. TAKE i \in 1 .. EntriesRead
      <4>2. HAVE LastRead(key, i)
      <4>3. QED
        BY <4>2, <2>4, <3>2 DEF LastRead
    <3>5. CASE key \in DOMAIN metadata
      <4>1. PICK i \in 1 .. EntriesRead :
              LastRead(key, i)
                  /\ metadata[key] = [type |-> file.entries[i].type,
                      value |-> file.entries[i].value]
        BY <2>1, <3>5, Zenon DEF MetaOf
      <4>2. i \in 1 .. EntriesRead' /\ LastRead(key, i)' /\ file' = file
        BY <4>1, <3>3, <3>4
      <4>3. QED
        BY <4>1, <4>2, <3>1, <3>5, Zenon DEF MetaOf
    <3>6. CASE key \notin DOMAIN metadata
      <4>1. \A i \in 1 .. EntriesRead : file.entries[i].key # key
        BY <2>1, <3>6, Zenon DEF MetaOf
      <4>2. \A i \in 1 .. EntriesRead' : file'.entries[i].key # key
        BY <4>1, <2>4, <3>2
      <4>3. QED
        BY <4>2, <3>1, <3>6, Zenon DEF MetaOf
    <3>7. QED
      BY <3>5, <3>6
  <2>5. QED
    BY <2>3, <2>4
<1>8. InfosAre(Base)'
  BY <1>4, <1>5, SameInfos DEF IInv, Base
<1>9. ConfigSoFar' /\ BytesAreTheTensors'
  BY SameHeld DEF ConfigSoFar
<1>10. QED
  BY <1>6, <1>7, <1>8, <1>9 DEF IInv

LEMMA ReadInfoStep ==
  ASSUME IInv, ReadInfo
  PROVE  IInv'
<1> DEFINE bytes == TensorBytes(NextInfo.type, NextInfo.cols * NextInfo.rows)
<1>1. /\ phase = "reading" /\ taken \in Len(file.entries) .. Described - 1 /\ taken' = taken + 1
      /\ infos' = With(infos, NextInfo.name,
                      [cols |-> NextInfo.cols, rows |-> NextInfo.rows, start |-> NextInfo.offset,
                          bytes |-> bytes])
      /\ UNCHANGED <<file, phase, metadata, config, layer, held>>
  BY DEF ReadInfo
<1>2. file \in Files /\ taken \in 0 .. Len(file.entries) + Len(file.tensors)
  BY DEF IInv, Progress, Described
<1>3. /\ Len(file.entries) \in Nat /\ Len(file.tensors) \in Nat
      /\ DOMAIN file.tensors = 1 .. Len(file.tensors)
  BY <1>2, OfFiles
<1>4. PICK a \in Nat, b \in Nat :
        a = Len(file.entries) /\ b = Len(file.tensors) /\ taken \in 0 .. a + b
            /\ taken \in a .. a + b - 1
  <2>1. PICK a \in Nat, b \in Nat : a = Len(file.entries) /\ b = Len(file.tensors)
    BY <1>3
  <2>2. Described = a + b
    BY <2>1 DEF Described
  <2>3. taken \in a .. Described - 1 /\ taken \in 0 .. a + b
    BY <1>1, <1>2, <2>1
  <2>4. taken \in a .. a + b - 1
    BY <2>2, <2>3
  <2>5. QED
    BY <2>1, <2>3, <2>4, Zenon
<1>5. /\ taken + 1 \in 0 .. Len(file.entries) + Len(file.tensors)
      /\ taken >= Len(file.entries) /\ taken + 1 >= Len(file.entries)
      /\ taken + 1 - Len(file.entries) = (taken - Len(file.entries)) + 1
      /\ taken - Len(file.entries) + 1 \in 1 .. Len(file.tensors)
  <2>1. \A t \in a .. a + b - 1 :
          /\ t + 1 \in 0 .. a + b /\ t >= a /\ t + 1 >= a
          /\ t + 1 - a = (t - a) + 1 /\ t - a + 1 \in 1 .. b
    OBVIOUS
  <2>2. QED
    BY <1>4, <2>1, Zenon
<1>6. EntriesRead = Len(file.entries)
  BY <1>2, <1>5, Counters DEF EntriesRead
<1>7. EntriesRead' = Len(file.entries)
  <2>1. EntriesRead' = EntriesOf(file, taken + 1)
    BY <1>1 DEF EntriesRead
  <2>2. EntriesOf(file, taken + 1) = Len(file.entries)
    BY <1>2, <1>5, Counters
  <2>3. QED
    BY <2>1, <2>2
<1>8. PICK n \in 1 .. Len(file.tensors) : n = taken - Len(file.entries) + 1
  BY <1>5
<1>9. InfosRead' = n /\ InfosRead = n - 1 /\ NextInfo = file.tensors[n]
  BY <1>1, <1>3, <1>5, <1>6, <1>7, <1>8 DEF InfosRead, NextInfo
<1>10. Progress'
  <2>1. taken' \in 0 .. Described'
    BY <1>1, <1>5 DEF Described
  <2>2. QED
    BY <1>1, <2>1 DEF IInv, Progress
<1>11. \A key \in Keys : MetaOf(key)'
  BY <1>1, <1>6, <1>7, SameMetadata
<1>12. InfosAre(Base)'
  <2> SUFFICES ASSUME NEW name \in DOMAIN infos'
               PROVE  \E i \in 1 .. n :
                        /\ file.tensors[i].name = name
                        /\ \A j \in 1 .. n : file.tensors[j].name = name => j <= i
                        /\ infos'[name] = InfoOf(i, 0)
    <3>1. Base' = 0 /\ file' = file
      BY <1>1 DEF Base
    <3>2. QED
      BY <1>9, <3>1 DEF InfosAre, InfoOf
  <2>1. Base = 0
    BY <1>1 DEF Base
  <2>2. CASE name = NextInfo.name
    <3>1. infos'[name] = [cols |-> NextInfo.cols, rows |-> NextInfo.rows,
            start |-> NextInfo.offset, bytes |-> bytes]
      BY <1>1, <2>2 DEF With
    <3>2. 0 + file.tensors[n].offset = file.tensors[n].offset
      BY <1>2, <1>3, OfFiles
    <3>3. infos'[name] = InfoOf(n, 0)
      BY <1>9, <3>1, <3>2 DEF InfoOf
    <3>4. n \in 1 .. n /\ \A j \in 1 .. n : j <= n
      OBVIOUS
    <3>5. file.tensors[n].name = name
      BY <1>9, <2>2
    <3>6. QED
      BY <3>3, <3>4, <3>5
  <2>3. CASE name # NextInfo.name
    <3>1. name \in DOMAIN infos /\ infos'[name] = infos[name]
      BY <1>1, <2>3 DEF With
    <3>2. PICK i \in 1 .. InfosRead :
            /\ file.tensors[i].name = name
            /\ \A j \in 1 .. InfosRead : file.tensors[j].name = name => j <= i
            /\ infos[name] = InfoOf(i, Base)
      BY <1>1, <3>1, Zenon DEF IInv, InfosAre
    <3>3. i \in 1 .. n /\ \A j \in 1 .. n : j \in 1 .. InfosRead \/ j = n
      BY <1>9
    <3>4. file.tensors[n].name # name
      BY <1>9, <2>3
    <3>5. QED
      BY <2>1, <3>1, <3>2, <3>3, <3>4
  <2>4. QED
    BY <2>2, <2>3
<1>13. ConfigSoFar' /\ BytesAreTheTensors'
  BY <1>1, SameHeld DEF ConfigSoFar
<1>14. QED
  BY <1>10, <1>11, <1>12, <1>13 DEF IInv

LEMMA PlaceStep ==
  ASSUME IInv, Place
  PROVE  IInv'
<1> DEFINE data == AlignTo(EntrySize * (1 + taken), GetU64(AlignmentKey, 32))
<1>1. /\ phase = "reading" /\ taken = Described /\ phase' = "read"
      /\ infos' = [name \in DOMAIN infos |-> [infos[name] EXCEPT !.start = data + infos[name].start]]
      /\ UNCHANGED <<file, taken, metadata, config, layer, held>>
  BY DEF Place
<1>2. file \in Files
  BY DEF IInv, Progress
<1>3. GetU64(AlignmentKey, 32) = file.alignment
  <2>1. AlignmentKey \in Keys
    BY DEF Keys
  <2>2. GetU64(AlignmentKey, 32) =
          IF SaysCount(file, AlignmentKey) THEN Said(file, AlignmentKey).value ELSE 32
    BY <1>1, <2>1, GetterReads
  <2>3. Honest(file)
    BY <1>2, OfFiles
  <2>4. QED
    BY <2>2, <2>3, Zenon DEF Honest
<1>4. data = DataStart(file) /\ data \in Nat
  <2> DEFINE end == EntrySize * (1 + Len(file.entries) + Len(file.tensors))
  <2>1. file.alignment \in Nat \ {0} /\ EntrySize \in Nat /\ Len(file.entries) \in Nat
          /\ Len(file.tensors) \in Nat
    BY <1>2, OfFiles
  <2>2. \A a \in Nat, b \in Nat, e \in Nat : e * (1 + (a + b)) = e * (1 + a + b)
          /\ e * (1 + a + b) \in Nat
    OBVIOUS
  <2>3. end \in Nat /\ EntrySize * (1 + taken) = end
    BY <1>1, <2>1, <2>2 DEF Described
  <2>4. data = AlignTo(end, file.alignment)
    BY <1>3, <2>3, Zenon
  <2>5. /\ AlignTo(end, file.alignment) \in Nat
        /\ AlignTo(end, file.alignment) = CHOOSE n \in end .. end + file.alignment - 1 :
            n % file.alignment = 0
    <3> HIDE DEF end
    <3>1. QED
      BY <2>1, <2>3, Alignment
  <2>6. QED
    BY <2>4, <2>5 DEF DataStart
<1>5. Progress'
  BY <1>1 DEF IInv, Progress, Described
<1>6. EntriesRead' = EntriesRead /\ InfosRead' = InfosRead
  BY <1>1 DEF EntriesRead, InfosRead
<1>7. \A key \in Keys : MetaOf(key)'
  BY <1>1, <1>6, SameMetadata
<1>8. InfosAre(Base)'
  <2> SUFFICES ASSUME NEW name \in DOMAIN infos'
               PROVE  \E i \in 1 .. InfosRead :
                        /\ file.tensors[i].name = name
                        /\ \A j \in 1 .. InfosRead : file.tensors[j].name = name => j <= i
                        /\ infos'[name] = InfoOf(i, DataStart(file))
    <3>1. Base' = DataStart(file) /\ file' = file
      BY <1>1 DEF Base
    <3>2. QED
      BY <1>6, <3>1 DEF InfosAre, InfoOf
  <2>1. name \in DOMAIN infos /\ Base = 0
    BY <1>1 DEF Base
  <2>2. infos'[name] = [infos[name] EXCEPT !.start = data + infos[name].start]
    BY <1>1, <2>1
  <2>3. PICK i \in 1 .. InfosRead :
          /\ file.tensors[i].name = name
          /\ \A j \in 1 .. InfosRead : file.tensors[j].name = name => j <= i
          /\ infos[name] = InfoOf(i, 0)
    BY <1>1, <2>1, Zenon DEF IInv, InfosAre
  <2>4. file.tensors[i].offset \in Nat
    <3>1. InfosRead = Len(file.tensors)
      BY <1>1, <1>2, CountersAtTheEnd
    <3>2. QED
      BY <1>2, <3>1, OfFiles
  <2>5. data + (0 + file.tensors[i].offset) = DataStart(file) + file.tensors[i].offset
    BY <1>4, <2>4
  <2> HIDE DEF data
  <2>6. infos'[name] = InfoOf(i, DataStart(file))
    BY <2>2, <2>3, <2>5 DEF InfoOf
  <2>7. QED
    BY <2>3, <2>6
<1>9. ConfigSoFar' /\ BytesAreTheTensors'
  BY <1>1, SameHeld DEF ConfigSoFar
<1>10. QED
  BY <1>5, <1>7, <1>8, <1>9 DEF IInv

\* Steps that read nothing more of the file.
LEMMA Unread ==
  ASSUME IInv, UNCHANGED <<file, taken, metadata, infos>>, phase # "refused",
         phase = "reading" <=> phase' = "reading"
  PROVE  (\A key \in Keys : MetaOf(key)') /\ InfosAre(Base)'
<1>1. EntriesRead' = EntriesRead /\ InfosRead' = InfosRead /\ Base' = Base
  BY DEF EntriesRead, InfosRead, Base
<1>2. InfosAre(Base)
  BY DEF IInv
<1>3. QED
  BY <1>1, <1>2, SameMetadata, SameInfos

LEMMA RefuseStep ==
  ASSUME IInv, Refuse
  PROVE  IInv'
<1>1. phase' = "refused" /\ UNCHANGED <<file, taken, metadata, infos, config, layer, held>>
  BY DEF Refuse
<1>2. EntriesRead' = EntriesRead
  BY <1>1 DEF EntriesRead
<1>3. \A key \in Keys : MetaOf(key)'
  BY <1>1, <1>2, SameMetadata
<1>4. Progress' /\ ConfigSoFar' /\ BytesAreTheTensors'
  BY <1>1, SameHeld DEF IInv, Progress, Described, ConfigSoFar
<1>5. QED
  BY <1>1, <1>3, <1>4 DEF IInv

LEMMA ConfigureStep ==
  ASSUME IInv, Configure
  PROVE  IInv'
<1>1. /\ phase = "read" /\ Acceptable /\ phase' = "configured"
      /\ config' = [vocab |-> Vocabulary, hidden |-> Hidden, blocks |-> Blocks,
          ff |-> FeedForward,
                    heads |-> Heads, kv |-> KvHeads, dim |-> HeadDim]
      /\ UNCHANGED <<file, taken, metadata, infos, layer, held>>
  BY DEF Configure
<1>2. taken = Described
  BY <1>1 DEF IInv, Progress
<1>3. (\A key \in Keys : MetaOf(key)') /\ InfosAre(Base)' /\ BytesAreTheTensors'
  BY <1>1, Unread, SameHeld
<1>4. Progress'
  BY <1>1, <1>2 DEF IInv, Progress, Described
<1>5. /\ Hidden = file.truth.hidden /\ Blocks = file.truth.blocks /\ FeedForward = file.truth.ff
      /\ Heads = file.truth.heads /\ Vocabulary = file.truth.vocab
      /\ KvHeads \in Nat \ {0} /\ HeadDim \in Nat \ {0}
  BY <1>1, <1>2, NumbersAreTrue, VocabularyIsTrue, SharesAreNumbers
<1>6. config'.kv = KvHeads /\ config'.dim = HeadDim
  BY <1>1
<1>7. layer' = 0
  BY <1>1 DEF IInv, Progress
<1>8. config' = [vocab |-> file'.truth.vocab, hidden |-> file'.truth.hidden,
        blocks |-> file'.truth.blocks,
                ff |-> file'.truth.ff, heads |-> file'.truth.heads, kv |-> config'.kv,
                    dim |-> config'.dim]
  BY <1>1, <1>5, <1>6, Zenon
<1>9. ConfigSoFar'
  BY <1>5, <1>6, <1>7, <1>8 DEF ConfigSoFar
<1>10. QED
  BY <1>3, <1>4, <1>9 DEF IInv

LEMMA LoadGlobalsStep ==
  ASSUME IInv, LoadGlobals
  PROVE  IInv'
<1>1. /\ phase = "configured" /\ phase' = "loading"
      /\ Loadable(0, GlobalShapes(config)) /\ LoadPart(0, GlobalShapes(config))
      /\ UNCHANGED <<file, taken, metadata, infos, config, layer>>
  BY DEF LoadGlobals, GlobalsAreGood
<1>2. taken = Described
  BY <1>1 DEF IInv, Progress
<1>3. BytesAreTheTensors'
  BY <1>1, <1>2, PartsAreTheTensors
<1>4. (\A key \in Keys : MetaOf(key)') /\ InfosAre(Base)'
  BY <1>1, Unread
<1>5. Progress' /\ ConfigSoFar'
  BY <1>1, <1>2 DEF IInv, Progress, Described, ConfigSoFar
<1>6. QED
  BY <1>3, <1>4, <1>5 DEF IInv

LEMMA LoadLayerStep ==
  ASSUME IInv, LoadLayer
  PROVE  IInv'
<1>1. /\ phase = "loading" /\ phase' \in {"loading", "loaded"} /\ layer' = layer + 1
      /\ Loadable(layer + 1, LayerShapes(config)) /\ LoadPart(layer + 1, LayerShapes(config))
      /\ UNCHANGED <<file, taken, metadata, infos, config>>
  BY DEF LoadLayer
<1>2. taken = Described /\ file \in Files /\ layer \in Nat
  BY <1>1 DEF IInv, Progress
<1>3. BytesAreTheTensors'
  BY <1>1, <1>2, PartsAreTheTensors
<1>4. (\A key \in Keys : MetaOf(key)') /\ InfosAre(Base)'
  BY <1>1, Unread
<1>5. Progress'
  <2>1. layer' \in Nat /\ layer' > 0
    BY <1>1, <1>2
  <2>2. taken' \in 0 .. Described' /\ taken' = Described'
    BY <1>1, <1>2 DEF IInv, Progress, Described
  <2>3. QED
    BY <1>1, <1>2, <2>1, <2>2 DEF Progress
<1>6. /\ config = [vocab |-> file.truth.vocab, hidden |-> file.truth.hidden,
        blocks |-> file.truth.blocks,
                  ff |-> file.truth.ff, heads |-> file.truth.heads, kv |-> config.kv,
                      dim |-> config.dim]
      /\ config.kv \in Nat \ {0} /\ config.dim \in Nat \ {0}
      /\ layer > 0 => /\ config.kv = file.truth.kv /\ config.dim = file.truth.dim
                      /\ file.truth.vdim = file.truth.dim
  BY <1>1 DEF IInv, ConfigSoFar
<1>7. /\ config.kv = file.truth.kv /\ config.dim = file.truth.dim
      /\ file.truth.vdim = file.truth.dim
  <2>1. CASE layer > 0
    BY <1>6, <2>1
  <2>2. CASE layer = 0
    <3>1. Loadable(1, LayerShapes(config))
      BY <1>1, <2>2
    <3>2. \A kind \in {"attn_q", "attn_k", "attn_v"} :
            LayerShapes(config)[kind][2] = TrueShapes(file.truth)[kind][2]
      BY <1>1, <1>2, <3>1, FirstLayerShapes
    <3>3. /\ LayerShapes(config)["attn_q"][2] = config.heads * config.dim
          /\ LayerShapes(config)["attn_k"][2] = config.kv * config.dim
          /\ LayerShapes(config)["attn_v"][2] = config.kv * config.dim
      BY DEF LayerShapes
    <3>4. /\ TrueShapes(file.truth)["attn_q"][2] = file.truth.heads * file.truth.dim
          /\ TrueShapes(file.truth)["attn_k"][2] = file.truth.kv * file.truth.dim
          /\ TrueShapes(file.truth)["attn_v"][2] = file.truth.kv * file.truth.vdim
      BY DEF TrueShapes, LayerShapes
    <3>5. /\ file.truth.heads \in Nat \ {0} /\ file.truth.kv \in Nat \ {0}
          /\ file.truth.dim \in Nat \ {0} /\ file.truth.vdim \in Nat \ {0}
      BY <1>2, TruthTypes, OfFiles
    <3>6. config.heads = file.truth.heads
      BY <1>6
    <3>7. config.dim = file.truth.dim
      <4>1. file.truth.heads * config.dim = file.truth.heads * file.truth.dim
        BY <3>2, <3>3, <3>4, <3>6
      <4>2. QED
        BY <1>6, <3>5, <4>1, Cancel
    <3>8. config.kv = file.truth.kv
      <4>1. config.kv * file.truth.dim = file.truth.kv * file.truth.dim
        BY <3>2, <3>3, <3>4, <3>7
      <4>2. \A x \in Nat, y \in Nat : x * y = y * x
        OBVIOUS
      <4>3. file.truth.dim * config.kv = file.truth.dim * file.truth.kv
        BY <1>6, <3>5, <4>1, <4>2
      <4>4. QED
        BY <1>6, <3>5, <4>3, Cancel
    <3>9. file.truth.vdim = file.truth.dim
      <4>1. file.truth.kv * file.truth.dim = file.truth.kv * file.truth.vdim
        BY <3>2, <3>3, <3>4, <3>7, <3>8
      <4>2. file.truth.kv \in Nat \ {0} /\ file.truth.dim \in Int /\ file.truth.vdim \in Int
        BY <3>5
      <4>3. file.truth.dim = file.truth.vdim
        BY <4>1, <4>2, Cancel, Zenon
      <4>4. QED
        BY <4>3
    <3>10. QED
      BY <3>7, <3>8, <3>9
  <2>3. QED
    BY <1>2, <2>1, <2>2
<1>8. ConfigSoFar'
  BY <1>1, <1>6, <1>7 DEF ConfigSoFar
<1>9. QED
  BY <1>3, <1>4, <1>5, <1>8 DEF IInv

\* What happens in the tokenizer leaves the file alone.
LEMMA OtherStep ==
  ASSUME IInv, UNCHANGED fileVars
  PROVE  IInv'
<1>1. UNCHANGED <<file, phase, taken, metadata, infos, config, layer, held>>
  BY DEF fileVars
<1>2. EntriesRead' = EntriesRead /\ InfosRead' = InfosRead /\ Base' = Base
  BY <1>1 DEF EntriesRead, InfosRead, Base
<1>3. \A key \in Keys : MetaOf(key)'
  BY <1>1, <1>2, SameMetadata
<1>4. phase' # "refused" => InfosAre(Base)'
  BY <1>1, <1>2, SameInfos DEF IInv
<1>5. Progress' /\ ConfigSoFar' /\ BytesAreTheTensors'
  BY <1>1, SameHeld DEF IInv, Progress, Described, ConfigSoFar
<1>6. QED
  BY <1>3, <1>4, <1>5 DEF IInv

LEMMA NextStep ==
  ASSUME IInv, [Next]_vars
  PROVE  IInv'
<1>1. CASE ReadEntry
  BY <1>1, ReadEntryStep
<1>2. CASE ReadInfo
  BY <1>2, ReadInfoStep
<1>3. CASE Place
  BY <1>3, PlaceStep
<1>4. CASE Configure
  BY <1>4, ConfigureStep
<1>5. CASE LoadGlobals
  BY <1>5, LoadGlobalsStep
<1>6. CASE LoadLayer
  BY <1>6, LoadLayerStep
<1>7. CASE RefuseFile \/ RefuseConfig \/ RefuseWeights \/ RefuseTokenizer
  BY <1>7, RefuseStep DEF RefuseFile, RefuseConfig, RefuseWeights, RefuseTokenizer
<1>8. CASE ReadTokenizer \/ Ask \/ Answer \/ UNCHANGED vars
  BY <1>8, OtherStep DEF ReadTokenizer, Ask, Answer, vars
<1>9. QED
  BY <1>1, <1>2, <1>3, <1>4, <1>5, <1>6, <1>7, <1>8 DEF Next, ReadFile, LoadModel

-----------------------------------------------------------------------------
(* That a complete file loads.  Beyond IInv: each name that was read is in *)
(* infos, the layers still to come are layers of the model, and of a       *)
(* complete file all that is derived is right at once.                     *)

NamesRead == \A i \in 1 .. InfosRead : file.tensors[i].name \in DOMAIN infos

SharesRight == config.kv = file.truth.kv /\ config.dim = file.truth.dim

LoadInv ==
  /\ NamesRead
  /\ phase = "loading" => layer < config.blocks
  /\ Complete(file) => /\ phase # "refused"
                       /\ phase \in {"configured", "loading"} => SharesRight

\* What a complete file says, it says under one prefix.
OnePrefix(prefix) ==
  /\ prefix \in {Architecture, "qwen2"}
  /\ \A p \in QwenArchitectures, k \in DOMAIN Counts(file.truth) : p # prefix
      => ~SaysCount(file, <<p, k>>)
  /\ \A k \in {"embedding_length", "block_count", "feed_forward_length", "head_count"} :
       SaysCount(file, <<prefix, k>>)
  /\ SaysCount(file, <<prefix, "head_count_kv">>) \/ file.truth.kv = file.truth.heads

LEMMA ArchitectureIsTrue ==
  ASSUME IInv, taken = Described
  PROVE  Architecture = ArchitectureOf(file)
<1>1. ArchitectureKey \in Keys
  BY DEF Keys
<1>2. CASE ArchitectureKey \in DOMAIN metadata
  <2>1. /\ Said(file, ArchitectureKey) # None
        /\ metadata[ArchitectureKey] =
             [type |-> Said(file, ArchitectureKey).type, value |-> Said(file,
                 ArchitectureKey).value]
    BY <1>1, <1>2, KeysRead
  <2>2. /\ metadata[ArchitectureKey].type = Said(file, ArchitectureKey).type
        /\ metadata[ArchitectureKey].value = Said(file, ArchitectureKey).value
    BY <2>1
  <2>3. QED
    BY <1>2, <2>1, <2>2, Zenon DEF Architecture, ArchitectureOf, Has
<1>3. CASE ArchitectureKey \notin DOMAIN metadata
  <2>1. Said(file, ArchitectureKey) = None
    BY <1>1, <1>3, KeysRead
  <2>2. QED
    BY <1>3, <2>1, Zenon DEF Architecture, ArchitectureOf, Has
<1>4. QED
  BY <1>2, <1>3

LEMMA CompletePrefix ==
  ASSUME IInv, taken = Described, Complete(file)
  PROVE  Architecture \in QwenArchitectures /\ \E prefix : OnePrefix(prefix)
<1>1. Architecture = ArchitectureOf(file) /\ ArchitectureOf(file) \in QwenArchitectures
  BY ArchitectureIsTrue DEF Complete
<1>2. PICK prefix \in {ArchitectureOf(file), "qwen2"} :
        /\ \A i \in DOMAIN file.entries : file.entries[i].key[1] \in {prefix, "general",
            "tokenizer"}
        /\ \A k \in {"embedding_length", "block_count", "feed_forward_length", "head_count"} :
             SaysCount(file, <<prefix, k>>)
        /\ SaysCount(file, <<prefix, "head_count_kv">>) \/ file.truth.kv = file.truth.heads
  BY Zenon DEF Complete
<1>3. ASSUME NEW p \in QwenArchitectures, NEW k \in DOMAIN Counts(file.truth), p # prefix
      PROVE  ~SaysCount(file, <<p, k>>)
  <2>1. p \notin {prefix, "general", "tokenizer"}
    BY <1>3 DEF QwenArchitectures
  <2>2. <<p, k>>[1] = p
    OBVIOUS
  <2>3. \A i \in DOMAIN file.entries : file.entries[i].key # <<p, k>>
    BY <1>2, <2>1, <2>2
  <2>4. Said(file, <<p, k>>) = None
    BY <2>3, SaidNothing
  <2>5. QED
    BY <2>4 DEF SaysCount
<1>4. OnePrefix(prefix)
  BY <1>1, <1>2, <1>3 DEF OnePrefix
<1>5. QED
  BY <1>1, <1>4

LEMMA EitherSays ==
  ASSUME IInv, taken = Described, Complete(file), NEW prefix, OnePrefix(prefix),
         NEW k \in DOMAIN Counts(file.truth), SaysCount(file, <<prefix, k>>),
         NEW d \in Int, prefix = Architecture \/ d = 0, NEW e \in Int
  PROVE  ReadEither(k, d, e) = Counts(file.truth)[k]
<1>1. Architecture \in QwenArchitectures /\ "qwen2" \in QwenArchitectures
  BY CompletePrefix DEF QwenArchitectures
<1>2. Word \in Nat \ {0} /\ Counts(file.truth)[k] \in 1 .. Word - 1
  BY OfFiles, CountsInRange DEF IInv, Progress
<1>3. Counts(file.truth)[k] # 0 /\ 0 % Word = 0
  BY <1>2
<1>4. prefix \in QwenArchitectures
  BY <1>1 DEF OnePrefix
<1>5. CASE prefix = Architecture
  <2>1. Under(Architecture, k, d) = Counts(file.truth)[k]
    BY <1>4, <1>5, CountUnder
  <2>2. QED
    BY <1>3, <2>1, Zenon DEF ReadEither
<1>6. CASE prefix # Architecture
  <2>1. prefix = "qwen2" /\ d = 0 /\ ~SaysCount(file, <<Architecture, k>>)
    BY <1>1, <1>6, Zenon DEF OnePrefix
  <2>2. Under(Architecture, k, d) = 0
    BY <1>1, <1>3, <2>1, CountUnder
  <2>3. Under("qwen2", k, e) = Counts(file.truth)[k]
    BY <1>1, <2>1, CountUnder
  <2>4. QED
    BY <2>2, <2>3, Zenon DEF ReadEither
<1>7. QED
  BY <1>5, <1>6

LEMMA CompleteCounts ==
  ASSUME IInv, taken = Described, Complete(file)
  PROVE  /\ Hidden = file.truth.hidden /\ Blocks = file.truth.blocks
         /\ FeedForward = file.truth.ff /\ Heads = file.truth.heads
<1>1. PICK prefix : OnePrefix(prefix)
  BY CompletePrefix
<1>2. {"embedding_length", "block_count", "feed_forward_length",
        "head_count"} \subseteq DOMAIN Counts(file.truth)
  BY DEF Counts
<1>3. \A k \in {"embedding_length", "block_count", "feed_forward_length", "head_count"} :
        ReadEither(k, 0, 0) = Counts(file.truth)[k]
  BY <1>1, <1>2, EitherSays DEF OnePrefix
<1>4. QED
  BY <1>3 DEF Counts, Hidden, Blocks, FeedForward, Heads

LEMMA CompleteKvHeads ==
  ASSUME IInv, taken = Described, Complete(file)
  PROVE  KvHeads = file.truth.kv
<1>1. PICK prefix : OnePrefix(prefix)
  BY CompletePrefix
<1>2. Architecture \in QwenArchitectures /\ "qwen2" \in QwenArchitectures
  BY CompletePrefix DEF QwenArchitectures
<1>3. {"head_count", "head_count_kv"} \subseteq DOMAIN Counts(file.truth)
  BY DEF Counts
<1>4. /\ Counts(file.truth)["head_count"] = file.truth.heads
      /\ Counts(file.truth)["head_count_kv"] = file.truth.kv
  BY DEF Counts
<1>5. /\ Word \in Nat \ {0} /\ file.truth.heads \in 1 .. Word - 1
      /\ Heads = file.truth.heads
  BY OfFiles, TruthTypes, CompleteCounts DEF IInv, Progress
<1>6. /\ 0 % Word = 0 /\ file.truth.heads % Word = file.truth.heads /\ file.truth.heads # 0
      /\ file.truth.heads \in Int
  BY <1>5
<1> DEFINE d == Under(Architecture, "head_count", 0)
<1>7. prefix = Architecture => d = file.truth.heads
  BY <1>1, <1>2, <1>3, <1>4, CountUnder DEF OnePrefix
<1>8. prefix # Architecture =>
        d = 0 /\ prefix = "qwen2" /\ ~SaysCount(file, <<Architecture, "head_count_kv">>)
  <2> SUFFICES ASSUME prefix # Architecture
               PROVE  d = 0 /\ prefix = "qwen2"
                   /\ ~SaysCount(file, <<Architecture, "head_count_kv">>)
    OBVIOUS
  <2>1. /\ ~SaysCount(file, <<Architecture, "head_count">>)
        /\ ~SaysCount(file, <<Architecture, "head_count_kv">>)
    BY <1>1, <1>2, <1>3 DEF OnePrefix
  <2>2. d = 0
    BY <1>2, <1>3, <1>6, <2>1, CountUnder
  <2>3. QED
    BY <1>1, <2>1, <2>2 DEF OnePrefix
<1>9. d \in Int /\ (prefix = Architecture \/ d = 0)
  BY <1>6, <1>7, <1>8
<1> HIDE DEF d
<1>10. KvHeads = ReadEither("head_count_kv", d, Heads)
  BY DEF KvHeads, d
<1>11. CASE SaysCount(file, <<prefix, "head_count_kv">>)
  BY <1>1, <1>3, <1>4, <1>5, <1>6, <1>9, <1>10, <1>11, EitherSays
<1>12. CASE ~SaysCount(file, <<prefix, "head_count_kv">>)
  <2>1. file.truth.kv = file.truth.heads
    BY <1>1, <1>12 DEF OnePrefix
  <2>2. CASE prefix = Architecture
    <3>1. Under(Architecture, "head_count_kv", d) = file.truth.heads
      BY <1>2, <1>3, <1>6, <1>7, <1>9, <1>12, <2>2, CountUnder
    <3>2. QED
      BY <1>6, <1>10, <2>1, <3>1, Zenon DEF ReadEither
  <2>3. CASE prefix # Architecture
    <3>1. Under(Architecture, "head_count_kv", d) = 0
      BY <1>2, <1>3, <1>6, <1>8, <1>9, <2>3, CountUnder
    <3>2. Under("qwen2", "head_count_kv", Heads) = file.truth.heads
      BY <1>2, <1>3, <1>5, <1>6, <1>8, <1>12, <2>3, CountUnder
    <3>3. QED
      BY <1>10, <2>1, <3>1, <3>2, Zenon DEF ReadEither
  <2>4. QED
    BY <2>2, <2>3
<1>13. QED
  BY <1>11, <1>12

LEMMA CompleteVocabulary ==
  ASSUME IInv, taken = Described, Complete(file)
  PROVE  Vocabulary = file.truth.vocab /\ GetStrings(TokensKey) # <<>>
<1>1. TokensKey \in Keys
  BY DEF Keys
<1>2. Said(file, TokensKey) # None /\ Said(file, TokensKey).type = "strings"
  BY DEF Complete
<1>3. /\ TokensKey \in DOMAIN metadata
      /\ metadata[TokensKey] = [type |-> Said(file, TokensKey).type, value |-> Said(file,
          TokensKey).value]
  BY <1>1, <1>2, KeysRead
<1>4. GetStrings(TokensKey) = Said(file, TokensKey).value
  <2>1. /\ metadata[TokensKey].type = Said(file, TokensKey).type
        /\ metadata[TokensKey].value = Said(file, TokensKey).value
    BY <1>3
  <2>2. QED
    BY <1>2, <1>3, <2>1, Zenon DEF GetStrings, Has
<1>5. Honest(file) /\ file.truth.vocab \in Nat \ {0}
  BY OfFiles DEF IInv, Progress
<1>6. Len(Said(file, TokensKey).value) = file.truth.vocab
  BY <1>2, <1>5, Zenon DEF Honest
<1>7. Len(<<>>) = 0 /\ file.truth.vocab # 0
  BY <1>5
<1>8. QED
  BY <1>4, <1>6, <1>7, Zenon DEF Vocabulary

\* The shape of a name is that of the model.
LEMMA InfosTrue ==
  ASSUME IInv, taken = Described, phase # "refused", NEW part, NEW kind, <<part,
      kind>> \in DOMAIN infos,
         NEW shape,
             shape = IF part = 0 THEN GlobalShapes(file.truth)[kind] ELSE TrueShapes(file.truth)[kind]
  PROVE  infos[<<part, kind>>].cols = shape[1] /\ infos[<<part, kind>>].rows = shape[2]
<1>1. PICK i \in DOMAIN file.tensors :
        IsLast(file, i) /\ file.tensors[i].name = <<part, kind>>
            /\ infos[<<part, kind>>] = InfoOf(i, Base)
  BY InfosRight
<1>2. /\ infos[<<part, kind>>].rows = file.tensors[i].rows
      /\ infos[<<part, kind>>].cols = file.tensors[i].cols
  BY <1>1 DEF InfoOf
<1>3. Honest(file)
  BY OfFiles DEF IInv, Progress
<1>4. file.tensors[i].name[1] = part /\ file.tensors[i].name[2] = kind
  BY <1>1
<1>5. file.tensors[i].cols = shape[1] /\ file.tensors[i].rows = shape[2]
  BY <1>1, <1>3, <1>4, Zenon DEF Honest
<1>6. QED
  BY <1>2, <1>5

LEMMA NamesInInfos ==
  ASSUME IInv, NamesRead, taken = Described, NEW name, Describes(file, name)
  PROVE  name \in DOMAIN infos
<1>1. DOMAIN file.tensors = 1 .. InfosRead
  BY OfFiles, CountersAtTheEnd DEF IInv, Progress
<1>2. QED
  BY <1>1 DEF NamesRead, Describes

LEMMA CompleteHeads ==
  ASSUME IInv, NamesRead, taken = Described, phase # "refused", Complete(file)
  PROVE  HeadDim = file.truth.dim /\ ValueDim = file.truth.dim
<1>1. /\ Heads = file.truth.heads /\ KvHeads = file.truth.kv /\ Hidden = file.truth.hidden
      /\ file.truth.vdim = file.truth.dim
  BY CompleteCounts, CompleteKvHeads DEF Complete
<1>2. /\ file.truth.heads \in Nat \ {0} /\ file.truth.kv \in Nat \ {0}
        /\ file.truth.dim \in Nat \ {0}
      /\ file.truth.blocks \in Nat \ {0}
  BY TruthTypes, OfFiles DEF IInv, Progress
<1>3. \A kind \in {"attn_q", "attn_v"} : <<1, kind>> \in DOMAIN infos
  <2>1. TAKE kind \in {"attn_q", "attn_v"}
  <2>2. kind \in DOMAIN LayerShapes(file.truth) \ Optional /\ 1 \in 1 .. file.truth.blocks
    BY <1>2 DEF LayerShapes, Optional
  <2>3. Describes(file, <<1, kind>>)
    BY <2>2, Zenon DEF Complete
  <2>4. QED
    BY <2>3, NamesInInfos
<1>4. /\ infos[<<1, "attn_q">>].rows = file.truth.heads * file.truth.dim
      /\ infos[<<1, "attn_v">>].rows = file.truth.kv * file.truth.dim
  <2>1. /\ TrueShapes(file.truth)["attn_q"][2] = file.truth.heads * file.truth.dim
        /\ TrueShapes(file.truth)["attn_v"][2] = file.truth.kv * file.truth.dim
    BY <1>1 DEF TrueShapes, LayerShapes
  <2>2. 1 # 0
    OBVIOUS
  <2>3. QED
    BY <1>3, <2>1, <2>2, InfosTrue
<1>5. PerHead("attn_q", Heads) = file.truth.dim /\ PerHead("attn_v", KvHeads) = file.truth.dim
  <2>1. \A h \in {file.truth.heads, file.truth.kv} :
          (h * file.truth.dim) % h = 0 /\ (h * file.truth.dim) \div h = file.truth.dim
    BY <1>2, DivOfMultiple, ZenonT(30)
  <2>2. QED
    BY <1>1, <1>3, <1>4, <2>1, Zenon DEF PerHead
<1>6. /\ ReadEither("key_length", 0, 0) \in {file.truth.dim, 0}
      /\ ReadEither("value_length", 0, 0) \in {file.truth.dim, 0}
  <2>1. "key_length" \in DOMAIN Counts(file.truth) /\ "value_length" \in DOMAIN Counts(file.truth)
    BY DEF Counts
  <2>2. /\ Counts(file.truth)["key_length"] = file.truth.dim
        /\ Counts(file.truth)["value_length"] = file.truth.dim
    BY <1>1 DEF Counts
  <2>3. QED
    BY <2>1, <2>2, CompletePrefix, EitherIsTrue
<1>7. file.truth.dim # 0
  BY <1>2
<1>8. HeadDim = file.truth.dim
  BY <1>5, <1>6, <1>7, Zenon DEF HeadDim
<1>9. QED
  BY <1>5, <1>6, <1>7, <1>8, Zenon DEF ValueDim

LEMMA CompleteAcceptable ==
  ASSUME IInv, NamesRead, taken = Described, phase # "refused", Complete(file)
  PROVE  Acceptable
<1>1. /\ Hidden = file.truth.hidden /\ Blocks = file.truth.blocks /\ FeedForward = file.truth.ff
      /\ Heads = file.truth.heads /\ KvHeads = file.truth.kv /\ Vocabulary = file.truth.vocab
      /\ HeadDim = file.truth.dim /\ ValueDim = file.truth.dim
      /\ Architecture \in QwenArchitectures
  BY CompleteCounts, CompleteKvHeads, CompleteVocabulary, CompleteHeads, CompletePrefix
<1>2. /\ file.truth.hidden > 0 /\ file.truth.blocks > 0 /\ file.truth.ff > 0
        /\ file.truth.heads > 0
      /\ file.truth.kv > 0 /\ file.truth.dim > 0 /\ file.truth.vocab > 0
  <2>1. /\ file.truth.hidden \in 1 .. Word - 1 /\ file.truth.blocks \in 1 .. Word - 1
        /\ file.truth.ff \in 1 .. Word - 1 /\ file.truth.heads \in 1 .. Word - 1
        /\ file.truth.kv \in 1 .. Word - 1 /\ file.truth.dim \in 1 .. Word - 1
        /\ file.truth.vocab \in Nat \ {0} /\ Word \in Nat
    BY TruthTypes, OfFiles DEF IInv, Progress
  <2>2. \A w \in Nat : \A x \in 1 .. w - 1 : x > 0
    OBVIOUS
  <2>3. QED
    BY <2>1, <2>2
<1>3. QED
  BY <1>1, <1>2, Zenon DEF Acceptable

LEMMA BytesAreNumbers ==
  ASSUME NEW type, NEW count \in Nat
  PROVE  TensorBytes(type, count) \in Nat
<1>1. CASE type \in DOMAIN Block
  <2>1. /\ Block[type][1] \in Nat \ {0} /\ Block[type][2] \in Nat
    BY <1>1 DEF Block
  <2>2. \A b \in Nat \ {0}, c \in Nat : ((count + b - 1) \div b) * c \in Nat
    <3>1. TAKE b \in Nat \ {0}, c \in Nat
    <3>2. (count + b - 1) \div b \in Nat
      OBVIOUS
    <3>3. QED
      BY <3>2
  <2>3. QED
    BY <1>1, <2>1, <2>2, Zenon DEF TensorBytes
<1>2. CASE type \notin DOMAIN Block
  <2>1. TensorBytes(type, count) = 0
    BY <1>2, Zenon DEF TensorBytes
  <2>2. QED
    BY <2>1
<1>3. QED
  BY <1>1, <1>2

LEMMA CompleteReaches ==
  ASSUME file \in Files, Complete(file), NEW n \in 0 .. Described
  PROVE  Reaches(n)
<1> DEFINE end == EntrySize * (1 + Len(file.entries) + Len(file.tensors))
           low == EntrySize * (1 + n)
           bytes(i) == TensorBytes(file.tensors[i].type,
               file.tensors[i].cols * file.tensors[i].rows)
<1>1. /\ Len(file.entries) \in Nat /\ Len(file.tensors) \in Nat /\ EntrySize \in Nat
      /\ file.size \in Nat /\ file.alignment \in Nat \ {0}
  BY OfFiles
<1>2. PICK i \in DOMAIN file.tensors : TRUE
  <2>1. "token_embd" \in DOMAIN GlobalShapes(file.truth) \ Optional
    BY DEF GlobalShapes, Optional
  <2>2. Describes(file, <<0, "token_embd">>)
    BY <2>1, Zenon DEF Complete
  <2>3. QED
    BY <2>2, Zenon DEF Describes
<1>3. low \in Nat /\ end \in Nat /\ low <= end
  <2>1. \A a \in Nat, b \in Nat : \A m \in 0 .. a + b : m \in Nat /\ a + b \in Nat /\ m <= a + b
    OBVIOUS
  <2>2. /\ n \in Nat /\ Len(file.entries) + Len(file.tensors) \in Nat
        /\ n <= Len(file.entries) + Len(file.tensors)
    BY <1>1, <2>1, Zenon DEF Described
  <2>3. \A a \in Nat, b \in Nat, e \in Nat : e * (1 + (a + b)) = e * (1 + a + b)
          /\ e * (1 + a + b) \in Nat
    OBVIOUS
  <2>4. EntrySize * (1 + n) <= EntrySize * (1 + (Len(file.entries) + Len(file.tensors)))
    BY <1>1, <2>2, Monotone
  <2>5. EntrySize * (1 + n) \in Nat
    BY <1>1, <2>2
  <2>6. end \in Nat /\ end = EntrySize * (1 + (Len(file.entries) + Len(file.tensors)))
    BY <1>1, <2>3, Zenon
  <2> HIDE DEF end
  <2>7. QED
    BY <2>4, <2>5, <2>6
<1>4. DataStart(file) \in Nat /\ DataStart(file) >= end
  <2> DEFINE start == CHOOSE m \in end .. end + file.alignment - 1 : m % file.alignment = 0
  <2>1. DataStart(file) = start
    BY Zenon DEF DataStart
  <2> HIDE DEF end
  <2>2. start = AlignTo(end, file.alignment) /\ start \in Nat /\ start >= end
    BY <1>1, <1>3, Alignment
  <2>3. QED
    BY <2>1, <2>2
<1>5. file.tensors[i].offset \in Nat /\ bytes(i) \in Nat
  <2>1. file.tensors[i].offset \in Nat /\ file.tensors[i].cols \in Nat
          /\ file.tensors[i].rows \in Nat
    BY <1>2, OfFiles
  <2>2. file.tensors[i].cols * file.tensors[i].rows \in Nat
    BY <2>1
  <2>3. QED
    BY <2>1, <2>2, BytesAreNumbers
<1>6. Extent(file, i).end <= file.size
  BY <1>2, Zenon DEF Complete
<1>7. Extent(file, i).end = DataStart(file) + file.tensors[i].offset + bytes(i)
  BY DEF Extent
<1> HIDE DEF end, low, bytes
<1>8. file.size >= low
  BY <1>1, <1>3, <1>4, <1>5, <1>6, <1>7, SMTT(30)
<1>9. QED
  BY <1>8 DEF Reaches, low

\* Shapes by the configuration are shapes of the model.
LEMMA CompleteShapes ==
  ASSUME IInv, phase \in {"configured", "loading"}, SharesRight, Complete(file)
  PROVE  /\ GlobalShapes(config) = GlobalShapes(file.truth)
         /\ \A kind \in DOMAIN LayerShapes(config) :
             LayerShapes(config)[kind] = TrueShapes(file.truth)[kind]
<1>1. /\ config.hidden = file.truth.hidden /\ config.vocab = file.truth.vocab
      /\ config.ff = file.truth.ff /\ config.heads = file.truth.heads
      /\ config.kv = file.truth.kv /\ config.dim = file.truth.dim
          /\ file.truth.vdim = file.truth.dim
  BY DEF IInv, ConfigSoFar, SharesRight, Complete
<1>2. GlobalShapes(config) = GlobalShapes(file.truth)
        /\ LayerShapes(config) = LayerShapes(file.truth)
  BY <1>1, Zenon DEF GlobalShapes, LayerShapes
<1>3. TrueShapes(file.truth) =
        [LayerShapes(config) EXCEPT !.attn_v = <<config.hidden, config.kv * config.dim>>,
                                    !.attn_v_bias = <<config.kv * config.dim, 1>>,
                                    !.attn_output = <<config.heads * config.dim, config.hidden>>]
  BY <1>1, <1>2, Zenon DEF TrueShapes
<1>4. /\ LayerShapes(config)["attn_v"] = <<config.hidden, config.kv * config.dim>>
      /\ LayerShapes(config)["attn_v_bias"] = <<config.kv * config.dim, 1>>
      /\ LayerShapes(config)["attn_output"] = <<config.heads * config.dim, config.hidden>>
  BY DEF LayerShapes
<1>5. ASSUME NEW kind \in DOMAIN LayerShapes(config)
      PROVE  LayerShapes(config)[kind] = TrueShapes(file.truth)[kind]
  BY <1>3, <1>4
<1>6. QED
  BY <1>2, <1>5

LEMMA CompleteLoadable ==
  ASSUME IInv, NamesRead, taken = Described, phase \in {"configured", "loading"}, SharesRight,
      Complete(file)
  PROVE  /\ Loadable(0, GlobalShapes(config))
         /\ \A part \in 1 .. file.truth.blocks : Loadable(part, LayerShapes(config))
<1>1. /\ GlobalShapes(config) = GlobalShapes(file.truth)
      /\ \A kind \in DOMAIN LayerShapes(config) :
          LayerShapes(config)[kind] = TrueShapes(file.truth)[kind]
      /\ DOMAIN LayerShapes(config) = DOMAIN LayerShapes(file.truth)
  BY CompleteShapes DEF LayerShapes
<1>2. ASSUME NEW name \in DOMAIN infos
      PROVE  infos[name].start + infos[name].bytes <= file.size
  <2>1. PICK i \in DOMAIN file.tensors : infos[name] = InfoOf(i, Base)
    BY InfosRight
  <2>2. infos[name].start + infos[name].bytes = Extent(file, i).end
    BY <2>1 DEF InfoOf, Extent, Base
  <2>3. Extent(file, i).end <= file.size
    BY Zenon DEF Complete
  <2>4. QED
    BY <2>2, <2>3
<1>3. ASSUME NEW kind \in DOMAIN GlobalShapes(config)
      PROVE  IF <<0, kind>> \in DOMAIN infos
             THEN /\ infos[<<0, kind>>].start + infos[<<0, kind>>].bytes <= file.size
                  /\ Fits(<<0, kind>>, GlobalShapes(config)[kind])
             ELSE kind \in Optional
  <2>1. CASE <<0, kind>> \in DOMAIN infos
    <3>1. Fits(<<0, kind>>, GlobalShapes(config)[kind])
      BY <1>1, <2>1, InfosTrue DEF Fits
    <3>2. QED
      BY <1>2, <2>1, <3>1
  <2>2. CASE <<0, kind>> \notin DOMAIN infos
    <3>1. ~Describes(file, <<0, kind>>)
      BY <2>2, NamesInInfos
    <3>2. QED
      BY <1>1, <1>3, <2>2, <3>1, Zenon DEF Complete
  <2>3. QED
    BY <2>1, <2>2
<1>4. ASSUME NEW part \in 1 .. file.truth.blocks, NEW kind \in DOMAIN LayerShapes(config)
      PROVE  IF <<part, kind>> \in DOMAIN infos
             THEN /\ infos[<<part, kind>>].start + infos[<<part, kind>>].bytes <= file.size
                  /\ Fits(<<part, kind>>, LayerShapes(config)[kind])
             ELSE kind \in Optional
  <2>1. CASE <<part, kind>> \in DOMAIN infos
    <3>1. part # 0
      OBVIOUS
    <3>2. Fits(<<part, kind>>, LayerShapes(config)[kind])
      BY <1>1, <2>1, <3>1, InfosTrue DEF Fits
    <3>3. QED
      BY <1>2, <2>1, <3>2
  <2>2. CASE <<part, kind>> \notin DOMAIN infos
    <3>1. ~Describes(file, <<part, kind>>)
      BY <2>2, NamesInInfos
    <3>2. QED
      BY <1>1, <1>4, <2>2, <3>1, Zenon DEF Complete
  <2>3. QED
    BY <2>1, <2>2
<1>5. QED
  BY <1>3, <1>4, Zenon DEF Loadable

\* No stage has a reason to refuse a complete file.
LEMMA CompleteNotRefused ==
  ASSUME IInv, LoadInv, Complete(file)
  PROVE  ~(RefuseFile \/ RefuseConfig \/ RefuseWeights \/ RefuseTokenizer)
<1>1. file \in Files /\ taken \in 0 .. Described /\ layer \in Nat
      /\ (phase \in {"read", "configured", "loading"} => taken = Described)
  BY DEF IInv, Progress
<1>2. NamesRead
  BY DEF LoadInv
<1>3. ~RefuseFile
  <2> SUFFICES ASSUME RefuseFile
               PROVE  FALSE
    OBVIOUS
  <2>1. /\ Len(file.entries) \in Nat /\ DOMAIN file.entries = 1 .. Len(file.entries)
        /\ Len(file.tensors) \in Nat /\ DOMAIN file.tensors = 1 .. Len(file.tensors)
    BY <1>1, OfFiles
  <2>2. /\ Reaches(taken)
        /\ taken < Described => Reaches(taken + 1)
    <3>1. taken < Described => taken + 1 \in 0 .. Described
      <4>1. \A a \in Nat, b \in Nat : \A k \in 0 .. a + b : k < a + b => k + 1 \in 0 .. a + b
        OBVIOUS
      <4>2. QED
        BY <1>1, <2>1, <4>1, Zenon DEF Described
    <3>2. QED
      BY <1>1, <3>1, CompleteReaches
  <2>3. taken < Len(file.entries) => file.entries[taken + 1].type \in MetadataTypes
    <3> SUFFICES ASSUME taken < Len(file.entries)
                 PROVE  file.entries[taken + 1].type \in MetadataTypes
      OBVIOUS
    <3>1. taken \in Nat
      BY <1>1
    <3>2. taken + 1 \in DOMAIN file.entries
      BY <2>1, <3>1
    <3>3. QED
      BY <3>2, Zenon DEF Complete
  <2>4. taken \in Len(file.entries) .. Described - 1 =>
          ~(TensorBytes(NextInfo.type, NextInfo.cols * NextInfo.rows) = 0)
    <3> SUFFICES ASSUME taken \in Len(file.entries) .. Described - 1
                 PROVE  ~(TensorBytes(NextInfo.type, NextInfo.cols * NextInfo.rows) = 0)
      OBVIOUS
    <3>1. taken - Len(file.entries) + 1 \in DOMAIN file.tensors
      <4>1. PICK a \in Nat, b \in Nat : a = Len(file.entries) /\ b = Len(file.tensors)
        BY <2>1
      <4>2. Described = a + b
        BY <4>1 DEF Described
      <4>3. taken \in a .. a + b - 1
        <5>1. taken \in a .. Described - 1
          BY <4>1, Zenon
        <5>2. QED
          BY <4>2, <5>1
      <4>4. taken - a + 1 \in 1 .. b
        BY <4>3
      <4>5. QED
        BY <2>1, <4>1, <4>4
    <3>2. TensorBytes(NextInfo.type, NextInfo.cols * NextInfo.rows) > 0
      BY <3>1, Zenon DEF Complete, NextInfo
    <3>3. ~(0 > 0)
      OBVIOUS
    <3>4. QED
      BY <3>2, <3>3, Zenon
  <2>5. QED
    BY <2>2, <2>3, <2>4, Zenon DEF RefuseFile
<1>4. ~RefuseConfig
  BY <1>1, <1>2, CompleteAcceptable DEF RefuseConfig
<1>5. ~RefuseTokenizer
  BY <1>1, CompleteVocabulary DEF RefuseTokenizer
<1>6. ~RefuseWeights
  <2> SUFFICES ASSUME phase \in {"configured", "loading"}
               PROVE  /\ phase = "configured" => GlobalsAreGood
                      /\ phase = "loading" => Loadable(layer + 1, LayerShapes(config))
    BY DEF RefuseWeights
  <2>1. SharesRight
    BY DEF LoadInv
  <2>2. /\ Loadable(0, GlobalShapes(config))
        /\ \A part \in 1 .. file.truth.blocks : Loadable(part, LayerShapes(config))
    BY <1>1, <1>2, <2>1, CompleteLoadable
  <2>3. /\ config.heads = file.truth.heads /\ config.blocks = file.truth.blocks
        /\ file.truth.blocks \in Nat
    BY <1>1, TruthTypes, OfFiles, SMTT(30) DEF IInv, ConfigSoFar
  <2>4. GlobalsAreGood
    BY <2>1, <2>2, <2>3, Zenon DEF GlobalsAreGood, SharesRight, Complete
  <2>5. ASSUME phase = "loading"
        PROVE  Loadable(layer + 1, LayerShapes(config))
    <3>1. layer < config.blocks
      BY <2>5 DEF LoadInv
    <3>2. layer + 1 \in 1 .. file.truth.blocks
      BY <1>1, <2>3, <3>1
    <3>3. QED
      BY <2>2, <3>2
  <2>6. QED
    BY <2>4, <2>5
<1>7. QED
  BY <1>3, <1>4, <1>5, <1>6

\* The names of what was read.
LEMMA NamesReadKept ==
  ASSUME IInv, NamesRead, UNCHANGED <<file, taken>>, DOMAIN infos' = DOMAIN infos
  PROVE  NamesRead'
BY DEF NamesRead, InfosRead, EntriesRead

LEMMA NamesReadStep ==
  ASSUME IInv, NamesRead, ReadEntry \/ ReadInfo
  PROVE  NamesRead'
<1>1. file \in Files /\ taken \in 0 .. Len(file.entries) + Len(file.tensors) /\ file' = file
        /\ taken' = taken + 1
  BY DEF IInv, Progress, Described, ReadEntry, ReadInfo
<1>2. Len(file.entries) \in Nat /\ Len(file.tensors) \in Nat
  BY <1>1, OfFiles
<1>3. CASE ReadEntry
  <2>1. taken + 1 < Len(file.entries) \/ taken + 1 = Len(file.entries)
    BY <1>1, <1>2, <1>3, Counting DEF ReadEntry
  <2>2. EntriesRead' = taken + 1
    <3>1. EntriesRead' = IF taken + 1 < Len(file.entries) THEN taken + 1 ELSE Len(file.entries)
      BY <1>1, Zenon DEF EntriesRead, EntriesOf
    <3>2. QED
      BY <2>1, <3>1, Zenon
  <2>3. InfosRead' = 0
    BY <1>1, <1>2, <2>2 DEF InfosRead
  <2>4. QED
    BY <2>3 DEF NamesRead
<1>4. CASE ReadInfo
  <2>1. PICK a \in Nat, b \in Nat : a = Len(file.entries) /\ b = Len(file.tensors)
    BY <1>2
  <2>2. taken \in a .. a + b - 1
    <3>1. Described = a + b
      BY <2>1 DEF Described
    <3>2. taken \in Len(file.entries) .. Described - 1
      BY <1>4, Zenon DEF ReadInfo
    <3>3. taken \in a .. Described - 1
      BY <2>1, <3>2, Zenon
    <3>4. QED
      BY <3>1, <3>3
  <2>3. /\ taken + 1 \in 0 .. a + b /\ taken >= a /\ taken + 1 >= a
        /\ taken + 1 - a = (taken - a) + 1 /\ taken - a \in Nat
    BY <2>2
  <2>4. EntriesRead = Len(file.entries)
    BY <1>1, <2>1, <2>3, Counters DEF EntriesRead
  <2>5. EntriesRead' = Len(file.entries)
    <3>1. EntriesRead' = EntriesOf(file, taken + 1)
      BY <1>1 DEF EntriesRead
    <3>2. EntriesOf(file, taken + 1) = Len(file.entries)
      BY <1>1, <2>1, <2>3, Counters
    <3>3. QED
      BY <3>1, <3>2
  <2>6. PICK n \in Nat : n = taken - Len(file.entries)
    BY <2>1, <2>3
  <2>7. InfosRead = n /\ InfosRead' = n + 1
    BY <1>1, <2>1, <2>3, <2>4, <2>5, <2>6 DEF InfosRead
  <2>8. NextInfo = file.tensors[n + 1] /\ DOMAIN infos' = DOMAIN infos \cup {NextInfo.name}
    BY <1>4, <2>6 DEF NextInfo, ReadInfo, With
  <2>9. \A i \in 1 .. n + 1 : i \in 1 .. n \/ i = n + 1
    OBVIOUS
  <2>10. ASSUME NEW i \in 1 .. n + 1
         PROVE  file.tensors[i].name \in DOMAIN infos'
    BY <2>7, <2>8, <2>9 DEF NamesRead
  <2>11. QED
    BY <1>1, <2>7, <2>10 DEF NamesRead
<1>5. QED
  BY <1>3, <1>4

LEMMA LoadInit ==
  ASSUME Init
  PROVE  LoadInv
<1>1. phase = "reading" /\ InfosRead = 0
  BY NothingRead DEF Init, FileInit
<1>2. QED
  BY <1>1 DEF LoadInv, NamesRead

LEMMA LoadNext ==
  ASSUME IInv, LoadInv, [Next]_vars
  PROVE  LoadInv'
<1>1. NamesRead /\ file' = file
  BY DEF LoadInv, Next, ReadFile, LoadModel, ReadEntry, ReadInfo, RefuseFile, Place,
     ReadTokenizer, RefuseTokenizer,
         Configure, RefuseConfig, LoadGlobals, LoadLayer, RefuseWeights, Refuse, Ask, Answer,
             vars, fileVars
<1>2. Complete(file)' <=> Complete(file)
  BY <1>1, Zenon
<1>3. CASE ReadEntry \/ ReadInfo
  <2>1. NamesRead'
    BY <1>1, <1>3, NamesReadStep
  <2>2. phase' = "reading"
    BY <1>3 DEF ReadEntry, ReadInfo
  <2>3. QED
    BY <2>1, <2>2 DEF LoadInv
<1>4. CASE Place
  <2>1. NamesRead'
    BY <1>1, <1>4, NamesReadKept DEF Place
  <2>2. phase' = "read"
    BY <1>4 DEF Place
  <2>3. QED
    BY <2>1, <2>2 DEF LoadInv
<1>5. CASE Configure
  <2>1. NamesRead' /\ phase' = "configured" /\ phase = "read"
    BY <1>1, <1>5, NamesReadKept DEF Configure
  <2>2. config'.kv = KvHeads /\ config'.dim = HeadDim
    BY <1>5 DEF Configure
  <2>3. taken = Described
    BY <2>1 DEF IInv, Progress
  <2>4. Complete(file) => SharesRight'
    BY <1>1, <2>1, <2>2, <2>3, CompleteKvHeads, CompleteHeads DEF SharesRight
  <2>5. QED
    BY <1>2, <2>1, <2>4 DEF LoadInv
<1>6. CASE LoadGlobals
  <2>1. NamesRead' /\ phase' = "loading" /\ phase = "configured" /\ config' = config
          /\ layer' = layer
    BY <1>1, <1>6, NamesReadKept DEF LoadGlobals
  <2>2. layer = 0 /\ file \in Files /\ config.blocks = file.truth.blocks
    BY <2>1 DEF IInv, Progress, ConfigSoFar
  <2>3. file.truth.blocks > 0
    <3>1. file.truth.blocks \in 1 .. Word - 1 /\ Word \in Nat
      BY <2>2, TruthTypes, OfFiles
    <3>2. QED
      BY <3>1
  <2>4. SharesRight' <=> SharesRight
    BY <1>1, <2>1 DEF SharesRight
  <2>5. QED
    BY <1>2, <2>1, <2>2, <2>3, <2>4 DEF LoadInv
<1>7. CASE LoadLayer
  <2>1. /\ NamesRead' /\ phase = "loading" /\ config' = config /\ layer' = layer + 1
        /\ phase' = IF layer + 1 = config.blocks THEN "loaded" ELSE "loading"
    BY <1>1, <1>7, NamesReadKept DEF LoadLayer
  <2>2. layer \in Nat /\ layer < config.blocks /\ config.blocks \in Nat
    <3>1. file \in Files /\ config.blocks = file.truth.blocks /\ layer \in Nat
      BY <2>1 DEF IInv, Progress, ConfigSoFar
    <3>2. file.truth.blocks \in 1 .. Word - 1 /\ Word \in Nat
      BY <3>1, TruthTypes, OfFiles
    <3>3. QED
      BY <2>1, <3>1, <3>2 DEF LoadInv
  <2>3. phase' = "loading" => layer' < config'.blocks
    BY <2>1, <2>2
  <2>4. SharesRight' <=> SharesRight
    BY <1>1, <2>1 DEF SharesRight
  <2>5. phase' # "refused"
    BY <2>1
  <2>6. QED
    BY <1>2, <2>1, <2>3, <2>4, <2>5 DEF LoadInv
<1>8. CASE RefuseFile \/ RefuseConfig \/ RefuseWeights \/ RefuseTokenizer
  <2>1. Refuse
    BY <1>8 DEF RefuseFile, RefuseConfig, RefuseWeights, RefuseTokenizer
  <2>2. NamesRead' /\ phase' = "refused"
    BY <1>1, <2>1, NamesReadKept DEF Refuse
  <2>3. ~Complete(file)
    BY <1>8, CompleteNotRefused
  <2>4. QED
    BY <1>2, <2>2, <2>3 DEF LoadInv
<1>9. CASE ReadTokenizer \/ Ask \/ Answer \/ UNCHANGED vars
  <2>1. UNCHANGED <<file, phase, taken, infos, config, layer>>
    BY <1>9 DEF ReadTokenizer, Ask, Answer, vars, fileVars
  <2>2. NamesRead'
    BY <1>1, <2>1, NamesReadKept
  <2>3. SharesRight' <=> SharesRight
    BY <2>1 DEF SharesRight
  <2>4. QED
    BY <1>2, <2>1, <2>2, <2>3 DEF LoadInv
<1>10. QED
  BY <1>3, <1>4, <1>5, <1>6, <1>7, <1>8, <1>9 DEF Next, ReadFile, LoadModel

-----------------------------------------------------------------------------
(* Bytes, their visible characters, and numbers to recur on. *)

\* A set of numbers has a least one.
LEMMA LeastNatural ==
  ASSUME NEW T, T \subseteq Nat, T # {}
  PROVE  \E x \in T : \A y \in T : x <= y
<1> DEFINE R == OpToRel(<, Nat)
<1>1. IsWellFoundedOn(R, Nat)
  BY NatLessThanWellFounded, Zenon
<1>2. \A x, y \in Nat : x < y => <<x, y>> \in R
  BY DEF OpToRel
<1> HIDE DEF R
<1>3. PICK x \in T : \A y \in T : ~ (<<y, x>> \in R)
  BY <1>1, WFMin, Zenon
<1>4. ASSUME NEW y \in T PROVE x <= y
  <2>1. ~(y < x)
    BY <1>2, <1>3
  <2>2. QED
    BY <2>1
<1>5. QED
  BY <1>4

\* And a greatest one if it is bounded.
LEMMA GreatestNatural ==
  ASSUME NEW n \in Nat, NEW T, T \subseteq 0 .. n, T # {}
  PROVE  \E x \in T : \A y \in T : y <= x
<1> DEFINE R == {n - y : y \in T}
<1>1. R \subseteq Nat /\ R # {}
  <2>1. \A y \in T : n - y \in Nat
    OBVIOUS
  <2>2. QED
    BY <2>1
<1>2. PICK x \in R : \A y \in R : x <= y
  BY <1>1, LeastNatural
<1>3. PICK z \in T : x = n - z
  OBVIOUS
<1>4. ASSUME NEW y \in T PROVE y <= z
  <2>1. n - y \in R
    OBVIOUS
  <2>2. n - z <= n - y
    BY <1>2, <1>3, <2>1
  <2>3. QED
    BY <2>2
<1>5. QED
  BY <1>4

\* A set that holds a number if it holds all greater ones up to a last number.
LEMMA InductionDown ==
  ASSUME NEW lo \in Nat, NEW hi \in Nat, NEW S,
         \A i \in lo .. hi : (\A j \in i + 1 .. hi : j \in S) => i \in S
  PROVE  lo .. hi \subseteq S
<1> SUFFICES ASSUME (lo .. hi) \ S # {}
             PROVE  FALSE
  OBVIOUS
<1>1. (lo .. hi) \ S \subseteq 0 .. hi
  OBVIOUS
<1>2. PICK x \in (lo .. hi) \ S : \A y \in (lo .. hi) \ S : y <= x
  BY <1>1, GreatestNatural
<1>3. \A j \in x + 1 .. hi : j \in S
  BY <1>2
<1>4. QED
  BY <1>2, <1>3

\* f where it ends, and from where it goes on.
Continues(f, S, ends, base, next, goOn) ==
  \A i \in S : f[i] = IF i \in ends THEN base[i] ELSE goOn[i][f[next[i]]]

\* A function whose values depend on its values further on exists.
LEMMA RecursionDown ==
  ASSUME NEW lo \in Nat, NEW hi \in Nat, NEW V, NEW ends, NEW base \in [lo .. hi -> V],
         NEW next \in [lo .. hi -> lo .. hi], NEW goOn \in [lo .. hi -> [V -> V]],
         \A i \in lo .. hi : i \notin ends => next[i] > i
  PROVE  \E f \in [lo .. hi -> V] : Continues(f, lo .. hi, ends, base, next, goOn)
<1> DEFINE Upto(f, i) == Continues(f, i .. hi, ends, base, next, goOn)
           S == {i \in lo .. hi : \E f \in [lo .. hi -> V] : Upto(f, i)}
<1>1. ASSUME NEW i \in lo .. hi, \A j \in i + 1 .. hi : j \in S
      PROVE  i \in S
  <2>1. PICK f \in [lo .. hi -> V] : \A j \in i + 1 .. hi :
               f[j] = IF j \in ends THEN base[j] ELSE goOn[j][f[next[j]]]
    <3>1. CASE i = hi
      <4>1. \A j \in i + 1 .. hi : FALSE
        BY <3>1
      <4>2. QED
        BY <4>1
    <3>2. CASE i # hi
      <4>1. i + 1 \in S
        BY <1>1, <3>2
      <4>2. PICK f \in [lo .. hi -> V] : Continues(f, i + 1 .. hi, ends, base, next, goOn)
        BY <4>1
      <4>3. QED
        BY <4>2, Zenon DEF Continues
    <3>3. QED
      BY <3>1, <3>2
  <2> DEFINE v == IF i \in ends THEN base[i] ELSE goOn[i][f[next[i]]]
             g == [f EXCEPT ![i] = v]
  <2>2. v \in V
    OBVIOUS
  <2>3. g \in [lo .. hi -> V] /\ g[i] = v /\ \A j \in lo .. hi : j # i => g[j] = f[j]
    BY <2>2
  <2> HIDE DEF g
  <2>4. ASSUME NEW j \in i .. hi
        PROVE  g[j] = IF j \in ends THEN base[j] ELSE goOn[j][g[next[j]]]
    <3>1. j \notin ends => next[j] \in lo .. hi /\ next[j] # i
      OBVIOUS
    <3>2. j \notin ends => g[next[j]] = f[next[j]]
      BY <2>3, <3>1
    <3>3. CASE j = i
      BY <2>3, <3>2, <3>3
    <3>4. CASE j # i
      <4>1. j \in i + 1 .. hi /\ j \in lo .. hi
        BY <3>4
      <4>2. g[j] = f[j]
        BY <2>3, <3>4, <4>1
      <4>3. QED
        BY <2>1, <3>2, <4>1, <4>2
    <3>5. QED
      BY <3>3, <3>4
  <2>5. Upto(g, i)
    BY <2>4 DEF Continues
  <2>6. QED
    BY <2>3, <2>5
<1>2. CASE lo > hi
  <2>1. PICK f \in [lo .. hi -> V] : f = base
    OBVIOUS
  <2>2. QED
    BY <1>2, <2>1 DEF Continues
<1>3. CASE lo <= hi
  <2> HIDE DEF S
  <2>1. lo .. hi \subseteq S
    BY <1>1, InductionDown
  <2>2. lo \in S
    BY <1>3, <2>1
  <2>3. QED
    BY <2>2 DEF S
<1>4. QED
  BY <1>2, <1>3

\* What holds first and goes on holds up to the last.
LEMMA InductionUp ==
  ASSUME NEW hi \in Nat, NEW S, 0 \in S, \A n \in 1 .. hi : n - 1 \in S => n \in S
  PROVE  0 .. hi \subseteq S
<1> DEFINE T == {n \in 0 .. hi : n \notin S}
<1>1. SUFFICES ASSUME T # {} PROVE FALSE
  OBVIOUS
<1>2. T \subseteq Nat
  OBVIOUS
<1>3. PICK n \in T : \A m \in T : n <= m
  <2> HIDE DEF T
  <2>1. QED
    BY <1>1, <1>2, LeastNatural
<1>4. n \in 1 .. hi
  BY <1>3
<1>5. n - 1 \in S
  BY <1>3, <1>4
<1>6. QED
  BY <1>3, <1>4, <1>5

\* f where it begins, and from where it goes on.
Unrolls(f, hi, v, goOn) == f[0] = v /\ \A n \in 1 .. hi : f[n] = goOn[n][f[n - 1]]

\* A function whose values depend on the ones before exists.
LEMMA RecursionUp ==
  ASSUME NEW hi \in Nat, NEW V, NEW v \in V, NEW goOn \in [1 .. hi -> [V -> V]]
  PROVE  \E f \in [0 .. hi -> V] : Unrolls(f, hi, v, goOn)
<1> DEFINE base == [i \in 0 .. hi |-> v]
           next == [i \in 0 .. hi |-> IF i = hi THEN i ELSE i + 1]
           back == [i \in 0 .. hi |-> IF i = hi THEN [x \in V |-> x] ELSE goOn[hi - i]]
<1>1. base \in [0 .. hi -> V] /\ next \in [0 .. hi -> 0 .. hi]
  OBVIOUS
<1>2. back \in [0 .. hi -> [V -> V]]
  <2>1. \A i \in 0 .. hi : i # hi => hi - i \in 1 .. hi
    OBVIOUS
  <2>2. [x \in V |-> x] \in [V -> V]
    OBVIOUS
  <2>3. QED
    BY <2>1, <2>2
<1>3. \A i \in 0 .. hi : base[i] = v /\ (i # hi => next[i] = i + 1 /\ back[i] = goOn[hi - i])
  OBVIOUS
<1> HIDE DEF base, next, back
<1>4. PICK g \in [0 .. hi -> V] : Continues(g, 0 .. hi, {hi}, base, next, back)
  <2>1. 0 \in Nat /\ \A i \in 0 .. hi : i \notin {hi} => next[i] > i
    BY <1>3
  <2>2. QED
    BY <1>1, <1>2, <2>1, RecursionDown
<1> DEFINE f == [n \in 0 .. hi |-> g[hi - n]]
<1>5. \A n \in 0 .. hi : hi - n \in 0 .. hi
  OBVIOUS
<1>6. f \in [0 .. hi -> V] /\ \A n \in 0 .. hi : f[n] = g[hi - n]
  BY <1>5
<1> HIDE DEF f
<1>7. f[0] = v
  <2>1. hi \in 0 .. hi /\ 0 \in 0 .. hi /\ hi - 0 = hi
    OBVIOUS
  <2>2. g[hi] = v
    BY <1>3, <1>4, <2>1 DEF Continues
  <2>3. QED
    BY <1>6, <2>1, <2>2
<1>8. ASSUME NEW n \in 1 .. hi
      PROVE  f[n] = goOn[n][f[n - 1]]
  <2>1. PICK i \in 0 .. hi : i = hi - n /\ i # hi /\ hi - i = n /\ i + 1 = hi - (n - 1)
          /\ n - 1 \in 0 .. hi
    OBVIOUS
  <2>2. g[i] = goOn[n][g[i + 1]]
    BY <1>3, <1>4, <2>1, ZenonT(30) DEF Continues
  <2>3. f[n] = g[i] /\ f[n - 1] = g[i + 1]
    BY <1>6, <2>1
  <2>4. QED
    BY <2>2, <2>3
<1>9. QED
  BY <1>6, <1>7, <1>8 DEF Unrolls

-----------------------------------------------------------------------------
(* One rule through a text. *)

-----------------------------------------------------------------------------
\* Code points fit in two bytes.
LEMMA CodePointRange ==
  ASSUME NEW b \in Byte
  PROVE  /\ b \in Visible => CodePoint(b) = b
         /\ b \notin Visible => CodePoint(b) \in Nat /\ 256 <= CodePoint(b) /\ CodePoint(b) <= 511
<1> DEFINE C == {c \in 0 .. b - 1 : c \notin Visible}
<1>1. IsFiniteSet(0 .. b - 1) /\ Cardinality(0 .. b - 1) = b
  <2>1. 0 \in Int /\ b - 1 \in Int /\ (0 > b - 1 <=> b = 0) /\ b - 1 - 0 + 1 = b
    BY DEF Byte
  <2>2. QED
    BY <2>1, FS_Interval
<1>2. C \subseteq 0 .. b - 1
  OBVIOUS
<1> HIDE DEF C
<1>3. IsFiniteSet(C) /\ Cardinality(C) <= b /\ Cardinality(C) \in Nat
  BY <1>1, <1>2, FS_Subset, FS_CardinalityType
<1> USE DEF C
<1>4. QED
  BY <1>3 DEF CodePoint, Byte

\* Two bytes never have the same character.
LEMMA CodePointsApart ==
  ASSUME NEW b \in Byte, NEW c \in Byte, CodePoint(b) = CodePoint(c)
  PROVE  b = c
<1> DEFINE C(x) == {y \in 0 .. x - 1 : y \notin Visible}
<1>1. \A x \in Byte : IsFiniteSet(C(x)) /\ Cardinality(C(x)) \in Nat
  <2>1. ASSUME NEW x \in Byte
        PROVE  IsFiniteSet(C(x)) /\ Cardinality(C(x)) \in Nat
    <3>1. IsFiniteSet(0 .. x - 1)
      BY FS_Interval DEF Byte
    <3>2. C(x) \subseteq 0 .. x - 1
      OBVIOUS
    <3> HIDE DEF C
    <3>3. QED
      BY <3>1, <3>2, FS_Subset, FS_CardinalityType
  <2>2. QED
    BY <2>1
<1>2. ASSUME NEW x \in Byte, NEW y \in Byte, x < y, x \notin Visible
      PROVE  Cardinality(C(x)) < Cardinality(C(y))
  <2>1. C(x) \subseteq C(y) /\ x \in C(y) /\ x \notin C(x)
    BY <1>2 DEF Byte
  <2> HIDE DEF C
  <2>2. C(x) # C(y)
    BY <2>1
  <2>3. Cardinality(C(x)) <= Cardinality(C(y)) /\ Cardinality(C(x)) # Cardinality(C(y))
    BY <1>1, <2>1, <2>2, FS_Subset
  <2>4. QED
    BY <1>1, <2>3
<1>3. CASE b \in Visible \/ c \in Visible
  <2> HIDE DEF C
  <2>1. \A x \in Byte : (x \in Visible => CodePoint(x) = x) /\ (x \notin Visible
          => 256 <= CodePoint(x))
    BY CodePointRange
  <2>2. \A x \in Byte : ~(256 <= x)
    BY DEF Byte
  <2>3. QED
    BY <1>3, <2>1, <2>2, ZenonT(30)
<1>4. CASE b \notin Visible /\ c \notin Visible
  <2>1. CodePoint(b) = 256 + Cardinality(C(b)) /\ CodePoint(c) = 256 + Cardinality(C(c))
    BY <1>4, Zenon DEF CodePoint
  <2>2. Cardinality(C(b)) \in Nat /\ Cardinality(C(c)) \in Nat
    BY <1>1, Zenon
  <2>3. (b < c => Cardinality(C(b)) < Cardinality(C(c))) /\ (c < b
          => Cardinality(C(c)) < Cardinality(C(b)))
    BY <1>2, <1>4, Zenon
  <2> HIDE DEF C
  <2>4. ~(b < c) /\ ~(c < b)
    <3>1. \A u \in Nat, v \in Nat : 256 + u = 256 + v => ~(u < v) /\ ~(v < u)
      OBVIOUS
    <3>2. QED
      BY <2>1, <2>2, <2>3, <3>1, Zenon
  <2>5. QED
    BY <2>4 DEF Byte
<1>5. QED
  BY <1>3, <1>4

\* A code point is in the part of the table of its byte.
LEMMA CodePointPlace ==
  ASSUME NEW b \in Byte
  PROVE  CodePoint(b) \in 33 .. 126 \/ CodePoint(b) \in 128 .. 511
<1>1. b \in Visible => b \in 33 .. 126 \/ b \in 128 .. 511
  BY DEF Visible
<1>2. QED
  BY <1>1, CodePointRange

LEMMA Halves ==
  ASSUME NEW n \in 128 .. 511
  PROVE  n \div 64 \in 2 .. 7 /\ n % 64 \in 0 .. 63 /\ n = 64 * (n \div 64) + (n % 64)
OBVIOUS

\* A character is one byte, which may be "<", or two of which the first
\* tells so; none of them is a new line.
LEMMA Encoded ==
  ASSUME NEW b \in Byte
  PROVE  /\ ByteEncoder[b] \in Seq(Byte)
         /\ Len(ByteEncoder[b]) \in 1 .. 2
         /\ Utf8CharSize(ByteEncoder[b][1]) = Len(ByteEncoder[b])
         /\ \A i \in 1 .. Len(ByteEncoder[b]) : ByteEncoder[b][i] # NewLine
         /\ ByteEncoder[b][1] = Less => ByteEncoder[b] = <<Less>>
<1> DEFINE cp == CodePoint(b)
<1>1. ByteEncoder[b] = Utf8(cp)
  BY DEF ByteEncoder
<1>2. cp \in 33 .. 126 \/ cp \in 128 .. 511
  BY CodePointPlace
<1> HIDE DEF cp
<1>3. CASE cp \in 33 .. 126
  <2>1. Utf8(cp) = <<cp>>
    BY <1>3 DEF Utf8
  <2>2. Utf8CharSize(cp) = 1
    BY <1>3 DEF Utf8CharSize
  <2>3. QED
    BY <1>1, <1>3, <2>1, <2>2 DEF Byte, NewLine
<1>4. CASE cp \in 128 .. 511
  <2>1. PICK q \in 2 .. 7, r \in 0 .. 63 : q = cp \div 64 /\ r = cp % 64
    BY <1>4, Halves
  <2>2. Utf8(cp) = <<192 + q, 128 + r>>
    BY <1>4, <2>1 DEF Utf8
  <2>3. Utf8CharSize(192 + q) = 2
    <3>1. (192 + q) \div 32 = 6 /\ ~(192 + q < 128)
      OBVIOUS
    <3>2. QED
      BY <3>1 DEF Utf8CharSize
  <2>4. QED
    BY <1>1, <2>2, <2>3 DEF Byte, NewLine, Less
<1>5. QED
  BY <1>2, <1>3, <1>4

\* Characters of two bytes differ in their bytes.
LEMMA EncodedApart ==
  ASSUME NEW b \in Byte, NEW c \in Byte, ByteEncoder[b] = ByteEncoder[c]
  PROVE  b = c
<1>1. Utf8(CodePoint(b)) = Utf8(CodePoint(c))
  BY DEF ByteEncoder
<1>2. \A x \in Byte : CodePoint(x) \in 33 .. 126 \/ CodePoint(x) \in 128 .. 511
  BY CodePointPlace
<1>3. \A m \in 33 .. 126, n \in 33 .. 126 : Utf8(m) = Utf8(n) => m = n
  BY DEF Utf8
<1>4. (\A k \in 128 .. 511 : Len(Utf8(k)) = 2) /\ (\A k \in 33 .. 126 : Len(Utf8(k)) = 1)
  <2>1. \A k \in 128 .. 511 : Len(Utf8(k)) = 2
    BY DEF Utf8
  <2>2. \A k \in 33 .. 126 : Len(Utf8(k)) = 1
    BY DEF Utf8
  <2>3. QED
    BY <2>1, <2>2
<1>5. ASSUME NEW m \in 128 .. 511, NEW n \in 128 .. 511, Utf8(m) = Utf8(n)
      PROVE  m = n
  <2>1. PICK a \in Int, b1 \in Int, c1 \in Int, d \in Int :
               a = m \div 64 /\ b1 = m % 64 /\ c1 = n \div 64 /\ d = n % 64
    BY Halves
  <2>2. Utf8(m) = <<192 + a, 128 + b1>> /\ Utf8(n) = <<192 + c1, 128 + d>>
    BY <2>1 DEF Utf8
  <2>3. Utf8(m)[1] = 192 + a /\ Utf8(m)[2] = 128 + b1 /\ Utf8(n)[1] = 192 + c1
          /\ Utf8(n)[2] = 128 + d
    BY <2>2
  <2>4. a = c1 /\ b1 = d
    BY <1>5, <2>3
  <2>5. QED
    BY <2>1, <2>4, Halves
<1>6. CodePoint(b) = CodePoint(c)
  <2> DEFINE x == CodePoint(b)
             y == CodePoint(c)
  <2>1. (x \in 33 .. 126 \/ x \in 128 .. 511) /\ (y \in 33 .. 126 \/ y \in 128 .. 511)
    BY <1>2, Zenon
  <2>2. Utf8(x) = Utf8(y)
    BY <1>1
  <2> HIDE DEF x, y
  <2>3. x \in 33 .. 126 /\ y \in 33 .. 126 => x = y
    BY <1>3, <2>2
  <2>4. x \in 128 .. 511 /\ y \in 128 .. 511 => x = y
    BY <1>5, <2>2
  <2>5. x \in 128 .. 511 => Len(Utf8(x)) = 2 /\ Len(Utf8(y)) = 2
    BY <1>4, <2>2
  <2>6. x \in 33 .. 126 => Len(Utf8(x)) = 1 /\ Len(Utf8(y)) = 1
    BY <1>4, <2>2
  <2>7. (y \in 128 .. 511 => Len(Utf8(y)) = 2) /\ (y \in 33 .. 126 => Len(Utf8(y)) = 1) /\ 1 # 2
    BY <1>4, SMTT(30)
  <2>8. x = y
    <3>1. CASE x \in 33 .. 126 /\ y \in 128 .. 511
      BY <2>6, <2>7, <3>1
    <3>2. CASE x \in 128 .. 511 /\ y \in 33 .. 126
      BY <2>5, <2>7, <3>2
    <3>3. QED
      BY <2>1, <2>3, <2>4, <3>1, <3>2, ZenonT(30)
  <2>9. QED
    BY <2>8, Zenon DEF x, y
<1>7. QED
  BY <1>6, CodePointsApart

\* The decoder finds the byte of a character.
LEMMA DecoderInverts ==
  ASSUME NEW b \in Byte
  PROVE  ByteEncoder[b] \in DOMAIN ByteDecoder /\ ByteDecoder[ByteEncoder[b]] = b
<1>1. DOMAIN ByteEncoder = Byte
  BY DEF ByteEncoder
<1>2. ByteEncoder[b] \in Range(ByteEncoder)
  BY <1>1 DEF Range
<1>3. \A c \in Byte : ByteEncoder[c] = ByteEncoder[b] <=> c = b
  BY EncodedApart
<1>4. ByteDecoder[ByteEncoder[b]] = CHOOSE c \in Byte : ByteEncoder[c] = ByteEncoder[b]
  BY <1>2 DEF ByteDecoder
<1>5. (CHOOSE c \in Byte : ByteEncoder[c] = ByteEncoder[b]) = b
  BY <1>3
<1>6. QED
  BY <1>2, <1>4, <1>5 DEF ByteDecoder

LEMMA DecoderType == \A s \in DOMAIN ByteDecoder : ByteDecoder[s] \in Byte
<1> SUFFICES ASSUME NEW s \in DOMAIN ByteDecoder PROVE ByteDecoder[s] \in Byte
  OBVIOUS
<1>1. DOMAIN ByteEncoder = Byte /\ s \in Range(ByteEncoder)
  BY DEF ByteDecoder, ByteEncoder
<1>2. \E b \in Byte : ByteEncoder[b] = s
  BY <1>1 DEF Range
<1>3. QED
  BY <1>1, <1>2 DEF ByteDecoder

\* A digit is read as it was written.
LEMMA HexDigits ==
  ASSUME NEW n \in 0 .. 15
  PROVE  HexDigit(n) \in Byte /\ HexValue(HexDigit(n)) = n
<1>1. CASE n < 10
  <2>1. HexDigit(n) = 48 + n /\ 48 + n \in 48 .. 57
    BY <1>1 DEF HexDigit
  <2>2. QED
    BY <2>1 DEF HexValue, Byte
<1>2. CASE n >= 10
  <2>1. HexDigit(n) = 55 + n /\ 55 + n \in 65 .. 70 /\ 55 + n \notin 48 .. 57
    BY <1>2 DEF HexDigit
  <2>2. HexValue(55 + n) = n
    BY <2>1 DEF HexValue
  <2>3. QED
    BY <2>1, <2>2 DEF Byte
<1>3. QED
  BY <1>1, <1>2

LEMMA FirstThree ==
  ASSUME NEW S, NEW s \in Seq(S), Len(s) >= 3
  PROVE  SubSeq(s, 1, 3) = <<s[1], s[2], s[3]>>
<1>1. s[1] \in S /\ s[2] \in S /\ s[3] \in S
  OBVIOUS
<1>2. \A i \in 1 .. 3 : s[i] \in S
  BY <1>1
<1>3. /\ SubSeq(s, 1, 3) \in Seq(S) /\ Len(SubSeq(s, 1, 3)) = 3
      /\ \A i \in 1 .. 3 : SubSeq(s, 1, 3)[i] = s[i]
  BY <1>2, SubSeqProperties
<1>4. <<s[1], s[2], s[3]>> \in Seq(S) /\ Len(<<s[1], s[2], s[3]>>) = 3
  BY <1>1
<1>5. \A i \in 1 .. 3 : SubSeq(s, 1, 3)[i] = <<s[1], s[2], s[3]>>[i]
  BY <1>3
<1>6. QED
  BY <1>3, <1>4, <1>5, SeqEqual

\* <0xXX> is read as its byte, and shown.
LEMMA HexReads ==
  ASSUME NEW b \in Byte
  PROVE  ~Marked(Hex(b)) /\ DecodeByteLevelPiece(Hex(b)) = <<b>> /\ Hex(b)[1] = Less
         /\ Hex(b) \in Seq(Byte)
<1>1. b \div 16 \in 0 .. 15 /\ b % 16 \in 0 .. 15 /\ 16 * (b \div 16) + (b % 16) = b
  BY DEF Byte
<1>2. PICK q \in 0 .. 15, r \in 0 .. 15 : q = b \div 16 /\ r = b % 16 /\ 16 * q + r = b
  BY <1>1
<1>3. PICK x \in Byte, y \in Byte : x = HexDigit(q) /\ y = HexDigit(r) /\ HexValue(x) = q
        /\ HexValue(y) = r
  BY HexDigits
<1>4. Hex(b) = <<Less, 48, 120, x, y, Greater>>
  BY <1>2, <1>3 DEF Hex
<1>8. Hex(b) \in Seq(Byte)
  BY <1>4 DEF Byte, Less, Greater
<1>5. ~Marked(Hex(b))
  <2>1. SubSeq(Hex(b), 1, 2)[2] = 48
    BY <1>4
  <2>2. <<Less, Bar>>[2] = 124
    BY DEF Bar
  <2>3. 48 # 124
    OBVIOUS
  <2>4. ASSUME SubSeq(Hex(b), 1, 2) = <<Less, Bar>>
        PROVE  FALSE
    <3>1. SubSeq(Hex(b), 1, 2)[2] = 124
      BY <2>2, <2>4, Zenon
    <3>2. QED
      BY <2>1, <2>3, <3>1, Zenon
  <2>5. QED
    BY <2>4 DEF Marked
<1>6. Len(Hex(b)) = 6 /\ Hex(b)[6] = Greater /\ Hex(b)[4] = x /\ Hex(b)[5] = y /\ Hex(b)[1] = Less
      /\ Hex(b)[2] = 48 /\ Hex(b)[3] = 120
  BY <1>4
<1>10. SubSeq(Hex(b), 1, 3) = <<Less, 48, 120>>
  <2>1. Len(Hex(b)) >= 3
    BY <1>6
  <2>2. SubSeq(Hex(b), 1, 3) = <<Hex(b)[1], Hex(b)[2], Hex(b)[3]>>
    BY <1>8, <2>1, FirstThree, Zenon
  <2>3. QED
    BY <1>6, <2>2, Zenon
<1>7. DecodeByteLevelPiece(Hex(b)) = <<b>>
  BY <1>2, <1>3, <1>6, <1>10 DEF DecodeByteLevelPiece
<1>9. QED
  BY <1>5, <1>6, <1>7, <1>8

-----------------------------------------------------------------------------
(* Reading visible characters. *)

ByteString == Seq(Byte)
Readings == ByteString \cup {NoString}

CharAt(s, i) == SubSeq(s, i, i + Utf8CharSize(s[i]) - 1)

\* At i a character begins that stands for a byte.
ReadsAt(s, i) == i + Utf8CharSize(s[i]) - 1 <= Len(s) /\ CharAt(s, i) \in DOMAIN ByteDecoder

\* What Unescaped finds from i on.
ReadFrom(s, f, i) ==
  IF i = Len(s) + 1 THEN <<>>
  ELSE IF i > Len(s) THEN NoString
  ELSE IF ReadsAt(s, i) /\ f[i + Utf8CharSize(s[i])] # NoString
  THEN <<ByteDecoder[CharAt(s, i)]>> \o f[i + Utf8CharSize(s[i])]
  ELSE NoString

UnescapedFrom(s) == CHOOSE f : f = [i \in 1 .. Len(s) + 4 |-> ReadFrom(s, f, i)]

LEMMA CharSizes == \A b : Utf8CharSize(b) \in 1 .. 4
BY DEF Utf8CharSize

LEMMA UnescapedIs == \A s : Unescaped(s) = UnescapedFrom(s)[1]
<1> SUFFICES ASSUME NEW s PROVE Unescaped(s) = UnescapedFrom(s)[1]
  OBVIOUS
<1>1. UnescapedFrom(s) = CHOOSE f : f = [i \in 1 .. Len(s) + 4 |->
        IF i = Len(s) + 1 THEN <<>>
        ELSE IF i > Len(s) THEN NoString
        ELSE IF i + Utf8CharSize(s[i]) - 1 <= Len(s)
                /\ SubSeq(s, i, i + Utf8CharSize(s[i]) - 1) \in DOMAIN ByteDecoder
                /\ f[i + Utf8CharSize(s[i])] # NoString
        THEN <<ByteDecoder[SubSeq(s, i,
            i + Utf8CharSize(s[i]) - 1)]>> \o f[i + Utf8CharSize(s[i])]
        ELSE NoString]
  BY Zenon DEF UnescapedFrom, ReadFrom, ReadsAt, CharAt
<1>2. QED
  BY <1>1, Zenon DEF Unescaped

\* The recursion of Unescaped has the values that its definition says.
LEMMA UnescapedUnfolds ==
  ASSUME NEW s \in ByteString
  PROVE  /\ UnescapedFrom(s) \in [1 .. Len(s) + 4 -> Readings]
         /\ \A i \in 1 .. Len(s) + 4 : UnescapedFrom(s)[i] = ReadFrom(s, UnescapedFrom(s), i)
<1>1. PICK n \in Nat, hi \in Nat : n = Len(s) /\ hi = n + 4
  BY DEF ByteString
<1> DEFINE ends == {i \in 1 .. hi : i > n \/ ~ReadsAt(s, i)}
           base == [i \in 1 .. hi |-> IF i = n + 1 THEN <<>> ELSE NoString]
           next == [i \in 1 .. hi |-> IF i \in ends THEN i ELSE i + Utf8CharSize(s[i])]
           More(i, v) == IF i \notin ends
               /\ v # NoString THEN <<ByteDecoder[CharAt(s, i)]>> \o v ELSE NoString
           goOn == [i \in 1 .. hi |-> [v \in Readings |-> More(i, v)]]
<1>2. <<>> \in ByteString /\ NoString \in Readings
  BY DEF ByteString, Readings
<1>3. base \in [1 .. hi -> Readings]
  BY <1>2 DEF Readings
<1>4. \A i \in 1 .. hi : i \notin ends => i + Utf8CharSize(s[i]) \in 1 .. hi
        /\ i + Utf8CharSize(s[i]) > i
  <2>1. ASSUME NEW i \in 1 .. hi, i \notin ends
        PROVE  i + Utf8CharSize(s[i]) \in 1 .. hi /\ i + Utf8CharSize(s[i]) > i
    <3>1. i <= n
      BY <2>1
    <3>2. PICK c \in 1 .. 4 : c = Utf8CharSize(s[i])
      BY CharSizes
    <3>3. i + c \in 1 .. hi /\ i + c > i
      BY <1>1, <3>1
    <3>4. QED
      BY <3>2, <3>3
  <2>2. QED
    BY <2>1
<1>5. \A i \in 1 .. hi, v \in Readings : More(i, v) \in Readings
  <2>1. ASSUME NEW i \in 1 .. hi, NEW v \in Readings, i \notin ends, v # NoString
        PROVE  <<ByteDecoder[CharAt(s, i)]>> \o v \in ByteString
    <3>1. ByteDecoder[CharAt(s, i)] \in Byte
      BY <2>1, DecoderType DEF ReadsAt
    <3>2. v \in Seq(Byte)
      BY <2>1 DEF Readings, ByteString
    <3>3. <<ByteDecoder[CharAt(s, i)]>> \in Seq(Byte)
      BY <3>1
    <3>4. QED
      BY <3>2, <3>3, ConcatProperties DEF ByteString
  <2>2. QED
    BY <1>2, <2>1 DEF Readings
<1>6. goOn \in [1 .. hi -> [Readings -> Readings]]
  <2> HIDE DEF More
  <2>1. QED
    BY <1>5
<1>7. next \in [1 .. hi -> 1 .. hi] /\ \A i \in 1 .. hi : i \notin ends => next[i] > i
  <2> HIDE DEF ends
  <2>1. QED
    BY <1>4
<1>8. /\ \A i \in 1 .. hi : base[i] = IF i = n + 1 THEN <<>> ELSE NoString
      /\ \A i \in 1 .. hi : next[i] = IF i \in ends THEN i ELSE i + Utf8CharSize(s[i])
      /\ \A i \in 1 .. hi, v \in Readings : goOn[i][v] = More(i, v)
  <2> HIDE DEF ends, More
  <2>1. QED
    OBVIOUS
<1> HIDE DEF base, next, goOn
<1>9. PICK g \in [1 .. hi -> Readings] : Continues(g, 1 .. hi, ends, base, next, goOn)
  <2> HIDE DEF ends
  <2>1. 1 \in Nat
    OBVIOUS
  <2>2. QED
    BY <1>3, <1>6, <1>7, <2>1, RecursionDown
<1>10. ASSUME NEW i \in 1 .. hi
       PROVE  g[i] = ReadFrom(s, g, i)
  <2>1. g[i] = IF i \in ends THEN base[i] ELSE goOn[i][g[next[i]]]
    BY <1>9 DEF Continues
  <2>2. CASE i > n
    <3>1. i \in ends
      BY <2>2
    <3>2. g[i] = IF i = n + 1 THEN <<>> ELSE NoString
      BY <1>8, <2>1, <3>1
    <3>3. QED
      BY <1>1, <2>2, <3>2 DEF ReadFrom
  <2>3. CASE i <= n /\ ~ReadsAt(s, i)
    <3>1. i \in ends /\ i # n + 1
      BY <2>3
    <3>2. g[i] = NoString
      BY <1>8, <2>1, <3>1
    <3>3. QED
      BY <1>1, <2>3, <3>1, <3>2 DEF ReadFrom
  <2>4. CASE i <= n /\ ReadsAt(s, i)
    <3>1. i \notin ends /\ i # n + 1 /\ ~(i > n)
      BY <2>4
    <3>2. next[i] = i + Utf8CharSize(s[i]) /\ next[i] \in 1 .. hi
      BY <1>7, <1>8, <3>1
    <3>3. g[next[i]] \in Readings
      BY <3>2
    <3>4. g[i] = More(i, g[next[i]])
      BY <1>8, <2>1, <3>1, <3>3
    <3>5. More(i, g[next[i]]) =
            IF g[i + Utf8CharSize(s[i])] # NoString
            THEN <<ByteDecoder[CharAt(s, i)]>> \o g[i + Utf8CharSize(s[i])] ELSE NoString
      BY <3>1, <3>2
    <3> HIDE DEF More
    <3>6. QED
      BY <1>1, <2>4, <3>1, <3>4, <3>5 DEF ReadFrom
  <2>5. QED
    BY <2>2, <2>3, <2>4
<1>11. g = [i \in 1 .. hi |-> ReadFrom(s, g, i)]
  BY <1>10
<1>12. UnescapedFrom(s) = [i \in 1 .. hi |-> ReadFrom(s, UnescapedFrom(s), i)]
  BY <1>1, <1>11 DEF UnescapedFrom
<1> DEFINE S == {i \in 1 .. hi : UnescapedFrom(s)[i] \in Readings}
<1>13. \A i \in 1 .. hi : UnescapedFrom(s)[i] = ReadFrom(s, UnescapedFrom(s), i)
  BY <1>12
<1>14. ASSUME NEW i \in 1 .. hi, \A j \in i + 1 .. hi : j \in S
       PROVE  i \in S
  <2> DEFINE v == UnescapedFrom(s)[i + Utf8CharSize(s[i])]
  <2>1. CASE i > n \/ ~ReadsAt(s, i)
    BY <1>1, <1>2, <1>13, <2>1 DEF ReadFrom, Readings
  <2>2. CASE ~(i > n) /\ ReadsAt(s, i)
    <3>1. i \notin ends
      BY <2>2
    <3>2. i + Utf8CharSize(s[i]) \in i + 1 .. hi
      BY <1>4, <3>1
    <3>3. v \in Readings
      BY <1>14, <3>2
    <3>4. UnescapedFrom(s)[i] = More(i, v)
      BY <1>1, <1>13, <2>2, <3>1 DEF ReadFrom
    <3>5. QED
      BY <1>5, <3>3, <3>4
  <2>3. QED
    BY <2>1, <2>2
<1>15. 1 .. hi \subseteq S
  <2> HIDE DEF S
  <2>1. 1 \in Nat
    OBVIOUS
  <2>2. QED
    BY <1>14, <2>1, InductionDown
<1>16. UnescapedFrom(s) \in [1 .. hi -> Readings]
  BY <1>12, <1>15
<1>17. QED
  BY <1>1, <1>13, <1>16

\* What is found does not depend on what comes before.
LEMMA UnescapedRest ==
  ASSUME NEW s \in ByteString, NEW t \in ByteString, NEW n \in Nat, Len(s) = n + Len(t),
         \A j \in 1 .. Len(t) : s[n + j] = t[j]
  PROVE  UnescapedFrom(s)[n + 1] = Unescaped(t)
<1>1. PICK m \in Nat, hi \in Nat : m = Len(t) /\ hi = m + 4
  BY DEF ByteString
<1> DEFINE f == UnescapedFrom(s)
           g == UnescapedFrom(t)
           S == {j \in 1 .. hi : f[n + j] = g[j]}
<1>2. \A j \in 1 .. hi : g[j] = ReadFrom(t, g, j)
  BY <1>1, UnescapedUnfolds
<1>3. \A j \in 1 .. hi : f[n + j] = ReadFrom(s, f, n + j)
  <2>1. \A i \in 1 .. Len(s) + 4 : f[i] = ReadFrom(s, f, i)
    BY UnescapedUnfolds
  <2>2. \A j \in 1 .. hi : n + j \in 1 .. Len(s) + 4
    BY <1>1
  <2> HIDE DEF f
  <2>3. QED
    BY <2>1, <2>2
<1> HIDE DEF f, g
<1>4. ASSUME NEW j \in 1 .. hi, \A k \in j + 1 .. hi : k \in S
      PROVE  j \in S
  <2>1. CASE j > m
    <3>1. n + j > Len(s) /\ j > Len(t) /\ (n + j = Len(s) + 1 <=> j = Len(t) + 1)
      BY <1>1, <2>1
    <3>2. f[n + j] = (IF j = Len(t) + 1 THEN <<>> ELSE NoString)
      BY <1>3, <3>1 DEF ReadFrom
    <3>3. g[j] = (IF j = Len(t) + 1 THEN <<>> ELSE NoString)
      BY <1>2, <3>1 DEF ReadFrom
    <3>4. QED
      BY <3>2, <3>3
  <2>2. CASE j <= m
    <3>1. j \in 1 .. Len(t) /\ s[n + j] = t[j]
      BY <1>1, <2>2
    <3>2. PICK c \in 1 .. 4 : c = Utf8CharSize(t[j])
      BY CharSizes
    <3>3. n + j <= Len(s) /\ ~(n + j = Len(s) + 1) /\ ~(n + j > Len(s))
          /\ ~(j = Len(t) + 1) /\ ~(j > Len(t))
      BY <1>1, <2>2
    <3>4. n + j + c - 1 <= Len(s) <=> j + c - 1 <= Len(t)
      BY <1>1
    <3>5. CASE ~(j + c - 1 <= Len(t))
      <4>1. ~ReadsAt(t, j) /\ ~ReadsAt(s, n + j)
        BY <3>1, <3>2, <3>4, <3>5 DEF ReadsAt
      <4>2. f[n + j] = NoString
        BY <1>3, <3>3, <4>1 DEF ReadFrom
      <4>3. g[j] = NoString
        BY <1>2, <3>3, <4>1 DEF ReadFrom
      <4>4. QED
        BY <4>2, <4>3
    <3>6. CASE j + c - 1 <= Len(t)
      <4>1. CharAt(s, n + j) = CharAt(t, j)
        <5>1. \A i \in n + j .. n + j + c - 1 : i \in 1 .. Len(s) /\ s[i] \in Byte
          BY <1>1, <3>6 DEF ByteString
        <5>2. \A i \in j .. j + c - 1 : i \in 1 .. Len(t) /\ t[i] \in Byte
          BY <1>1, <3>6 DEF ByteString
        <5>3. /\ SubSeq(s, n + j, n + j + c - 1) \in Seq(Byte)
              /\ Len(SubSeq(s, n + j, n + j + c - 1)) = c
              /\ \A i \in 1 .. c : SubSeq(s, n + j, n + j + c - 1)[i] = s[n + j + i - 1]
          <6>1. n + j \in Int /\ n + j + c - 1 \in Int /\ n + j <= n + j + c - 1
                /\ (n + j + c - 1) - (n + j) + 1 = c
            OBVIOUS
          <6>2. QED
            BY <5>1, <6>1, SubSeqProperties
        <5>4. /\ SubSeq(t, j, j + c - 1) \in Seq(Byte)
              /\ Len(SubSeq(t, j, j + c - 1)) = c
              /\ \A i \in 1 .. c : SubSeq(t, j, j + c - 1)[i] = t[j + i - 1]
          <6>1. j \in Int /\ j + c - 1 \in Int /\ j <= j + c - 1 /\ (j + c - 1) - j + 1 = c
            OBVIOUS
          <6>2. QED
            BY <5>2, <6>1, SubSeqProperties, SMTT(30)
        <5>5. \A i \in 1 .. c : s[n + j + i - 1] = t[j + i - 1]
          <6>1. \A i \in 1 .. c : j + i - 1 \in 1 .. Len(t) /\ n + (j + i - 1) = n + j + i - 1
            BY <1>1, <3>6
          <6>2. QED
            BY <6>1
        <5>6. SubSeq(s, n + j, n + j + c - 1) = SubSeq(t, j, j + c - 1)
          BY <5>3, <5>4, <5>5, SeqEqual, ZenonT(30)
        <5>7. QED
          BY <3>1, <3>2, <5>6 DEF CharAt
      <4>2. ReadsAt(s, n + j) <=> ReadsAt(t, j)
        BY <3>1, <3>2, <3>4, <4>1 DEF ReadsAt
      <4>3. f[n + j + c] = g[j + c]
        <5>1. j + c \in j + 1 .. hi /\ n + (j + c) = n + j + c
          BY <1>1, <3>6
        <5>2. f[n + (j + c)] = g[j + c]
          BY <1>4, <5>1
        <5>3. QED
          BY <5>1, <5>2
      <4>4. f[n + j] = IF ReadsAt(s, n + j) /\ f[n + j + c] # NoString
                       THEN <<ByteDecoder[CharAt(s, n + j)]>> \o f[n + j + c] ELSE NoString
        BY <1>3, <3>1, <3>2, <3>3 DEF ReadFrom
      <4>5. g[j] = IF ReadsAt(t, j) /\ g[j + c] # NoString
                   THEN <<ByteDecoder[CharAt(t, j)]>> \o g[j + c] ELSE NoString
        BY <1>2, <3>2, <3>3 DEF ReadFrom
      <4>6. f[n + j] = g[j]
        BY <4>1, <4>2, <4>3, <4>4, <4>5, Zenon
      <4>7. QED
        BY <4>6
    <3>7. QED
      BY <3>5, <3>6
  <2>3. QED
    BY <1>1, <2>1, <2>2
<1> HIDE DEF S
<1>5. 1 .. hi \subseteq S
  <2>1. 1 \in Nat
    OBVIOUS
  <2>2. QED
    BY <1>4, <2>1, InductionDown
<1>6. 1 \in S
  BY <1>1, <1>5
<1>7. f[n + 1] = g[1]
  BY <1>6 DEF S
<1>8. QED
  BY <1>7, UnescapedIs DEF f, g

LEMMA UnescapedEmpty == Unescaped(<<>>) = <<>>
<1>1. <<>> \in ByteString /\ Len(<<>>) = 0 /\ 1 \in 1 .. Len(<<>>) + 4
  BY DEF ByteString
<1>2. UnescapedFrom(<<>>)[1] = ReadFrom(<<>>, UnescapedFrom(<<>>), 1)
  BY <1>1, UnescapedUnfolds
<1>3. QED
  BY <1>1, <1>2, UnescapedIs DEF ReadFrom

LEMMA UnescapedType ==
  ASSUME NEW s \in ByteString
  PROVE  Unescaped(s) \in Readings
<1>1. 1 \in 1 .. Len(s) + 4
  BY DEF ByteString
<1>2. QED
  BY <1>1, UnescapedUnfolds, UnescapedIs

LEMMA Associative == \A s, t, u \in Seq(Byte) : (s \o t) \o u = s \o (t \o u)
BY ConcatAssociative

\* p stands for the bytes b: before whatever is read, they are read.
Spells(p, b) ==
  /\ p \in ByteString /\ b \in ByteString /\ Len(p) > 0
  /\ \A i \in 1 .. Len(p) : p[i] # NewLine
  /\ \A t \in ByteString : Unescaped(t) # NoString => Unescaped(p \o t) = b \o Unescaped(t)

\* The character of a byte stands for it.
LEMMA CharacterSpells ==
  ASSUME NEW b \in Byte
  PROVE  Spells(ByteEncoder[b], <<b>>)
<1> DEFINE e == ByteEncoder[b]
<1>1. PICK n \in 1 .. 2 : n = Len(e) /\ n = Utf8CharSize(e[1])
  BY Encoded
<1>2. e \in ByteString /\ <<b>> \in ByteString /\ \A i \in 1 .. n : e[i] # NewLine
  BY <1>1, Encoded DEF ByteString
<1>3. e \in DOMAIN ByteDecoder /\ ByteDecoder[e] = b
  BY DecoderInverts
<1> HIDE DEF e
<1>4. ASSUME NEW t \in ByteString, Unescaped(t) # NoString
      PROVE  Unescaped(e \o t) = <<b>> \o Unescaped(t)
  <2> DEFINE s == e \o t
  <2>1. s \in ByteString /\ Len(s) = n + Len(t) /\ (\A i \in 1 .. n : s[i] = e[i])
        /\ \A j \in 1 .. Len(t) : s[n + j] = t[j]
    <3>1. e \in Seq(Byte) /\ t \in Seq(Byte) /\ Len(t) \in Nat
      BY <1>2 DEF ByteString
    <3>2. \A i \in 1 .. n : i \in 1 .. n + Len(t) /\ i <= n
      BY <3>1
    <3>3. \A j \in 1 .. Len(t) : n + j \in 1 .. n + Len(t) /\ ~(n + j <= n) /\ n + j - n = j
      BY <3>1
    <3>4. /\ s \in Seq(Byte) /\ Len(s) = n + Len(t)
          /\ \A i \in 1 .. n + Len(t) : s[i] = IF i <= n THEN e[i] ELSE t[i - n]
      <4>1. /\ s \in Seq(Byte) /\ Len(s) = Len(e) + Len(t)
            /\ \A i \in 1 .. Len(e) + Len(t) : s[i] = IF i <= Len(e) THEN e[i] ELSE t[i - Len(e)]
        BY <3>1, ConcatProperties
      <4>2. QED
        BY <1>1, <4>1, Zenon
    <3> HIDE DEF s
    <3>5. QED
      BY <3>2, <3>3, <3>4 DEF ByteString
  <2> HIDE DEF s
  <2>2. SubSeq(s, 1, n) = e
    <3>1. \A i \in 1 .. n : s[i] \in Byte
      BY <1>1, <1>2, <2>1 DEF ByteString
    <3>2. /\ SubSeq(s, 1, n) \in Seq(Byte) /\ Len(SubSeq(s, 1, n)) = n
          /\ \A i \in 1 .. n : SubSeq(s, 1, n)[i] = s[i]
      <4>1. 1 \in Int /\ n \in Int /\ 1 <= n /\ n - 1 + 1 = n /\ \A i \in 1 .. n : 1 + i - 1 = i
        OBVIOUS
      <4>2. QED
        BY <3>1, <4>1, SubSeqProperties
    <3>3. QED
      BY <1>1, <1>2, <2>1, <3>2, SeqEqual, ZenonT(30) DEF ByteString
  <2>3. s[1] = e[1] /\ Utf8CharSize(s[1]) = n
    BY <1>1, <2>1
  <2>4. CharAt(s, 1) = e /\ ReadsAt(s, 1)
    <3>1. 1 + n - 1 = n /\ n <= Len(s)
      BY <2>1 DEF ByteString
    <3>2. QED
      BY <1>3, <2>2, <2>3, <3>1 DEF CharAt, ReadsAt
  <2>5. UnescapedFrom(s)[n + 1] = Unescaped(t)
    <3>1. n \in Nat
      OBVIOUS
    <3>2. QED
      BY <2>1, <3>1, UnescapedRest
  <2>6. UnescapedFrom(s)[1] = ReadFrom(s, UnescapedFrom(s), 1)
    <3>1. 1 \in 1 .. Len(s) + 4
      BY <2>1 DEF ByteString
    <3>2. QED
      BY <2>1, <3>1, UnescapedUnfolds
  <2>7. ~(1 = Len(s) + 1) /\ ~(1 > Len(s)) /\ 1 + n = n + 1
    BY <2>1 DEF ByteString
  <2>8. UnescapedFrom(s)[1] = <<b>> \o Unescaped(t)
    BY <1>3, <1>4, <2>3, <2>4, <2>5, <2>6, <2>7 DEF ReadFrom
  <2>9. QED
    BY <2>8, UnescapedIs DEF s
<1>5. QED
  BY <1>1, <1>2, <1>4 DEF Spells, e

\* What two strings stand for, the two together stand for.
LEMMA SpellsTogether ==
  ASSUME NEW p, NEW b, NEW q, NEW c, Spells(p, b), Spells(q, c)
  PROVE  /\ Spells(p \o q, b \o c)
         /\ (p \o q)[1] = p[1]
<1>1. p \in Seq(Byte) /\ q \in Seq(Byte) /\ b \in Seq(Byte) /\ c \in Seq(Byte)
      /\ Len(p) \in Nat \ {0} /\ Len(q) \in Nat \ {0}
  BY DEF Spells, ByteString
<1>2. /\ p \o q \in Seq(Byte) /\ Len(p \o q) = Len(p) + Len(q)
      /\ \A i \in 1 .. Len(p) + Len(q) : (p \o q)[i] = IF i <= Len(p) THEN p[i] ELSE q[i - Len(p)]
  BY <1>1, ConcatProperties
<1>3. b \o c \in Seq(Byte)
  BY <1>1, ConcatProperties
<1>4. (p \o q)[1] = p[1]
  BY <1>1, <1>2
<1>5. \A i \in 1 .. Len(p \o q) : (p \o q)[i] # NewLine
  <2>1. \A i \in 1 .. Len(p) + Len(q) :
          IF i <= Len(p) THEN i \in 1 .. Len(p) ELSE i - Len(p) \in 1 .. Len(q)
    BY <1>1
  <2>2. QED
    BY <1>2, <2>1 DEF Spells
<1>6. ASSUME NEW t \in ByteString, Unescaped(t) # NoString
      PROVE  Unescaped((p \o q) \o t) = (b \o c) \o Unescaped(t)
  <2>1. t \in Seq(Byte) /\ Unescaped(t) \in Seq(Byte)
    BY <1>6, UnescapedType DEF ByteString, Readings
  <2>2. Unescaped(q \o t) = c \o Unescaped(t)
    BY <1>6 DEF Spells
  <2>3. q \o t \in Seq(Byte) /\ c \o Unescaped(t) \in Seq(Byte)
    BY <1>1, <2>1, ConcatProperties
  <2>4. c \o Unescaped(t) # NoString
    BY <2>3, TokenizerAssumption
  <2>5. Unescaped(p \o (q \o t)) = b \o (c \o Unescaped(t))
    BY <2>2, <2>3, <2>4, Zenon DEF Spells, ByteString
  <2>6. (p \o q) \o t = p \o (q \o t) /\ (b \o c) \o Unescaped(t) = b \o (c \o Unescaped(t))
    <3>1. (p \o q) \o t = p \o (q \o t)
      BY <1>1, <2>1, Associative, ZenonT(30)
    <3>2. (b \o c) \o Unescaped(t) = b \o (c \o Unescaped(t))
      BY <1>1, <2>1, Associative, ZenonT(30)
    <3>3. QED
      BY <3>1, <3>2
  <2>7. QED
    BY <2>5, <2>6
<1>7. Len(p \o q) > 0
  BY <1>1, <1>2
<1>8. QED
  BY <1>2, <1>3, <1>4, <1>5, <1>6, <1>7 DEF Spells, ByteString

\* A string is read as what it stands for.
LEMMA SpelledIsRead ==
  ASSUME NEW p, NEW b, Spells(p, b)
  PROVE  Unescaped(p) = b /\ b # NoString
<1>1. <<>> \in ByteString /\ p \in Seq(Byte) /\ b \in Seq(Byte)
  BY DEF Spells, ByteString
<1>2. NoString \notin Seq(Byte)
  BY TokenizerAssumption
<1>3. <<>> # NoString /\ b # NoString
  BY <1>1, <1>2 DEF ByteString
<1>4. Unescaped(p \o <<>>) = b \o <<>>
  BY <1>1, <1>3, UnescapedEmpty DEF Spells
<1>5. QED
  BY <1>1, <1>3, <1>4, ConcatEmptySeq

-----------------------------------------------------------------------------
(* Pieces that are shown. *)

\* A special token begins with "<".
LEMMA MarkedBegins ==
  ASSUME NEW s \in ByteString, Marked(s)
  PROVE  s[1] = Less /\ Len(s) \in Nat /\ Len(s) >= 3
<1>1. s \in Seq(Byte) /\ Len(s) \in Nat /\ Len(s) >= 3 /\ SubSeq(s, 1, 2) = <<Less, Bar>>
  BY DEF Marked, ByteString
<1>2. \A i \in 1 .. 2 : s[i] \in Byte
  BY <1>1
<1>3. SubSeq(s, 1, 2)[1] = s[1]
  BY <1>2, SubSeqProperties
<1>4. <<Less, Bar>>[1] = Less
  OBVIOUS
<1>5. s[1] = Less
  BY <1>1, <1>3, <1>4, Zenon
<1>6. QED
  BY <1>1, <1>5

\* How a piece that is known is shown: not at all, as the byte it names or as
\* what its characters stand for.
ShownAs(p, b) ==
  /\ p \in ByteString /\ b \in ByteString /\ Known(p)
  /\ \/ Marked(p) /\ b = <<>>
     \/ \E x \in Byte : p = Hex(x) /\ b = <<x>>
     \/ Spells(p, b) /\ (p[1] = Less => p = <<Less>>)

TokensAre == tokens \in Seq(ByteString)

\* A string of the vocabulary has an id, and the id the string.
LEMMA KnownIsFound ==
  ASSUME TokensAre, NEW s, Known(s)
  PROVE  TokenPiece(IdOf(s)) = s
<1>1. PICK n \in Nat : n = Len(tokens) /\ DOMAIN tokens = 1 .. n
  BY DEF TokensAre
<1> DEFINE places == {i \in DOMAIN tokens : tokens[i] = s}
<1>2. places \subseteq 0 .. n /\ places # {}
  BY <1>1 DEF Known
<1>3. \E i \in places : \A j \in places : j <= i
  <2> HIDE DEF places
  <2>1. QED
    BY <1>2, GreatestNatural
<1>4. PICK i \in places : i = CHOOSE k \in places : \A j \in places : j <= k
  BY <1>3
<1>5. IdOf(s) = i - 1
  BY <1>2, <1>4, Zenon DEF IdOf
<1>6. i \in 1 .. n /\ tokens[i] = s
  BY <1>1, <1>4
<1>7. IdOf(s) \in 0 .. Len(tokens) - 1 /\ IdOf(s) + 1 = i
  BY <1>1, <1>5, <1>6
<1>8. QED
  BY <1>6, <1>7, Zenon DEF TokenPiece

\* A piece decodes to the bytes it is shown as.
LEMMA ShownIsDecoded ==
  ASSUME TokensAre, NEW p, NEW b, ShownAs(p, b)
  PROVE  DecodeToken(IdOf(p)) = b
<1>1. TokenPiece(IdOf(p)) = p
  BY KnownIsFound DEF ShownAs
<1>2. CASE Marked(p) /\ b = <<>>
  BY <1>1, <1>2, Zenon DEF DecodeToken
<1>3. CASE \E x \in Byte : p = Hex(x) /\ b = <<x>>
  <2>1. PICK x \in Byte : p = Hex(x) /\ b = <<x>>
    BY <1>3
  <2>2. ~Marked(p) /\ DecodeByteLevelPiece(p) = b
    BY <2>1, HexReads
  <2>3. QED
    BY <1>1, <2>2, Zenon DEF DecodeToken
<1>4. CASE Spells(p, b) /\ (p[1] = Less => p = <<Less>>)
  <2>1. p \in ByteString
    BY <1>4 DEF Spells
  <2>2. p[1] = Less => Len(p) = 1
    BY <1>4
  <2>3. ~Marked(p)
    <3>1. ~(1 >= 3)
      OBVIOUS
    <3>2. Marked(p) => p[1] = Less /\ Len(p) >= 3
      BY <2>1, MarkedBegins
    <3>3. QED
      BY <2>2, <3>1, <3>2, Zenon
  <2>4. ~(Len(p) = 6 /\ SubSeq(p, 1, 3) = <<Less, 48, 120>> /\ p[6] = Greater)
    <3>1. SUFFICES ASSUME Len(p) = 6, SubSeq(p, 1, 3) = <<Less, 48, 120>>
                   PROVE  FALSE
      OBVIOUS
    <3>2. SubSeq(p, 1, 3) = <<p[1], p[2], p[3]>>
      BY <2>1, <3>1, FirstThree DEF ByteString
    <3>3. SubSeq(p, 1, 3)[1] = p[1] /\ SubSeq(p, 1, 3)[1] = Less
      BY <3>1, <3>2
    <3>4. QED
      BY <2>2, <3>1, <3>3
  <2>5. Unescaped(p) = b /\ b # NoString
    BY <1>4, SpelledIsRead
  <2>6. DecodeByteLevelPiece(p) = b
    BY <2>4, <2>5, Zenon DEF DecodeByteLevelPiece
  <2>7. QED
    BY <1>1, <2>3, <2>6, Zenon DEF DecodeToken
<1>5. QED
  BY <1>2, <1>3, <1>4 DEF ShownAs

-----------------------------------------------------------------------------
(* Rules. *)

\* With no new line in the parts, a key has one place where it was put together.
LEMMA KeyApart ==
  ASSUME NEW p \in ByteString, NEW q \in ByteString, NEW l \in ByteString, NEW r \in ByteString,
         \A i \in 1 .. Len(p) : p[i] # NewLine, \A i \in 1 .. Len(q) : q[i] # NewLine,
         Key(p, q) = Key(l, r)
  PROVE  p = l /\ q = r
<1>1. p \in Seq(Byte) /\ q \in Seq(Byte) /\ l \in Seq(Byte) /\ r \in Seq(Byte)
        /\ <<NewLine>> \in Seq(Byte)
  BY DEF ByteString, Byte, NewLine
<1>2. ASSUME NEW x \in Seq(Byte), NEW y \in Seq(Byte)
      PROVE  /\ Key(x, y) \in Seq(Byte) /\ Len(Key(x, y)) = Len(x) + 1 + Len(y)
             /\ \A i \in 1 .. Len(x) + 1 + Len(y) :
                  Key(x, y)[i] = IF i <= Len(x) THEN x[i]
                                 ELSE IF i = Len(x) + 1 THEN NewLine ELSE y[i - Len(x) - 1]
  <2>1. /\ x \o <<NewLine>> \in Seq(Byte) /\ Len(x \o <<NewLine>>) = Len(x) + 1
        /\ \A i \in 1 .. Len(x) + 1 :
            (x \o <<NewLine>>)[i] = IF i <= Len(x) THEN x[i] ELSE NewLine
    <3>1. Len(<<NewLine>>) = 1 /\ <<NewLine>>[1] = NewLine
      OBVIOUS
    <3>2. /\ x \o <<NewLine>> \in Seq(Byte) /\ Len(x \o <<NewLine>>) = Len(x) + Len(<<NewLine>>)
          /\ \A i \in 1 .. Len(x) + Len(<<NewLine>>) :
               (x \o <<NewLine>>)[i] = IF i <= Len(x) THEN x[i] ELSE <<NewLine>>[i - Len(x)]
      BY <1>1, ConcatProperties
    <3>3. \A i \in 1 .. Len(x) + 1 : ~(i <= Len(x)) => i - Len(x) = 1
      OBVIOUS
    <3>4. QED
      BY <3>1, <3>2, <3>3
  <2>2. PICK z \in Seq(Byte) : z = x \o <<NewLine>>
    BY <2>1
  <2>3. /\ z \o y \in Seq(Byte) /\ Len(z \o y) = Len(z) + Len(y)
        /\ \A i \in 1 .. Len(z) + Len(y) :
            (z \o y)[i] = IF i <= Len(z) THEN z[i] ELSE y[i - Len(z)]
    BY ConcatProperties
  <2>4. Key(x, y) = z \o y /\ Len(z) = Len(x) + 1
    BY <2>1, <2>2 DEF Key
  <2>5. ASSUME NEW i \in 1 .. Len(x) + 1 + Len(y)
        PROVE  (z \o y)[i] = IF i <= Len(x) THEN x[i]
                             ELSE IF i = Len(x) + 1 THEN NewLine ELSE y[i - Len(x) - 1]
    <3>1. (z \o y)[i] = IF i <= Len(x) + 1 THEN z[i] ELSE y[i - (Len(x) + 1)]
      BY <2>3, <2>4
    <3>2. i <= Len(x) + 1 => z[i] = IF i <= Len(x) THEN x[i] ELSE NewLine
      BY <2>1, <2>2
    <3>3. i - (Len(x) + 1) = i - Len(x) - 1 /\ (i <= Len(x) => i <= Len(x) + 1 /\ i # Len(x) + 1)
          /\ (i <= Len(x) + 1 /\ ~(i <= Len(x)) <=> i = Len(x) + 1)
      OBVIOUS
    <3>4. QED
      BY <3>1, <3>2, <3>3
  <2>6. QED
    BY <2>3, <2>4, <2>5
<1>3. PICK a \in Nat, b \in Nat, m \in Nat, n \in Nat : a = Len(p) /\ b = Len(q) /\ m = Len(l)
        /\ n = Len(r)
  BY <1>1
<1>4. a + 1 + b = m + 1 + n
  <2>1. Len(Key(p, q)) = a + 1 + b /\ Len(Key(l, r)) = m + 1 + n
    BY <1>1, <1>2, <1>3
  <2>2. QED
    BY <2>1
<1>5. \A i \in 1 .. a + 1 + b :
        (IF i <= a THEN p[i] ELSE IF i = a + 1 THEN NewLine ELSE q[i - a - 1])
        = (IF i <= m THEN l[i] ELSE IF i = m + 1 THEN NewLine ELSE r[i - m - 1])
  <2>1. \A i \in 1 .. a + 1 + b :
          Key(p, q)[i] = (IF i <= a THEN p[i] ELSE IF i = a + 1 THEN NewLine ELSE q[i - a - 1])
    BY <1>1, <1>2, <1>3, ZenonT(30)
  <2>2. \A i \in 1 .. a + 1 + b :
          Key(l, r)[i] = (IF i <= m THEN l[i] ELSE IF i = m + 1 THEN NewLine ELSE r[i - m - 1])
    <3>1. \A i \in 1 .. m + 1 + n :
            Key(l, r)[i] = (IF i <= m THEN l[i] ELSE IF i = m + 1 THEN NewLine ELSE r[i - m - 1])
      BY <1>1, <1>2, <1>3, ZenonT(30)
    <3>2. QED
      BY <1>4, <3>1, Zenon
  <2>3. QED
    BY <2>1, <2>2
<1>6. a = m
  <2>1. m + 1 \in 1 .. a + 1 + b /\ ~(m + 1 <= m)
    BY <1>4
  <2>2. (IF m + 1 <= a THEN p[m + 1] ELSE IF m + 1 = a + 1 THEN NewLine ELSE q[m + 1 - a - 1])
        = NewLine
    BY <1>5, <2>1
  <2>3. CASE m + 1 <= a
    BY <1>3, <2>2, <2>3
  <2>4. CASE m + 1 > a + 1
    <3>1. m + 1 - a - 1 \in 1 .. Len(q) /\ ~(m + 1 <= a) /\ m + 1 # a + 1
      BY <1>3, <1>4, <2>4
    <3>2. QED
      BY <2>2, <3>1
  <2>5. QED
    BY <2>3, <2>4
<1>7. b = n
  BY <1>4, <1>6
<1>8. \A i \in 1 .. a : p[i] = l[i]
  <2>1. ASSUME NEW i \in 1 .. a PROVE p[i] = l[i]
    <3>1. i \in 1 .. a + 1 + b /\ i <= a /\ i <= m
      BY <1>6
    <3>2. QED
      BY <1>5, <3>1
  <2>2. QED
    BY <2>1
<1>9. \A i \in 1 .. b : q[i] = r[i]
  <2>1. ASSUME NEW i \in 1 .. b PROVE q[i] = r[i]
    <3>1. PICK k \in 1 .. a + 1 + b : k = i + a + 1
      OBVIOUS
    <3>2. ~(k <= a) /\ k # a + 1 /\ k - a - 1 = i /\ ~(k <= m) /\ k # m + 1 /\ k - m - 1 = i
      BY <1>6, <3>1
    <3>3. QED
      BY <1>5, <3>2
  <2>2. QED
    BY <2>1
<1>10. QED
  BY <1>1, <1>3, <1>6, <1>7, <1>8, <1>9, SeqEqual

\* The parts of a rule are those its key is made of.
RulesAre ==
  \A k \in DOMAIN rules :
    /\ rules[k].left \in ByteString /\ rules[k].right \in ByteString
    /\ k = Key(rules[k].left, rules[k].right)

LEMMA FirstSpaceIs ==
  ASSUME NEW s \in ByteString, Space \in Range(s)
  PROVE  FirstSpace(s) \in 1 .. Len(s)
<1> DEFINE S == {p \in 1 .. Len(s) : s[p] = Space}
<1>1. DOMAIN s = 1 .. Len(s) /\ Len(s) \in Nat
  BY DEF ByteString
<1>2. S \subseteq Nat /\ S # {}
  BY <1>1 DEF Range
<1>3. PICK p \in S : \A q \in S : p <= q
  <2> HIDE DEF S
  <2>1. QED
    BY <1>2, LeastNatural
<1>4. ASSUME NEW q \in 1 .. p - 1 PROVE s[q] # Space
  <2>1. q \in 1 .. Len(s) /\ ~(p <= q)
    BY <1>1
  <2>2. QED
    BY <1>3, <2>1
<1>5. QED
  BY <1>1, <1>4 DEF FirstSpace

\* Whatever the lines are, a rule is found under the key of its parts.
LEMMA RulesOfLines ==
  ASSUME NEW lines \in Seq(ByteString)
  PROVE  \A k \in DOMAIN RulesOf(lines) :
           /\ RulesOf(lines)[k].left \in ByteString /\ RulesOf(lines)[k].right \in ByteString
           /\ k = Key(RulesOf(lines)[k].left, RulesOf(lines)[k].right)
           /\ RulesOf(lines)[k].rank \in 0 .. Len(lines)
           /\ \A m \in DOMAIN RulesOf(lines) :
                RulesOf(lines)[k].rank = RulesOf(lines)[m].rank => k = m
<1> DEFINE valid == {i \in DOMAIN lines : Space \in Range(lines[i])}
           left(i) == SubSeq(lines[i], 1, FirstSpace(lines[i]) - 1)
           right(i) == SubSeq(lines[i], FirstSpace(lines[i]) + 1, Len(lines[i]))
           key(i) == Key(left(i), right(i))
           last(k) == CHOOSE i \in valid : key(i) = k /\ \A j \in valid : key(j) = k => j <= i
<1>1. PICK n \in Nat : n = Len(lines) /\ DOMAIN lines = 1 .. n
  OBVIOUS
<1>2. ASSUME NEW i \in valid
      PROVE  left(i) \in ByteString /\ right(i) \in ByteString
  <2>1. PICK s \in ByteString : s = lines[i]
    BY <1>1
  <2>2. PICK p \in 1 .. Len(s) : p = FirstSpace(s)
    BY <2>1, FirstSpaceIs
  <2>3. Len(s) \in Nat /\ \A j \in 1 .. Len(s) : s[j] \in Byte
    BY DEF ByteString
  <2>4. SubSeq(s, 1, p - 1) \in Seq(Byte)
    <3>1. 1 \in Int /\ p - 1 \in Int /\ \A j \in 1 .. p - 1 : s[j] \in Byte
      BY <2>3
    <3>2. QED
      BY <3>1, SubSeqProperties
  <2>5. SubSeq(s, p + 1, Len(s)) \in Seq(Byte)
    <3>1. p + 1 \in Int /\ Len(s) \in Int /\ \A j \in p + 1 .. Len(s) : s[j] \in Byte
      BY <2>3
    <3>2. QED
      BY <3>1, SubSeqProperties
  <2>6. QED
    BY <2>1, <2>2, <2>4, <2>5 DEF ByteString
<1>3. RulesOf(lines) =
        [k \in {key(i) : i \in valid} |->
           [left |-> left(last(k)), right |-> right(last(k)),
            rank |-> Cardinality({i \in valid : i < last(k)})]]
  BY Zenon DEF RulesOf
<1>4. valid \subseteq 1 .. n
  BY <1>1
<1> HIDE DEF valid, left, right
<1>5. ASSUME NEW k \in {key(i) : i \in valid}
      PROVE  last(k) \in valid /\ key(last(k)) = k
  <2> DEFINE T == {i \in valid : key(i) = k}
  <2>1. T \subseteq 0 .. n /\ T # {}
    BY <1>4, <1>5
  <2>2. PICK i \in T : \A j \in T : j <= i
    <3> HIDE DEF T
    <3>1. QED
      BY <2>1, GreatestNatural
  <2>3. \E x \in valid : key(x) = k /\ \A j \in valid : key(j) = k => j <= x
    BY <2>2
  <2> HIDE DEF key, T
  <2>4. QED
    BY <2>3, Zenon
<1>6. ASSUME NEW k \in {key(i) : i \in valid}
      PROVE  /\ left(last(k)) \in ByteString /\ right(last(k)) \in ByteString
             /\ k = Key(left(last(k)), right(last(k)))
  <2>1. last(k) \in valid /\ key(last(k)) = k
    BY <1>5, Zenon
  <2> HIDE DEF last
  <2>2. QED
    BY <1>2, <2>1
<1> DEFINE before(x) == {i \in valid : i < x}
<1>7. ASSUME NEW x \in valid
      PROVE  IsFiniteSet(before(x)) /\ Cardinality(before(x)) \in 0 .. n
  <2>1. IsFiniteSet(1 .. n) /\ Cardinality(1 .. n) = n
    <3>1. 1 \in Int /\ n \in Int /\ (1 > n <=> n = 0) /\ n - 1 + 1 = n
      OBVIOUS
    <3>2. QED
      BY <3>1, FS_Interval
  <2>2. before(x) \subseteq 1 .. n
    BY <1>4
  <2> HIDE DEF before
  <2>3. QED
    BY <2>1, <2>2, FS_Subset, FS_CardinalityType
<1>8. ASSUME NEW x \in valid, NEW y \in valid, x < y
      PROVE  Cardinality(before(x)) # Cardinality(before(y))
  <2>1. before(x) \subseteq before(y) /\ x \in before(y) /\ x \notin before(x)
    <3>1. x \in Int /\ y \in Int /\ x < y /\ \A i \in valid : i \in Int
      BY <1>4, <1>8
    <3>2. (\A i \in valid : i < x => i < y) /\ ~(x < x)
      BY <3>1
    <3>3. QED
      BY <3>1, <3>2, Zenon
  <2>2. IsFiniteSet(before(y))
    BY <1>7
  <2> HIDE DEF before
  <2>3. QED
    BY <2>1, <2>2, FS_Subset
<1>9. ASSUME NEW k \in {key(i) : i \in valid}, NEW m \in {key(i) : i \in valid},
             Cardinality(before(last(k))) = Cardinality(before(last(m)))
      PROVE  k = m
  <2>1. /\ last(k) \in valid /\ key(last(k)) = k
        /\ last(m) \in valid /\ key(last(m)) = m
    BY <1>5, Zenon
  <2> HIDE DEF key, last, before
  <2>2. ~(last(k) < last(m)) /\ ~(last(m) < last(k))
    BY <1>8, <1>9, <2>1
  <2>3. last(k) = last(m)
    BY <1>4, <2>1, <2>2
  <2>4. QED
    BY <2>1, <2>3
<1>10. ASSUME NEW k \in {key(i) : i \in valid}
       PROVE  Cardinality(before(last(k))) \in 0 .. n
  BY <1>5, <1>7, Zenon
<1>11. /\ DOMAIN RulesOf(lines) = {key(i) : i \in valid}
       /\ \A k \in DOMAIN RulesOf(lines) :
            /\ RulesOf(lines)[k].left = left(last(k)) /\ RulesOf(lines)[k].right = right(last(k))
            /\ RulesOf(lines)[k].rank = Cardinality(before(last(k)))
  <2> HIDE DEF key, last
  <2>1. QED
    BY <1>3
<1> HIDE DEF key, last, before
<1>12. QED
  BY <1>1, <1>6, <1>9, <1>10, <1>11

-----------------------------------------------------------------------------
(* The text without its special tokens. *)

\* A special token that begins at a place of the text.
LEMMA SpecialIs ==
  ASSUME NEW i \in Nat, SpecialAt(i) # NoString
  PROVE  /\ SpecialAt(i) \in ByteString /\ Marked(SpecialAt(i)) /\ Known(SpecialAt(i))
         /\ Len(SpecialAt(i)) \in Nat /\ Len(SpecialAt(i)) >= 3
         /\ i + Len(SpecialAt(i)) <= Len(text)
<1> DEFINE found == {k \in DOMAIN Specials : StartsAt(Specials[k], i)}
           least == CHOOSE k \in found : \A j \in found : k <= j
<1>1. found # {} /\ Known(Specials[least]) /\ SpecialAt(i) = Specials[least]
  BY Zenon DEF SpecialAt
<1>2. Specials \in Seq(Seq(Byte)) /\ \A k \in DOMAIN Specials : Marked(Specials[k])
  BY TokenizerAssumption
<1>3. found \subseteq Nat
  BY <1>2
<1>4. \E k \in found : \A j \in found : k <= j
  <2> HIDE DEF found
  <2>1. QED
    BY <1>1, <1>3, LeastNatural
<1>5. least \in found
  <2> HIDE DEF found
  <2>1. QED
    BY <1>4, Zenon
<1>6. least \in DOMAIN Specials /\ StartsAt(Specials[least], i)
  BY <1>5
<1> HIDE DEF least
<1>7. Specials[least] \in ByteString /\ Marked(Specials[least])
  BY <1>2, <1>6 DEF ByteString
<1>8. i + Len(Specials[least]) <= Len(text)
  BY <1>6, Zenon DEF StartsAt
<1>9. Len(Specials[least]) \in Nat /\ Len(Specials[least]) >= 3
  BY <1>7, MarkedBegins
<1>10. QED
  BY <1>1, <1>7, <1>8, <1>9, Zenon

\* What is left of the text from a place on without the special tokens.
PlainAt(f, i) ==
  IF i = Len(text) THEN <<>>
  ELSE IF SpecialAt(i) # NoString THEN f[i + Len(SpecialAt(i))]
  ELSE <<text[i + 1]>> \o f[i + 1]

PlainFrom == CHOOSE f : f = [i \in 0 .. Len(text) |-> PlainAt(f, i)]

LEMMA PlainIs == Plain = PlainFrom[0]
<1>1. PlainFrom = CHOOSE f : f = [i \in 0 .. Len(text) |->
        IF i = Len(text) THEN <<>>
        ELSE IF SpecialAt(i) # NoString THEN f[i + Len(SpecialAt(i))]
        ELSE <<text[i + 1]>> \o f[i + 1]]
  BY Zenon DEF PlainFrom, PlainAt
<1>2. QED
  BY <1>1, Zenon DEF Plain

\* So it is for every place of the text.
LEMMA PlainUnfolds ==
  ASSUME text \in ByteString
  PROVE  /\ PlainFrom \in [0 .. Len(text) -> ByteString]
         /\ \A i \in 0 .. Len(text) : PlainFrom[i] = PlainAt(PlainFrom, i)
<1>1. PICK n \in Nat : n = Len(text)
  BY DEF ByteString
<1>2. \A i \in 1 .. n : text[i] \in Byte
  BY <1>1 DEF ByteString
<1> DEFINE After(i) == IF SpecialAt(i) # NoString THEN i + Len(SpecialAt(i)) ELSE i + 1
           More(i, v) == IF i = n \/ SpecialAt(i) # NoString THEN v ELSE <<text[i + 1]>> \o v
           base == [i \in 0 .. n |-> <<>>]
           next == [i \in 0 .. n |-> IF i = n THEN i ELSE After(i)]
           goOn == [i \in 0 .. n |-> [v \in ByteString |-> More(i, v)]]
<1>3. <<>> \in ByteString
  BY DEF ByteString
<1>4. ASSUME NEW i \in 0 .. n, i # n
      PROVE  After(i) \in 0 .. n /\ After(i) > i
  <2>1. CASE SpecialAt(i) # NoString
    <3>1. PICK k \in Nat : k = Len(SpecialAt(i)) /\ k >= 3 /\ i + k <= n
      BY <1>1, <2>1, SpecialIs
    <3>2. After(i) = i + k
      BY <2>1, <3>1
    <3>3. QED
      BY <3>1, <3>2
  <2>2. CASE SpecialAt(i) = NoString
    <3>1. After(i) = i + 1
      BY <2>2
    <3>2. QED
      BY <1>4, <3>1
  <2>3. QED
    BY <2>1, <2>2
<1>5. ASSUME NEW i \in 0 .. n, NEW v \in ByteString
      PROVE  More(i, v) \in ByteString
  <2>1. CASE i = n \/ SpecialAt(i) # NoString
    BY <2>1
  <2>2. CASE ~(i = n \/ SpecialAt(i) # NoString)
    <3>1. text[i + 1] \in Byte
      BY <1>2, <2>2
    <3>2. <<text[i + 1]>> \in Seq(Byte) /\ v \in Seq(Byte)
      BY <3>1 DEF ByteString
    <3>3. <<text[i + 1]>> \o v \in Seq(Byte)
      BY <3>2, ConcatProperties
    <3>4. QED
      BY <2>2, <3>3 DEF ByteString
  <2>3. QED
    BY <2>1, <2>2
<1> HIDE DEF After, More
<1>6. /\ base \in [0 .. n -> ByteString] /\ next \in [0 .. n -> 0 .. n]
      /\ goOn \in [0 .. n -> [ByteString -> ByteString]]
  BY <1>3, <1>4, <1>5
<1>7. \A i \in 0 .. n : base[i] = <<>> /\ (i # n => next[i] = After(i) /\ next[i] > i)
  BY <1>4
<1>8. \A i \in 0 .. n, v \in ByteString : goOn[i][v] = More(i, v)
  OBVIOUS
<1> HIDE DEF base, next, goOn
<1>9. PICK g \in [0 .. n -> ByteString] : Continues(g, 0 .. n, {n}, base, next, goOn)
  <2>1. 0 \in Nat /\ \A i \in 0 .. n : i \notin {n} => next[i] > i
    BY <1>7
  <2>2. QED
    BY <1>6, <2>1, RecursionDown
<1> DEFINE At(f, i) == IF i = n THEN <<>> ELSE More(i, f[After(i)])
<1>10. \A f, i : i \in 0 .. n => PlainAt(f, i) = At(f, i)
  <2> SUFFICES ASSUME NEW f, NEW i \in 0 .. n PROVE PlainAt(f, i) = At(f, i)
    OBVIOUS
  <2>1. QED
    BY <1>1, Zenon DEF PlainAt, After, More
<1>11. ASSUME NEW i \in 0 .. n
       PROVE  g[i] = PlainAt(g, i)
  <2>1. g[i] = IF i \in {n} THEN base[i] ELSE goOn[i][g[next[i]]]
    BY <1>9 DEF Continues
  <2>2. CASE i = n
    BY <1>7, <1>10, <2>1, <2>2
  <2>3. CASE i # n
    <3>1. next[i] = After(i) /\ After(i) \in 0 .. n
      BY <1>4, <1>7, <2>3
    <3>2. g[i] = More(i, g[After(i)])
      BY <1>8, <2>1, <2>3, <3>1
    <3>3. QED
      BY <1>10, <2>3, <3>2
  <2>4. QED
    BY <2>2, <2>3
<1>12. g = [i \in 0 .. n |-> PlainAt(g, i)]
  BY <1>11
<1>13. PlainFrom = [i \in 0 .. n |-> PlainAt(PlainFrom, i)]
  BY <1>1, <1>12 DEF PlainFrom
<1>14. \A i \in 0 .. n : PlainFrom[i] = PlainAt(PlainFrom, i)
  BY <1>13
<1> DEFINE S == {i \in 0 .. n : PlainFrom[i] \in ByteString}
<1>15. ASSUME NEW i \in 0 .. n, \A j \in i + 1 .. n : j \in S
       PROVE  i \in S
  <2>1. CASE i = n
    BY <1>3, <1>10, <1>14, <2>1
  <2>2. CASE i # n
    <3>1. After(i) \in i + 1 .. n
      BY <1>4, <2>2
    <3>2. PlainFrom[After(i)] \in ByteString
      BY <1>15, <3>1
    <3>3. PlainFrom[i] = More(i, PlainFrom[After(i)])
      BY <1>10, <1>14, <2>2
    <3>4. QED
      BY <1>5, <3>2, <3>3
  <2>3. QED
    BY <2>1, <2>2
<1>16. 0 .. n \subseteq S
  <2> HIDE DEF S
  <2>1. 0 \in Nat
    OBVIOUS
  <2>2. QED
    BY <1>15, <2>1, InductionDown
<1>17. PlainFrom \in [0 .. n -> ByteString]
  BY <1>13, <1>16
<1>18. QED
  BY <1>1, <1>14, <1>17

-----------------------------------------------------------------------------
(* Pieces. *)

\* r says what follows each of the pieces when they are shown.
Leads(r, list) ==
  /\ r \in [0 .. Len(list) -> ByteString]
  /\ \A i \in 1 .. Len(list) : \E b : ShownAs(list[i], b) /\ r[i - 1] = b \o r[i]

\* A piece for the next bytes of what is left.
LEMMA LeadsFurther ==
  ASSUME NEW list \in Seq(ByteString), NEW r, Leads(r, list),
         NEW p, NEW b, ShownAs(p, b), NEW v \in ByteString, r[Len(list)] = b \o v
  PROVE  \E f : Leads(f, Append(list, p)) /\ f[0] = r[0] /\ f[Len(Append(list, p))] = v
<1>1. PICK n \in Nat : n = Len(list)
  OBVIOUS
<1> DEFINE f == [i \in 0 .. n + 1 |-> IF i = n + 1 THEN v ELSE r[i]]
           longer == Append(list, p)
<1>2. Len(longer) = n + 1 /\ (\A i \in 1 .. n : longer[i] = list[i]) /\ longer[n + 1] = p
  <2>1. p \in ByteString
    BY DEF ShownAs
  <2>2. QED
    BY <1>1, <2>1, AppendProperties
<1> HIDE DEF longer
<1>3. r \in [0 .. n -> ByteString]
  BY <1>1 DEF Leads
<1>4. f \in [0 .. n + 1 -> ByteString] /\ f[n + 1] = v /\ \A i \in 0 .. n : f[i] = r[i]
  BY <1>3
<1> HIDE DEF f
<1>5. ASSUME NEW i \in 1 .. n + 1
      PROVE  \E c : ShownAs(longer[i], c) /\ f[i - 1] = c \o f[i]
  <2>1. CASE i = n + 1
    <3>1. f[i - 1] = b \o f[i]
      BY <1>1, <1>4, <2>1, SMTT(30)
    <3>2. QED
      BY <1>2, <2>1, <3>1
  <2>2. CASE i # n + 1
    <3>1. i \in 1 .. n /\ i - 1 \in 0 .. n /\ i \in 0 .. n
      BY <2>2
    <3>2. PICK c : ShownAs(list[i], c) /\ r[i - 1] = c \o r[i]
      BY <1>1, <3>1 DEF Leads
    <3>3. QED
      BY <1>2, <1>4, <3>1, <3>2
  <2>3. QED
    BY <2>1, <2>2
<1>6. Leads(f, longer)
  BY <1>2, <1>4, <1>5 DEF Leads
<1>7. f[0] = r[0] /\ f[Len(longer)] = v
  BY <1>2, <1>4
<1>8. QED
  BY <1>6, <1>7 DEF longer

Merged(list, i, p) == SubSeq(list, 1, i - 1) \o <<p>> \o SubSeq(list, i + 2, Len(list))

\* The pieces after a merge, one by one.
LEMMA MergedIs ==
  ASSUME NEW list \in Seq(ByteString), NEW i \in 1 .. Len(list) - 1, NEW p \in ByteString
  PROVE  /\ Merged(list, i, p) \in Seq(ByteString)
         /\ Len(Merged(list, i, p)) = Len(list) - 1
         /\ \A j \in 1 .. Len(list) - 1 :
              Merged(list, i, p)[j] = IF j < i THEN list[j] ELSE IF j = i THEN p ELSE list[j + 1]
<1>1. PICK n \in Nat : n = Len(list)
  OBVIOUS
<1> DEFINE a == SubSeq(list, 1, i - 1)
           c == SubSeq(list, i + 2, n)
<1>2. a \in Seq(ByteString) /\ Len(a) = i - 1 /\ \A j \in 1 .. i - 1 : a[j] = list[j]
  <2>1. 1 \in Int /\ i - 1 \in Int /\ \A j \in 1 .. i - 1 : list[j] \in ByteString
    BY <1>1
  <2>2. /\ a \in Seq(ByteString) /\ Len(a) = (IF 1 <= i - 1 THEN i - 1 - 1 + 1 ELSE 0)
        /\ \A j \in 1 .. i - 1 - 1 + 1 : a[j] = list[1 + j - 1]
    BY <2>1, SubSeqProperties
  <2> HIDE DEF a
  <2>3. (IF 1 <= i - 1 THEN i - 1 - 1 + 1 ELSE 0) = i - 1
    OBVIOUS
  <2>4. \A j \in 1 .. i - 1 : j \in 1 .. i - 1 - 1 + 1 /\ 1 + j - 1 = j
    OBVIOUS
  <2>5. QED
    BY <2>2, <2>3, <2>4
<1>3. c \in Seq(ByteString) /\ Len(c) = n - i - 1
        /\ \A j \in 1 .. n - i - 1 : c[j] = list[j + i + 1]
  <2>1. i + 2 \in Int /\ n \in Int /\ \A j \in i + 2 .. n : list[j] \in ByteString
    BY <1>1
  <2>2. /\ c \in Seq(ByteString) /\ Len(c) = (IF i + 2 <= n THEN n - (i + 2) + 1 ELSE 0)
        /\ \A j \in 1 .. n - (i + 2) + 1 : c[j] = list[i + 2 + j - 1]
    BY <2>1, SubSeqProperties
  <2> HIDE DEF c
  <2>3. (IF i + 2 <= n THEN n - (i + 2) + 1 ELSE 0) = n - i - 1
    BY <1>1
  <2>4. \A j \in 1 .. n - i - 1 : j \in 1 .. n - (i + 2) + 1 /\ i + 2 + j - 1 = j + i + 1
    BY <1>1
  <2>5. QED
    BY <2>2, <2>3, <2>4
<1> HIDE DEF a, c
<1>4. <<p>> \in Seq(ByteString) /\ Len(<<p>>) = 1 /\ <<p>>[1] = p
  OBVIOUS
<1>5. PICK d \in Seq(ByteString) : d = a \o <<p>>
  BY <1>2, <1>4, ConcatProperties
<1>6. Len(d) = i /\ \A j \in 1 .. i : d[j] = IF j < i THEN list[j] ELSE p
  <2>1. /\ Len(a \o <<p>>) = Len(a) + Len(<<p>>)
        /\ \A j \in 1 .. Len(a) + Len(<<p>>) :
             (a \o <<p>>)[j] = IF j <= Len(a) THEN a[j] ELSE <<p>>[j - Len(a)]
    BY <1>2, <1>4, ConcatProperties
  <2>2. Len(d) = i /\ \A j \in 1 .. i : d[j] = IF j <= i - 1 THEN a[j] ELSE <<p>>[j - (i - 1)]
    BY <1>2, <1>4, <1>5, <2>1
  <2>3. \A j \in 1 .. i : IF j < i THEN j <= i - 1 /\ j \in 1 .. i - 1
                          ELSE ~(j <= i - 1) /\ j - (i - 1) = 1
    OBVIOUS
  <2>4. QED
    BY <1>2, <1>4, <2>2, <2>3
<1>7. /\ d \o c \in Seq(ByteString) /\ Len(d \o c) = n - 1
      /\ \A j \in 1 .. n - 1 : (d \o c)[j] = IF j <= i THEN d[j] ELSE c[j - i]
  <2>1. /\ d \o c \in Seq(ByteString) /\ Len(d \o c) = Len(d) + Len(c)
        /\ \A j \in 1 .. Len(d) + Len(c) :
            (d \o c)[j] = IF j <= Len(d) THEN d[j] ELSE c[j - Len(d)]
    BY <1>3, ConcatProperties
  <2>2. Len(d) + Len(c) = n - 1
    BY <1>1, <1>3, <1>6
  <2>3. QED
    BY <1>6, <2>1, <2>2
<1>8. ASSUME NEW j \in 1 .. n - 1
      PROVE  (d \o c)[j] = IF j < i THEN list[j] ELSE IF j = i THEN p ELSE list[j + 1]
  <2>1. CASE j <= i
    <3>1. j \in 1 .. i /\ (~(j < i) <=> j = i)
      BY <2>1
    <3>2. QED
      BY <1>6, <1>7, <2>1, <3>1
  <2>2. CASE ~(j <= i)
    <3>1. ~(j < i) /\ j # i /\ j - i \in 1 .. n - i - 1 /\ (j - i) + i + 1 = j + 1
      BY <1>1, <2>2
    <3>2. QED
      BY <1>3, <1>7, <2>2, <3>1
  <2>3. QED
    BY <2>1, <2>2
<1>9. Merged(list, i, p) = d \o c
  BY <1>1, <1>5 DEF Merged, a, c
<1>10. QED
  BY <1>1, <1>7, <1>8, <1>9

\* Two pieces that become one.
LEMMA LeadsMerged ==
  ASSUME NEW list \in Seq(ByteString), NEW r, Leads(r, list), NEW i \in 1 .. Len(list) - 1,
         NEW p \in ByteString,
         \A b, c : ShownAs(list[i], b) /\ ShownAs(list[i + 1], c) => ShownAs(p, b \o c)
  PROVE  \E f : /\ Leads(f, Merged(list, i, p)) /\ f[0] = r[0]
                /\ f[Len(Merged(list, i, p))] = r[Len(list)]
<1>1. PICK n \in Nat \ {0} : n = Len(list)
  OBVIOUS
<1> DEFINE f == [j \in 0 .. n - 1 |-> IF j < i THEN r[j] ELSE r[j + 1]]
           m == Merged(list, i, p)
<1>2. Len(m) = n - 1
        /\ \A j \in 1 .. n - 1 :
            m[j] = IF j < i THEN list[j] ELSE IF j = i THEN p ELSE list[j + 1]
  <2> HIDE DEF f, m
  <2>1. /\ Len(Merged(list, i, p)) = Len(list) - 1
        /\ \A j \in 1 .. Len(list) - 1 :
             Merged(list, i, p)[j] = IF j < i THEN list[j] ELSE IF j = i THEN p ELSE list[j + 1]
    BY MergedIs
  <2> USE DEF m
  <2>2. QED
    BY <1>1, <2>1, Zenon
<1> HIDE DEF m
<1>3. r \in [0 .. n -> ByteString] /\ \A j \in 1 .. n : \E b : ShownAs(list[j], b)
        /\ r[j - 1] = b \o r[j]
  BY <1>1 DEF Leads
<1>4. f \in [0 .. n - 1 -> ByteString]
        /\ \A j \in 0 .. n - 1 : f[j] = IF j < i THEN r[j] ELSE r[j + 1]
  <2>1. \A j \in 0 .. n - 1 : r[j] \in ByteString /\ r[j + 1] \in ByteString
    BY <1>3
  <2>2. QED
    BY <2>1
<1> HIDE DEF f
<1>5. ASSUME NEW j \in 1 .. n - 1
      PROVE  \E b : ShownAs(m[j], b) /\ f[j - 1] = b \o f[j]
  <2>1. CASE j < i
    <3>1. m[j] = list[j] /\ f[j - 1] = r[j - 1] /\ f[j] = r[j] /\ j \in 1 .. n
      BY <1>2, <1>4, <2>1
    <3>2. QED
      BY <1>3, <3>1
  <2>2. CASE j = i
    <3>1. m[i] = p /\ f[i - 1] = r[i - 1] /\ f[i] = r[i + 1] /\ i \in 1 .. n /\ i + 1 \in 1 .. n
      BY <1>1, <1>2, <1>4, <2>2
    <3>2. PICK b : ShownAs(list[i], b) /\ r[i - 1] = b \o r[i]
      BY <1>3, <3>1
    <3>3. PICK c : ShownAs(list[i + 1], c) /\ r[i] = c \o r[i + 1]
      <4>1. PICK k \in 1 .. n : k = i + 1 /\ k - 1 = i
        BY <3>1
      <4>2. QED
        BY <1>3, <4>1
    <3>4. b \in Seq(Byte) /\ c \in Seq(Byte) /\ r[i + 1] \in Seq(Byte)
      <4>1. b \in Seq(Byte) /\ c \in Seq(Byte)
        BY <3>2, <3>3, Zenon DEF ShownAs, ByteString
      <4>2. i + 1 \in 0 .. n
        BY <3>1
      <4>3. r[i + 1] \in Seq(Byte)
        BY <1>3, <4>2 DEF ByteString
      <4>4. QED
        BY <4>1, <4>3
    <3>5. r[i - 1] = (b \o c) \o r[i + 1]
      <4>1. (b \o c) \o r[i + 1] = b \o (c \o r[i + 1])
        BY <3>4, Associative, ZenonT(30)
      <4>2. QED
        BY <3>2, <3>3, <4>1, Zenon
    <3>6. ShownAs(p, b \o c)
      BY <3>2, <3>3, Zenon
    <3>7. QED
      BY <2>2, <3>1, <3>5, <3>6, Zenon
  <2>3. CASE j > i
    <3>1. m[j] = list[j + 1] /\ f[j - 1] = r[j] /\ f[j] = r[j + 1] /\ j + 1 \in 1 .. n
            /\ (j + 1) - 1 = j
      <4>1. ~(j < i) /\ j # i /\ ~(j - 1 < i) /\ j - 1 \in 0 .. n - 1 /\ (j - 1) + 1 = j
              /\ j \in 0 .. n - 1
            /\ j + 1 \in 1 .. n /\ (j + 1) - 1 = j
        BY <2>3
      <4>2. QED
        BY <1>2, <1>4, <4>1
    <3>2. PICK b : ShownAs(list[j + 1], b) /\ r[(j + 1) - 1] = b \o r[j + 1]
      BY <1>3, <3>1
    <3>3. QED
      BY <3>1, <3>2
  <2>4. j < i \/ j = i \/ j > i
    OBVIOUS
  <2>5. QED
    BY <2>1, <2>2, <2>3, <2>4, Zenon
<1>6. Leads(f, m)
  BY <1>2, <1>4, <1>5 DEF Leads
<1>7. f[0] = r[0] /\ f[Len(m)] = r[Len(list)]
  <2>1. 0 \in 0 .. n - 1 /\ n - 1 \in 0 .. n - 1 /\ 0 < i /\ ~(n - 1 < i) /\ (n - 1) + 1 = n
    BY <1>1
  <2>2. QED
    BY <1>1, <1>2, <1>4, <2>1
<1>8. QED
  BY <1>6, <1>7 DEF m

-----------------------------------------------------------------------------
(* Bytes and merges. *)

\* With a vocabulary that covers the text a byte becomes a piece that is shown
\* as that byte.
LEMMA PieceOfByte ==
  ASSUME text \in ByteString, Covers, NEW i \in 0 .. Len(text) - 1
  PROVE  ShownAs(ByteToTokenPiece(text[i + 1]), <<text[i + 1]>>)
<1>1. i + 1 \in DOMAIN text /\ i + 1 \in 1 .. Len(text)
  BY DEF ByteString
<1>2. PICK b \in Byte : b = text[i + 1]
  BY <1>1 DEF ByteString
<1>3. Known(ByteEncoder[b]) \/ Known(Hex(b))
  BY <1>1, <1>2 DEF Covers
<1>4. <<b>> \in ByteString
  BY DEF ByteString
<1>5. CASE Known(ByteEncoder[b])
  <2>1. ByteToTokenPiece(b) = ByteEncoder[b]
    BY <1>5, Zenon DEF ByteToTokenPiece
  <2>2. ByteEncoder[b] \in ByteString /\ (ByteEncoder[b][1] = Less => ByteEncoder[b] = <<Less>>)
    BY Encoded DEF ByteString
  <2>3. Spells(ByteEncoder[b], <<b>>)
    BY CharacterSpells
  <2>4. QED
    BY <1>2, <1>4, <1>5, <2>1, <2>2, <2>3, Zenon DEF ShownAs
<1>6. CASE ~Known(ByteEncoder[b])
  <2>1. ByteToTokenPiece(b) = Hex(b) /\ Known(Hex(b))
    BY <1>3, <1>6, Zenon DEF ByteToTokenPiece
  <2>2. Hex(b) \in ByteString
    BY HexReads DEF ByteString
  <2>3. QED
    BY <1>2, <1>4, <2>1, <2>2, Zenon DEF ShownAs
<1>7. QED
  BY <1>5, <1>6

\* A piece that may be merged stands for its bytes.
LEMMA SpelledUnlessLess ==
  ASSUME NEW p, NEW b, ShownAs(p, b), p[1] # Less
  PROVE  Spells(p, b)
<1>1. ~Marked(p)
  BY MarkedBegins DEF ShownAs
<1>2. \A x \in Byte : p # Hex(x)
  BY HexReads
<1>3. QED
  BY <1>1, <1>2, Zenon DEF ShownAs

\* What a rule makes of two pieces is shown as they are.
LEMMA PieceOfMerge ==
  ASSUME RulesAre, Covers, pieces \in Seq(ByteString), NEW i \in Candidates
  PROVE  LET rule == rules[Key(pieces[i], pieces[i + 1])]
         IN /\ rule.left \o rule.right \in ByteString
            /\ \A b, c : ShownAs(pieces[i], b) /\ ShownAs(pieces[i + 1], c)
                          => ShownAs(rule.left \o rule.right, b \o c)
<1> DEFINE k == Key(pieces[i], pieces[i + 1])
<1>1. k \in DOMAIN rules /\ pieces[i][1] # Less /\ pieces[i + 1][1] # Less
  BY DEF Candidates, Merges
<1>2. PICK l \in ByteString, r \in ByteString : l = rules[k].left /\ r = rules[k].right
        /\ k = Key(l, r)
  BY <1>1 DEF RulesAre
<1>3. Known(l \o r)
  BY <1>1, <1>2, Zenon DEF Covers
<1>4. l \o r \in ByteString
  <2>1. l \in Seq(Byte) /\ r \in Seq(Byte)
    BY DEF ByteString
  <2>2. QED
    BY <2>1, ConcatProperties DEF ByteString
<1>5. ASSUME NEW b, NEW c, ShownAs(pieces[i], b), ShownAs(pieces[i + 1], c)
      PROVE  ShownAs(l \o r, b \o c)
  <2>1. PICK p, q : p = pieces[i] /\ q = pieces[i + 1]
    OBVIOUS
  <2>2. Spells(p, b) /\ Spells(q, c) /\ p[1] # Less /\ q[1] # Less
    BY <1>1, <1>5, <2>1, SpelledUnlessLess, Zenon
  <2>3. /\ p \in ByteString /\ q \in ByteString
        /\ \A j \in 1 .. Len(p) : p[j] # NewLine
        /\ \A j \in 1 .. Len(q) : q[j] # NewLine
    BY <2>2, Zenon DEF Spells
  <2>4. Key(p, q) = Key(l, r)
    BY <1>2, <2>1, Zenon
  <2>5. p = l /\ q = r
    BY <2>3, <2>4, KeyApart
  <2>6. Spells(l \o r, b \o c) /\ (l \o r)[1] # Less
    BY <2>2, <2>5, SpellsTogether
  <2>7. b \o c \in ByteString
    BY <2>6, Zenon DEF Spells
  <2>8. QED
    BY <1>3, <1>4, <2>6, <2>7, Zenon DEF ShownAs
<1> HIDE DEF k
<1>6. /\ rules[k].left \o rules[k].right \in ByteString
      /\ \A b, c : ShownAs(pieces[i], b) /\ ShownAs(pieces[i + 1], c)
                    => ShownAs(rules[k].left \o rules[k].right, b \o c)
  BY <1>2, <1>4, <1>5
<1>7. QED
  BY <1>6 DEF k

-----------------------------------------------------------------------------
(* From the pieces to what is shown. *)

StringsAre == \A key \in DOMAIN metadata : metadata[key].type = "strings"
    => metadata[key].value \in Seq(ByteString)

Start == IF bos >= 0 THEN <<bos>> ELSE <<>>

\* r says what follows each of the ids when they are shown.
Shows(r, list) ==
  /\ r \in [0 .. Len(list) -> ByteString] /\ r[Len(list)] = <<>>
  /\ \A i \in 1 .. Len(list) : DecodeToken(list[i]) \in ByteString
      /\ r[i - 1] = DecodeToken(list[i]) \o r[i]

IdsOf(list) == Start \o [i \in DOMAIN list |-> IdOf(list[i])]

WhileSplitting ==
  /\ cursor \in 0 .. Len(text) /\ pieces \in Seq(ByteString) /\ ids = Start /\ shown = <<>>
  /\ Covers => \E r : Leads(r, pieces) /\ r[0] = Plain /\ r[Len(pieces)] = PlainFrom[cursor]

WhileMerging ==
  /\ cursor = 0 /\ pieces \in Seq(ByteString) /\ ids = Start /\ shown = <<>>
  /\ Covers => \E r : Leads(r, pieces) /\ r[0] = Plain /\ r[Len(pieces)] = <<>>

WhileDecoding ==
  Covers => /\ Len(ids) \in Nat /\ cursor \in 0 .. Len(ids) /\ shown \in ByteString
            /\ \E r : Shows(r, ids) /\ shown \o r[cursor] = Plain

TextInv ==
  /\ StringsAre /\ TokensAre /\ RulesAre /\ text \in ByteString
  /\ step \in {"unloaded", "idle"} => cursor = 0 /\ pieces = <<>> /\ ids = <<>> /\ shown = <<>>
  /\ step \in {"unloaded", "idle", "splitting", "merging", "decoding"}
  /\ step = "splitting" => WhileSplitting
  /\ step = "merging" => WhileMerging
  /\ step = "decoding" => WhileDecoding

\* What is shown of ids is what is shown of the pieces that they are of.
LEMMA IdsShow ==
  ASSUME TokensAre, Covers, pieces \in Seq(ByteString), NEW r, Leads(r, pieces),
         r[Len(pieces)] = <<>>, NEW list, list = IdsOf(pieces)
  PROVE  Len(list) \in Nat /\ \E f : Shows(f, list) /\ f[0] = r[0]
<1>1. PICK n \in Nat : n = Len(pieces) /\ DOMAIN pieces = 1 .. n
  OBVIOUS
<1> DEFINE own == [i \in DOMAIN pieces |-> IdOf(pieces[i])]
           Ids == {bos} \cup {IdOf(pieces[i]) : i \in 1 .. n}
<1>2. own \in Seq(Ids) /\ Len(own) = n /\ \A i \in 1 .. n : own[i] = IdOf(pieces[i])
  BY <1>1
<1>3. Start \in Seq(Ids) /\ Len(Start) \in 0 .. 1 /\ (Len(Start) = 1 => bos >= 0
        /\ Start[1] = bos)
  <2>1. CASE bos >= 0
    <3>1. Start = <<bos>> /\ bos \in Ids
      BY <2>1 DEF Start
    <3> HIDE DEF Ids
    <3>2. QED
      BY <2>1, <3>1
  <2>2. CASE ~(bos >= 0)
    <3>1. Start = <<>>
      BY <2>2 DEF Start
    <3>2. QED
      BY <3>1
  <2>3. QED
    BY <2>1, <2>2
<1> HIDE DEF own, Ids
<1>4. PICK m \in 0 .. 1 : m = Len(Start)
  BY <1>3
<1>5. Len(list) = m + n /\ \A i \in 1 .. m + n : list[i] = IF i <= m THEN Start[i] ELSE own[i - m]
  <2>1. list = Start \o own
    BY Zenon DEF own, IdsOf
  <2>2. /\ Len(Start \o own) = Len(Start) + Len(own)
        /\ \A i \in 1 .. Len(Start) + Len(own) :
             (Start \o own)[i] = IF i <= Len(Start) THEN Start[i] ELSE own[i - Len(Start)]
    BY <1>2, <1>3, ConcatProperties
  <2>3. QED
    BY <1>2, <1>4, <2>1, <2>2
<1>6. m = 1 => DecodeToken(list[1]) = <<>>
  <2>1. ASSUME m = 1
        PROVE  bos >= 0 /\ list[1] = bos
    <3>1. 1 \in 1 .. m + n /\ 1 <= m
      BY <2>1
    <3>2. QED
      BY <1>3, <1>4, <1>5, <2>1, <3>1
  <2>2. bos >= 0 => DecodeToken(bos) = <<>>
    BY Zenon DEF Covers
  <2>3. QED
    BY <2>1, <2>2
<1>7. r \in [0 .. n -> ByteString] /\ r[n] = <<>>
      /\ \A i \in 1 .. n : \E b : ShownAs(pieces[i], b) /\ r[i - 1] = b \o r[i]
  BY <1>1 DEF Leads
<1>8. \A i \in 1 .. n : DecodeToken(own[i]) \in ByteString
        /\ r[i - 1] = DecodeToken(own[i]) \o r[i]
  <2>1. ASSUME NEW i \in 1 .. n
        PROVE  DecodeToken(own[i]) \in ByteString /\ r[i - 1] = DecodeToken(own[i]) \o r[i]
    <3>1. PICK b : ShownAs(pieces[i], b) /\ r[i - 1] = b \o r[i]
      BY <1>7
    <3>2. DecodeToken(own[i]) = b
      BY <1>2, <3>1, ShownIsDecoded
    <3>3. QED
      BY <3>1, <3>2 DEF ShownAs
  <2>2. QED
    BY <2>1
<1> DEFINE f == [i \in 0 .. m + n |-> IF i <= m THEN r[0] ELSE r[i - m]]
<1>9. \A i \in 0 .. m + n : ~(i <= m) => i - m \in 1 .. n
  OBVIOUS
<1>10. f \in [0 .. m + n -> ByteString]
         /\ \A i \in 0 .. m + n : f[i] = IF i <= m THEN r[0] ELSE r[i - m]
  BY <1>7, <1>9
<1> HIDE DEF f
<1>11. f[m + n] = <<>> /\ f[0] = r[0]
  <2>1. CASE n = 0
    BY <1>7, <1>10, <2>1
  <2>2. CASE n # 0
    <3>1. ~(m + n <= m) /\ m + n - m = n /\ m + n \in 0 .. m + n /\ 0 \in 0 .. m + n /\ 0 <= m
      BY <2>2
    <3>2. QED
      BY <1>7, <1>10, <3>1
  <2>3. QED
    BY <2>1, <2>2
<1>12. ASSUME NEW i \in 1 .. m + n
       PROVE  DecodeToken(list[i]) \in ByteString /\ f[i - 1] = DecodeToken(list[i]) \o f[i]
  <2>1. CASE i <= m
    <3>1. i = 1 /\ m = 1 /\ i - 1 \in 0 .. m + n /\ i \in 0 .. m + n /\ i - 1 <= m
      BY <2>1
    <3>2. DecodeToken(list[i]) = <<>> /\ f[i - 1] = r[0] /\ f[i] = r[0] /\ r[0] \in Seq(Byte)
      BY <1>6, <1>7, <1>10, <2>1, <3>1 DEF ByteString
    <3>3. <<>> \o r[0] = r[0] /\ <<>> \in Seq(Byte)
      BY <3>2, ConcatEmptySeq
    <3>4. QED
      BY <3>2, <3>3 DEF ByteString
  <2>2. CASE ~(i <= m)
    <3>1. PICK j \in 1 .. n : j = i - m
      BY <1>9, <2>2
    <3>2. list[i] = own[j]
      BY <1>5, <2>2, <3>1
    <3>3. f[i] = r[j]
      <4>1. i \in 0 .. m + n
        OBVIOUS
      <4>2. QED
        BY <1>10, <2>2, <3>1, <4>1
    <3>4. f[i - 1] = r[j - 1]
      <4>1. i - 1 \in 0 .. m + n /\ (i - 1 <= m <=> j = 1) /\ (i - 1) - m = j - 1
        BY <2>2, <3>1
      <4>2. QED
        BY <1>10, <4>1
    <3>5. QED
      BY <1>8, <3>2, <3>3, <3>4
  <2>3. QED
    BY <2>1, <2>2
<1>13. Shows(f, list)
  BY <1>5, <1>10, <1>11, <1>12 DEF Shows
<1>14. QED
  BY <1>5, <1>11, <1>13

-----------------------------------------------------------------------------
(* What stays with the text. *)

LEMMA PlainTyped == text \in ByteString => PlainFrom \in [0 .. Len(text) -> ByteString]
    /\ Plain = PlainFrom[0]
BY PlainUnfolds, PlainIs

LEMMA PlainIsNext == Plain' = PlainFrom'[0]
<1>1. PlainFrom' = CHOOSE f : f = [i \in 0 .. Len(text') |->
        IF i = Len(text') THEN <<>>
        ELSE IF SpecialAt(i)' # NoString THEN f[i + Len(SpecialAt(i)')]
        ELSE <<text'[i + 1]>> \o f[i + 1]]
  BY Zenon DEF PlainFrom, PlainAt
<1>2. QED
  BY <1>1, Zenon DEF Plain

\* What is known of a text and its tokens stays while they stay.
LEMMA SameKnown ==
  ASSUME UNCHANGED <<tokens, rules, bos, text>>
  PROVE  /\ \A p, b : ShownAs(p, b)' <=> ShownAs(p, b)
         /\ \A id : DecodeToken(id)' = DecodeToken(id)
         /\ PlainFrom' = PlainFrom /\ Plain' = Plain /\ Covers' = Covers /\ Start' = Start
         /\ TokensAre' = TokensAre /\ RulesAre' = RulesAre
<1>1. \A s : Known(s)' <=> Known(s)
  BY Zenon DEF Known
<1>2. \A p, b : ShownAs(p, b)' <=> ShownAs(p, b)
  BY <1>1, Zenon DEF ShownAs
<1>3. \A id : DecodeToken(id)' = DecodeToken(id)
  BY Zenon DEF DecodeToken, TokenPiece
<1>4. \A i : SpecialAt(i)' = SpecialAt(i)
  BY ZenonT(30) DEF SpecialAt, StartsAt, Known
<1>5. PlainFrom' = PlainFrom
  <2> DEFINE Now(f) == [i \in 0 .. Len(text) |-> PlainAt(f, i)]
             Then(f) == [i \in 0 .. Len(text') |-> PlainAt(f, i)']
  <2>1. \A f, i : PlainAt(f, i)' = PlainAt(f, i)
    BY <1>4, Zenon DEF PlainAt
  <2>2. \A f : Now(f) = Then(f)
    BY <2>1, Zenon
  <2>3. PlainFrom = (CHOOSE f : f = Now(f)) /\ PlainFrom' = CHOOSE f : f = Then(f)
    BY Zenon DEF PlainFrom
  <2> HIDE DEF Now, Then
  <2>4. (CHOOSE f : f = Now(f)) = CHOOSE f : f = Then(f)
    BY <2>2, Zenon
  <2>5. QED
    BY <2>3, <2>4, Zenon
<1>6. Plain' = Plain
  BY <1>5, PlainIs, PlainIsNext, Zenon
<1>7. Covers' = Covers
  BY Zenon DEF Covers, Known, DecodeToken, TokenPiece
<1>8. Start' = Start /\ TokensAre' = TokensAre /\ RulesAre' = RulesAre
  BY Zenon DEF Start, TokensAre, RulesAre
<1>9. QED
  BY <1>2, <1>3, <1>5, <1>6, <1>7, <1>8, Zenon

LEMMA SameLeads ==
  ASSUME UNCHANGED <<tokens, rules, bos, text>>
  PROVE  \A r : Leads(r, pieces)' <=> Leads(r, pieces')
<1>1. \A p, b : ShownAs(p, b)' <=> ShownAs(p, b)
  BY SameKnown
<1>2. QED
  BY <1>1 DEF Leads

LEMMA SameShows ==
  ASSUME UNCHANGED <<tokens, rules, bos, text>>
  PROVE  \A r : Shows(r, ids)' <=> Shows(r, ids')
<1>1. \A id : DecodeToken(id)' = DecodeToken(id)
  BY SameKnown
<1>2. QED
  BY <1>1 DEF Shows

LEMMA LeadsNothing == \A v \in ByteString : \E r : Leads(r, <<>>) /\ r[0] = v /\ r[Len(<<>>)] = v
<1> SUFFICES ASSUME NEW v \in ByteString PROVE \E r : Leads(r, <<>>) /\ r[0] = v
      /\ r[Len(<<>>)] = v
  OBVIOUS
<1> DEFINE f == [i \in 0 .. 0 |-> v]
<1>1. Len(<<>>) = 0 /\ \A i \in 1 .. 0 : FALSE
  OBVIOUS
<1>2. f \in [0 .. 0 -> ByteString] /\ f[0] = v
  OBVIOUS
<1> HIDE DEF f
<1>3. Leads(f, <<>>)
  BY <1>1, <1>2, Zenon DEF Leads
<1>4. QED
  BY <1>1, <1>2, <1>3, Zenon

-----------------------------------------------------------------------------

LEMMA TextInit == Init => TextInv
<1> SUFFICES ASSUME Init PROVE TextInv
  OBVIOUS
<1> USE DEF Init, FileInit, TokenizerInit
<1>1. StringsAre
  BY DEF StringsAre
<1>2. TokensAre /\ RulesAre /\ text \in ByteString
  BY DEF TokensAre, RulesAre, ByteString
<1>3. QED
  BY <1>1, <1>2 DEF TextInv

\* The strings of the metadata are those of the file.
LEMMA StringsStep ==
  ASSUME IInv, StringsAre, [Next]_vars
  PROVE  StringsAre'
<1>1. CASE ReadEntry
  <2> DEFINE entry == file.entries[taken + 1]
  <2>1. taken + 1 \in DOMAIN file.entries /\ file \in Files
    BY <1>1, OfFiles DEF IInv, Progress, ReadEntry
  <2>2. entry.type = "strings" => entry.value \in Seq(ByteString)
    BY <2>1, LoadingAssumption DEF ByteString
  <2>3. metadata' = [x \in DOMAIN metadata \cup {entry.key} |->
                       IF x = entry.key THEN [type |-> entry.type,
                           value |-> entry.value] ELSE metadata[x]]
    BY <1>1, Zenon DEF ReadEntry, With
  <2> HIDE DEF entry
  <2>4. ASSUME NEW key \in DOMAIN metadata', metadata'[key].type = "strings"
        PROVE  metadata'[key].value \in Seq(ByteString)
    <3>1. CASE key = entry.key
      BY <2>2, <2>3, <2>4, <3>1
    <3>2. CASE key # entry.key
      <4>1. key \in DOMAIN metadata /\ metadata'[key] = metadata[key]
        BY <2>3, <3>2
      <4>2. QED
        BY <2>4, <4>1 DEF StringsAre
    <3>3. QED
      BY <3>1, <3>2
  <2>5. QED
    BY <2>4 DEF StringsAre
<1>2. CASE UNCHANGED metadata
  BY <1>2 DEF StringsAre
<1>3. [Next]_vars => ReadEntry \/ UNCHANGED metadata
  BY Zenon DEF Next, vars, fileVars, ReadFile, ReadInfo, RefuseFile, Refuse, Place, ReadTokenizer,
     RefuseTokenizer,
        LoadModel, Configure, RefuseConfig, LoadGlobals, LoadLayer, RefuseWeights, Ask, Answer
<1>4. QED
  BY <1>1, <1>2, <1>3

\* Nothing of the tokenizer is touched.
LEMMA TokenizerStays ==
  ASSUME TextInv, StringsAre', UNCHANGED tokenizerVars
  PROVE  TextInv'
<1> USE DEF tokenizerVars
<1>1. UNCHANGED <<tokens, rules, bos, text>>
  OBVIOUS
<1>2. /\ Covers' = Covers /\ Plain' = Plain /\ PlainFrom' = PlainFrom /\ Start' = Start
      /\ \A id : DecodeToken(id)' = DecodeToken(id)
  BY <1>1, SameKnown
<1>3. /\ \A r : Leads(r, pieces)' <=> Leads(r, pieces)
      /\ \A r : Shows(r, ids)' <=> Shows(r, ids)
  <2>1. \A r : Leads(r, pieces)' <=> Leads(r, pieces')
    BY <1>1, SameLeads
  <2>2. \A r : Shows(r, ids)' <=> Shows(r, ids)
    BY <1>1, SameShows
  <2>3. QED
    BY <2>1, <2>2
<1>4. (WhileSplitting => WhileSplitting') /\ (WhileMerging => WhileMerging')
  BY <1>2, <1>3 DEF WhileSplitting, WhileMerging
<1>5. WhileDecoding => WhileDecoding'
  BY <1>2, <1>3 DEF WhileDecoding
<1>6. TokensAre' /\ RulesAre' /\ (text \in ByteString)'
  BY <1>1, SameKnown, Zenon DEF TextInv
<1>7. QED
  BY <1>4, <1>5, <1>6, Zenon DEF TextInv

\* The tables are read.
LEMMA ReadTokenizerStep ==
  ASSUME TextInv, StringsAre', ReadTokenizer
  PROVE  TextInv'
<1>1. /\ step = "unloaded" /\ step' = "idle" /\ tokens' = GetStrings(TokensKey)
      /\ rules' = RulesOf(GetStrings(MergesKey)) /\ UNCHANGED <<text, cursor, pieces, ids, shown>>
  BY DEF ReadTokenizer, LoadTokenizer
<1>2. \A key : GetStrings(key) \in Seq(ByteString)
  BY DEF TextInv, StringsAre, GetStrings, Has
<1>3. TokensAre'
  BY <1>1, <1>2 DEF TokensAre
<1>4. RulesAre'
  <2>1. PICK lines \in Seq(ByteString) : lines = GetStrings(MergesKey)
    BY <1>2
  <2>2. rules' = RulesOf(lines)
    BY <1>1, <2>1
  <2>3. QED
    BY <2>2, RulesOfLines DEF RulesAre
<1>5. QED
  BY <1>1, <1>3, <1>4 DEF TextInv

\* A text is given.
LEMMA AskStep ==
  ASSUME IInv, TextInv, StringsAre', Ask
  PROVE  TextInv'
<1>1. PICK t \in Texts(file) \cup {ChatTemplate(m) : m \in Chats(file)} : StartEncode(t)
  BY DEF Ask
<1>2. t \in ByteString
  <2>1. file \in Files
    BY DEF IInv, Progress
  <2>2. QED
    BY <2>1, LoadingAssumption DEF ByteString
<1>3. /\ step = "idle" /\ step' = "splitting" /\ text' = t /\ ids' = Start /\ cursor = 0
        /\ pieces = <<>>
      /\ shown = <<>> /\ UNCHANGED <<tokens, rules, bos, cursor, pieces, shown>>
  BY <1>1 DEF StartEncode, TextInv, Start
<1>4. (text \in ByteString)' /\ TokensAre' /\ RulesAre' /\ Start' = Start
  BY <1>2, <1>3 DEF TextInv, TokensAre, RulesAre, Start
<1>5. \E r : Leads(r, <<>>)' /\ r[0] = Plain' /\ r[Len(<<>>)] = PlainFrom'[0]
  <2>1. (text \in ByteString => PlainFrom \in [0 .. Len(text) -> ByteString]
          /\ Plain = PlainFrom[0])'
    BY PlainTyped, PTL
  <2>2. Plain' \in ByteString
    <3>1. 0 \in 0 .. Len(text')
      BY <1>4 DEF ByteString
    <3>2. QED
      BY <1>4, <2>1, <3>1
  <2>3. (\A v \in ByteString : \E r : Leads(r, <<>>) /\ r[0] = v /\ r[Len(<<>>)] = v)'
    BY LeadsNothing, PTL
  <2>4. \A v \in ByteString : \E r : Leads(r, <<>>)' /\ r[0] = v /\ r[Len(<<>>)] = v
    BY <2>3 DEF ByteString
  <2>5. Plain' = PlainFrom'[0]
    BY <1>4, <2>1
  <2>6. QED
    BY <2>2, <2>4, <2>5, Zenon
<1>6. WhileSplitting'
  <2>1. (cursor \in 0 .. Len(text))' /\ (pieces \in Seq(ByteString))'
    BY <1>3, <1>4 DEF ByteString
  <2>2. ids' = Start' /\ shown' = <<>>
    BY <1>3, <1>4
  <2>3. \E r : Leads(r, pieces)' /\ r[0] = Plain' /\ r[Len(pieces')] = PlainFrom'[cursor']
    <3>1. pieces' = <<>> /\ cursor' = 0
      BY <1>3
    <3>2. \A r : Leads(r, <<>>)' <=> Leads(r, pieces)'
      BY <3>1, Zenon DEF Leads
    <3>3. QED
      BY <1>5, <3>1, <3>2, Zenon
  <2>4. QED
    BY <2>1, <2>2, <2>3, Zenon DEF WhileSplitting
<1>7. QED
  BY <1>3, <1>4, <1>6 DEF TextInv

-----------------------------------------------------------------------------
(* The steps of a text. *)

\* A piece for what comes next of the text.
LEMMA SplitPiece ==
  ASSUME text \in ByteString, cursor \in 0 .. Len(text), Split
  PROVE  \E p \in ByteString, next \in 0 .. Len(text) :
           /\ pieces' = Append(pieces, p) /\ cursor' = next
           /\ Covers => \E b : ShownAs(p, b) /\ PlainFrom[cursor] = b \o PlainFrom[next]
<1>1. PICK n \in Nat : n = Len(text)
  BY DEF ByteString
<1>2. cursor \in 0 .. n - 1
  BY <1>1 DEF Split
<1>3. PlainFrom \in [0 .. n -> ByteString] /\ PlainFrom[cursor] = PlainAt(PlainFrom, cursor)
  BY <1>1, PlainUnfolds
<1>4. cursor # Len(text)
  BY <1>1, <1>2
<1>5. CASE SpecialAt(cursor) # NoString
  <2>1. PICK p \in ByteString, k \in Nat :
          p = SpecialAt(cursor) /\ Marked(p) /\ Known(p) /\ k = Len(p) /\ cursor + k <= n
    BY <1>1, <1>2, <1>5, SpecialIs
  <2>2. PICK next \in 0 .. n : next = cursor + k
    BY <1>2, <2>1
  <2>3. pieces' = Append(pieces, p) /\ cursor' = next
    BY <1>5, <2>1, <2>2 DEF Split
  <2>4. PlainFrom[cursor] = <<>> \o PlainFrom[next]
    <3>1. PlainFrom[cursor] = PlainFrom[next]
      BY <1>3, <1>4, <1>5, <2>1, <2>2, Zenon DEF PlainAt
    <3>2. PlainFrom[next] \in Seq(Byte)
      BY <1>3 DEF ByteString
    <3>3. QED
      BY <3>1, <3>2, ConcatEmptySeq
  <2>5. ShownAs(p, <<>>)
    <3>1. <<>> \in ByteString
      BY DEF ByteString
    <3>2. QED
      BY <2>1, <3>1, Zenon DEF ShownAs
  <2>6. QED
    BY <1>1, <2>3, <2>4, <2>5
<1>6. CASE SpecialAt(cursor) = NoString
  <2>1. PICK next \in 0 .. n : next = cursor + 1
    BY <1>2
  <2>2. PICK x \in Byte : x = text[cursor + 1]
    BY <1>1, <1>2 DEF ByteString
  <2>3. PICK p : p = ByteToTokenPiece(x)
    OBVIOUS
  <2>4. p \in ByteString
    <3>1. ByteEncoder[x] \in ByteString /\ Hex(x) \in ByteString /\ <<x>> \in ByteString
      BY Encoded, HexReads DEF ByteString
    <3>2. QED
      BY <2>3, <3>1, Zenon DEF ByteToTokenPiece
  <2>5. pieces' = Append(pieces, p) /\ cursor' = next
    BY <1>6, <2>1, <2>2, <2>3 DEF Split
  <2>6. PlainFrom[cursor] = <<x>> \o PlainFrom[next]
    BY <1>3, <1>4, <1>6, <2>1, <2>2, Zenon DEF PlainAt
  <2>7. Covers => ShownAs(p, <<x>>)
    BY <1>1, <1>2, <2>2, <2>3, PieceOfByte
  <2>8. QED
    BY <1>1, <2>4, <2>5, <2>6, <2>7
<1>7. QED
  BY <1>5, <1>6

LEMMA SplitStep ==
  ASSUME TextInv, StringsAre', Split
  PROVE  TextInv'
<1>1. /\ UNCHANGED <<tokens, rules, bos, text, step, ids, shown>> /\ step = "splitting"
      /\ WhileSplitting /\ TokensAre /\ RulesAre /\ text \in ByteString
  BY DEF Split, TextInv
<1>2. PICK p \in ByteString, next \in 0 .. Len(text) :
           /\ pieces' = Append(pieces, p) /\ cursor' = next
           /\ Covers => \E b : ShownAs(p, b) /\ PlainFrom[cursor] = b \o PlainFrom[next]
  BY <1>1, SplitPiece DEF WhileSplitting
<1>3. pieces \in Seq(ByteString) /\ pieces' \in Seq(ByteString)
  BY <1>1, <1>2, AppendProperties DEF WhileSplitting
<1>4. /\ Covers' = Covers /\ Plain' = Plain /\ PlainFrom' = PlainFrom /\ Start' = Start
      /\ TokensAre' /\ RulesAre'
  BY <1>1, SameKnown
<1>5. \A r : Leads(r, pieces)' <=> Leads(r, pieces')
  BY <1>1, SameLeads
<1>6. ASSUME Covers
      PROVE  \E f : Leads(f, pieces') /\ f[0] = Plain /\ f[Len(pieces')] = PlainFrom[next]
  <2>1. PICK r : Leads(r, pieces) /\ r[0] = Plain /\ r[Len(pieces)] = PlainFrom[cursor]
    BY <1>1, <1>6 DEF WhileSplitting
  <2>2. PICK b : ShownAs(p, b) /\ r[Len(pieces)] = b \o PlainFrom[next]
    BY <1>2, <1>6, <2>1
  <2>3. PICK v \in ByteString : v = PlainFrom[next]
    BY <1>1, PlainTyped
  <2>4. r[Len(pieces)] = b \o v
    BY <2>2, <2>3
  <2>5. \E f : Leads(f, Append(pieces, p)) /\ f[0] = r[0] /\ f[Len(Append(pieces, p))] = v
    BY <1>3, <2>1, <2>2, <2>4, LeadsFurther, SMTT(30)
  <2>6. QED
    BY <1>2, <2>1, <2>3, <2>5, Zenon
<1>7. WhileSplitting'
  <2>1. (cursor \in 0 .. Len(text))' /\ ids' = Start' /\ shown' = <<>>
    BY <1>1, <1>2, <1>4 DEF WhileSplitting
  <2>2. Covers' => \E r : Leads(r, pieces)' /\ r[0] = Plain'
          /\ r[Len(pieces')] = PlainFrom'[cursor']
    BY <1>2, <1>4, <1>5, <1>6
  <2>3. QED
    BY <1>3, <2>1, <2>2, Zenon DEF WhileSplitting
<1>8. QED
  BY <1>1, <1>4, <1>7 DEF TextInv

LEMMA SplitDoneStep ==
  ASSUME TextInv, StringsAre', SplitDone
  PROVE  TextInv'
<1>1. /\ UNCHANGED <<tokens, rules, bos, text, pieces, ids, shown>> /\ step = "splitting"
        /\ step' = "merging"
      /\ WhileSplitting /\ TokensAre /\ RulesAre /\ text \in ByteString /\ cursor = Len(text)
          /\ cursor' = 0
  BY DEF SplitDone, TextInv
<1>2. PlainFrom[cursor] = <<>>
  <2>1. Len(text) \in 0 .. Len(text)
    BY <1>1 DEF ByteString
  <2>2. QED
    BY <1>1, <2>1, PlainUnfolds DEF PlainAt
<1>3. Covers' = Covers /\ Plain' = Plain /\ Start' = Start /\ TokensAre' /\ RulesAre'
  BY <1>1, SameKnown
<1>4. \A r : Leads(r, pieces)' <=> Leads(r, pieces)
  BY <1>1, SameLeads
<1>5. WhileMerging'
  BY <1>1, <1>2, <1>3, <1>4 DEF WhileSplitting, WhileMerging
<1>6. QED
  BY <1>1, <1>3, <1>5 DEF TextInv

\* Neighbours become one piece.
LEMMA MergeStep ==
  ASSUME TextInv, StringsAre', Merge
  PROVE  TextInv'
<1>1. /\ UNCHANGED <<tokens, rules, bos, text, step, cursor, ids, shown>> /\ step = "merging"
      /\ WhileMerging /\ TokensAre /\ RulesAre /\ text \in ByteString
          /\ pieces \in Seq(ByteString)
  BY DEF Merge, TextInv, WhileMerging
<1>2. PICK i \in Candidates :
        LET rule == rules[Key(pieces[i], pieces[i + 1])]
        IN pieces' = SubSeq(pieces, 1, i - 1) \o <<rule.left \o rule.right>> \o SubSeq(pieces,
            i + 2, Len(pieces))
  BY DEF Merge
<1>3. i \in 1 .. Len(pieces) - 1 /\ Key(pieces[i], pieces[i + 1]) \in DOMAIN rules
  BY DEF Candidates, Merges
<1>4. PICK p : p = rules[Key(pieces[i], pieces[i + 1])].left \o rules[Key(pieces[i],
        pieces[i + 1])].right
  OBVIOUS
<1>5. p \in ByteString
  <2>1. PICK l \in Seq(Byte), r \in Seq(Byte) : p = l \o r
    BY <1>1, <1>3, <1>4 DEF RulesAre, ByteString
  <2>2. QED
    BY <2>1, ConcatProperties DEF ByteString
<1>6. pieces' = Merged(pieces, i, p) /\ pieces' \in Seq(ByteString)
  <2>1. pieces' = Merged(pieces, i, p)
    BY <1>2, <1>4, Zenon DEF Merged
  <2>2. QED
    BY <1>1, <1>3, <1>5, <2>1, MergedIs
<1>7. Covers' = Covers /\ Plain' = Plain /\ Start' = Start /\ TokensAre' /\ RulesAre'
  BY <1>1, SameKnown
<1>8. \A r : Leads(r, pieces)' <=> Leads(r, pieces')
  BY <1>1, SameLeads
<1>9. ASSUME Covers
      PROVE  \E f : Leads(f, pieces') /\ f[0] = Plain /\ f[Len(pieces')] = <<>>
  <2>1. PICK r : Leads(r, pieces) /\ r[0] = Plain /\ r[Len(pieces)] = <<>>
    BY <1>1, <1>9 DEF WhileMerging
  <2>2. \A b, c : ShownAs(pieces[i], b) /\ ShownAs(pieces[i + 1], c) => ShownAs(p, b \o c)
    BY <1>1, <1>4, <1>9, PieceOfMerge, Zenon
  <2>3. \E f : /\ Leads(f, Merged(pieces, i, p)) /\ f[0] = r[0]
               /\ f[Len(Merged(pieces, i, p))] = r[Len(pieces)]
    BY <1>1, <1>3, <1>5, <2>1, <2>2, LeadsMerged
  <2>4. QED
    BY <1>6, <2>1, <2>3, Zenon
<1>10. WhileMerging'
  BY <1>1, <1>6, <1>7, <1>8, <1>9 DEF WhileMerging
<1>11. QED
  BY <1>1, <1>7, <1>10 DEF TextInv

\* The pieces become ids.
LEMMA MergeDoneStep ==
  ASSUME TextInv, StringsAre', MergeDone
  PROVE  TextInv'
<1>1. /\ UNCHANGED <<tokens, rules, bos, text, pieces, cursor, shown>> /\ step = "merging"
        /\ step' = "decoding"
      /\ WhileMerging /\ TokensAre /\ RulesAre /\ text \in ByteString
      /\ ids' = ids \o [i \in DOMAIN pieces |-> IdOf(pieces[i])]
  BY DEF MergeDone, TextInv
<1>2. /\ Covers' = Covers /\ Plain' = Plain /\ TokensAre' /\ RulesAre'
      /\ \A id : DecodeToken(id)' = DecodeToken(id)
  BY <1>1, SameKnown
<1>3. ids' = Start \o [i \in DOMAIN pieces |-> IdOf(pieces[i])] /\ cursor' = 0 /\ shown' = <<>>
      /\ pieces \in Seq(ByteString)
  BY <1>1 DEF WhileMerging
<1>4. ASSUME Covers
      PROVE  Len(ids') \in Nat /\ \E r : Shows(r, ids)' /\ r[0] = Plain /\ r[0] \in ByteString
  <2>1. PICK r : Leads(r, pieces) /\ r[0] = Plain /\ r[Len(pieces)] = <<>>
    BY <1>1, <1>4 DEF WhileMerging
  <2>2. PICK list : list = ids' /\ list = IdsOf(pieces)
    BY <1>3, Zenon DEF IdsOf
  <2>3. Len(list) \in Nat /\ \E f : Shows(f, list) /\ f[0] = r[0]
    BY <1>1, <1>3, <1>4, <2>1, <2>2, IdsShow
  <2>4. PICK f : Shows(f, list) /\ f[0] = r[0]
    BY <2>3
  <2>5. Shows(f, ids)'
    BY <1>1, <2>2, <2>4, SameShows
  <2>6. f[0] \in ByteString
    BY <2>3, <2>4 DEF Shows
  <2>7. QED
    BY <2>1, <2>2, <2>3, <2>4, <2>5, <2>6
<1>5. WhileDecoding'
  <2>1. ASSUME Covers
        PROVE  /\ Len(ids') \in Nat /\ cursor' \in 0 .. Len(ids') /\ shown' \in ByteString
               /\ \E r : Shows(r, ids)' /\ shown' \o r[cursor'] = Plain'
    <3>1. PICK r : Shows(r, ids)' /\ r[0] = Plain /\ r[0] \in ByteString
      BY <1>4, <2>1
    <3>2. <<>> \o r[0] = r[0]
      BY <3>1, ConcatEmptySeq DEF ByteString
    <3>3. shown' \o r[cursor'] = Plain'
      BY <1>2, <1>3, <3>1, <3>2
    <3>4. Len(ids') \in Nat /\ cursor' \in 0 .. Len(ids') /\ shown' \in ByteString
      BY <1>3, <1>4, <2>1 DEF ByteString
    <3>5. QED
      BY <3>1, <3>3, <3>4
  <2>2. QED
    BY <1>2, <2>1, Zenon DEF WhileDecoding
<1>6. QED
  BY <1>1, <1>2, <1>5 DEF TextInv

LEMMA DecodeStep ==
  ASSUME TextInv, StringsAre', Decode
  PROVE  TextInv'
<1>1. /\ UNCHANGED <<tokens, rules, bos, text, step, pieces, ids>> /\ step = "decoding"
      /\ WhileDecoding /\ TokensAre /\ RulesAre /\ text \in ByteString
      /\ cursor < Len(ids) /\ shown' = shown \o DecodeToken(ids[cursor + 1])
          /\ cursor' = cursor + 1
  BY DEF Decode, TextInv
<1>2. /\ Covers' = Covers /\ Plain' = Plain /\ TokensAre' /\ RulesAre'
  BY <1>1, SameKnown
<1>3. \A r : Shows(r, ids)' <=> Shows(r, ids)
  BY <1>1, SameShows
<1>4. ASSUME Covers
      PROVE  /\ Len(ids') \in Nat /\ cursor' \in 0 .. Len(ids') /\ shown' \in ByteString
             /\ \E r : Shows(r, ids)' /\ shown' \o r[cursor'] = Plain'
  <2>1. Len(ids) \in Nat /\ cursor \in 0 .. Len(ids) /\ shown \in Seq(Byte)
    BY <1>1, <1>4 DEF WhileDecoding, ByteString
  <2>2. PICK r : Shows(r, ids) /\ shown \o r[cursor] = Plain
    BY <1>1, <1>4 DEF WhileDecoding
  <2>3. PICK i \in 1 .. Len(ids) : i = cursor + 1 /\ i - 1 = cursor /\ i \in 0 .. Len(ids)
    BY <1>1, <2>1
  <2>4. PICK b \in Seq(Byte) : b = DecodeToken(ids[i]) /\ r[cursor] = b \o r[i]
    BY <2>2, <2>3 DEF Shows, ByteString
  <2>5. r[i] \in Seq(Byte)
    BY <2>2, <2>3 DEF Shows, ByteString
  <2>6. (shown \o b) \o r[i] = shown \o (b \o r[i])
    BY <2>1, <2>5, Associative
  <2>7. shown' = shown \o b /\ cursor' = i
    BY <1>1, <2>3, <2>4
  <2>8. shown' \o r[cursor'] = Plain'
    BY <1>2, <2>2, <2>4, <2>6, <2>7, Zenon
  <2>9. shown' \in ByteString
    BY <2>1, <2>7, ConcatProperties DEF ByteString
  <2>10. Shows(r, ids)'
    BY <1>3, <2>2
  <2>11. Len(ids') \in Nat /\ cursor' \in 0 .. Len(ids')
    BY <1>1, <2>1, <2>3, <2>7
  <2>12. QED
    BY <2>8, <2>9, <2>10, <2>11, Zenon
<1>5. WhileDecoding'
  BY <1>2, <1>4, Zenon DEF WhileDecoding
<1>6. QED
  BY <1>1, <1>2, <1>5 DEF TextInv

LEMMA DecodeDoneStep ==
  ASSUME TextInv, StringsAre', DecodeDone
  PROVE  TextInv'
<1>1. /\ UNCHANGED <<tokens, rules, bos>> /\ step' = "idle"
      /\ text' = <<>> /\ cursor' = 0 /\ pieces' = <<>> /\ ids' = <<>> /\ shown' = <<>>
      /\ TokensAre /\ RulesAre
  BY DEF DecodeDone, TextInv
<1>2. TokensAre' /\ RulesAre' /\ (text \in ByteString)'
  BY <1>1 DEF TokensAre, RulesAre, ByteString
<1>3. QED
  BY <1>1, <1>2 DEF TextInv

\* Every step of a session keeps what is known of its text.
LEMMA TextStep == IInv /\ TextInv /\ [Next]_vars => TextInv'
<1> SUFFICES ASSUME IInv, TextInv, [Next]_vars
             PROVE  TextInv'
  OBVIOUS
<1>1. StringsAre'
  BY StringsStep DEF TextInv
<1>2. CASE UNCHANGED tokenizerVars
  BY <1>1, <1>2, TokenizerStays
<1>3. CASE ReadTokenizer
  BY <1>1, <1>3, ReadTokenizerStep
<1>4. CASE Ask
  BY <1>1, <1>4, AskStep
<1>5. CASE TokenizerStep
  <2>1. CASE Split
    BY <1>1, <2>1, SplitStep
  <2>2. CASE SplitDone
    BY <1>1, <2>2, SplitDoneStep
  <2>3. CASE Merge
    BY <1>1, <2>3, MergeStep
  <2>4. CASE MergeDone
    BY <1>1, <2>4, MergeDoneStep
  <2>5. CASE Decode
    BY <1>1, <2>5, DecodeStep
  <2>6. CASE DecodeDone
    BY <1>1, <2>6, DecodeDoneStep
  <2>7. QED
    BY <1>5, <2>1, <2>2, <2>3, <2>4, <2>5, <2>6 DEF TokenizerStep
<1>6. [Next]_vars => UNCHANGED tokenizerVars \/ ReadTokenizer \/ Ask \/ TokenizerStep
  BY Zenon DEF Next, vars, ReadFile, RefuseTokenizer, LoadModel, Answer
<1>7. QED
  BY <1>2, <1>3, <1>4, <1>5, <1>6

\* At the end nothing is left to show.
LEMMA TextBack == TextInv => RoundTrip
<1> SUFFICES ASSUME TextInv, Decoded, Covers
             PROVE  shown = Plain
  BY DEF RoundTrip
<1>1. WhileDecoding /\ cursor = Len(ids)
  BY DEF Decoded, TextInv
<1>2. PICK r : Shows(r, ids) /\ shown \o r[cursor] = Plain
  BY <1>1 DEF WhileDecoding
<1>3. r[cursor] = <<>> /\ shown \in Seq(Byte)
  BY <1>1, <1>2 DEF Shows, WhileDecoding, ByteString
<1>4. shown \o <<>> = shown
  BY <1>3, ConcatEmptySeq
<1>5. QED
  BY <1>2, <1>3, <1>4

-----------------------------------------------------------------------------
(* A rule applied from left to right. *)

PieceLists == Seq(ByteString)

\* What a rule makes of the pieces from i on.
AppliedAt(s, rule, f, i) ==
  IF i > Len(s) THEN <<>>
  ELSE IF i < Len(s) /\ s[i] = rule.left /\ s[i + 1] = rule.right
  THEN <<rule.left \o rule.right>> \o f[i + 2]
  ELSE <<s[i]>> \o f[i + 1]

AppliedFrom(s, rule) == CHOOSE f : f = [i \in 1 .. Len(s) + 1 |-> AppliedAt(s, rule, f, i)]

LEMMA AppliedIs == \A s, rule : Applied(s, rule) = AppliedFrom(s, rule)[1]
<1> SUFFICES ASSUME NEW s, NEW rule PROVE Applied(s, rule) = AppliedFrom(s, rule)[1]
  OBVIOUS
<1>1. AppliedFrom(s, rule) = CHOOSE f : f = [i \in 1 .. Len(s) + 1 |->
        IF i > Len(s) THEN <<>>
        ELSE IF i < Len(s) /\ s[i] = rule.left /\ s[i + 1] = rule.right
        THEN <<rule.left \o rule.right>> \o f[i + 2]
        ELSE <<s[i]>> \o f[i + 1]]
  BY Zenon DEF AppliedFrom, AppliedAt
<1>2. QED
  BY <1>1, Zenon DEF Applied

\* A rule fits at a place.
OccursAt(s, rule, i) == i < Len(s) /\ s[i] = rule.left /\ s[i + 1] = rule.right

\* So it is from every place on.
LEMMA AppliedUnfolds ==
  ASSUME NEW s \in PieceLists, NEW rule, rule.left \in ByteString, rule.right \in ByteString
  PROVE  /\ AppliedFrom(s, rule) \in [1 .. Len(s) + 1 -> PieceLists]
         /\ \A i \in 1 .. Len(s) + 1 :
              AppliedFrom(s, rule)[i] = AppliedAt(s, rule, AppliedFrom(s, rule), i)
<1>1. PICK n \in Nat, hi \in Nat : n = Len(s) /\ hi = n + 1
  BY DEF PieceLists
<1>2. PICK m \in ByteString : m = rule.left \o rule.right
  <2>1. rule.left \in Seq(Byte) /\ rule.right \in Seq(Byte)
    BY DEF ByteString
  <2>2. QED
    BY <2>1, ConcatProperties DEF ByteString
<1> DEFINE first == [i \in 1 .. n |-> IF OccursAt(s, rule, i) THEN m ELSE s[i]]
           base == [i \in 1 .. hi |-> <<>>]
           next == [i \in 1 .. hi |-> IF i = hi THEN i
                                      ELSE IF OccursAt(s, rule, i) THEN i + 2 ELSE i + 1]
           More(i, v) == IF i = hi THEN v ELSE <<first[i]>> \o v
           goOn == [i \in 1 .. hi |-> [v \in PieceLists |-> More(i, v)]]
<1>3. first \in [1 .. n -> ByteString]
        /\ \A i \in 1 .. n : first[i] = IF OccursAt(s, rule, i) THEN m ELSE s[i]
  <2>1. \A i \in 1 .. n : s[i] \in ByteString
    BY <1>1 DEF PieceLists
  <2>2. QED
    BY <2>1
<1>4. \A i \in 1 .. n : OccursAt(s, rule, i) => i + 2 \in 1 .. hi
  BY <1>1 DEF OccursAt
<1> HIDE DEF first
<1>5. <<>> \in PieceLists /\ \A i \in 1 .. hi, v \in PieceLists : More(i, v) \in PieceLists
  <2>1. <<>> \in PieceLists
    BY DEF PieceLists
  <2>2. ASSUME NEW i \in 1 .. hi, NEW v \in PieceLists, i # hi
        PROVE  <<first[i]>> \o v \in PieceLists
    <3>1. first[i] \in ByteString
      BY <1>1, <1>3, <2>2
    <3>2. <<first[i]>> \in Seq(ByteString) /\ v \in Seq(ByteString)
      BY <3>1 DEF PieceLists
    <3>3. QED
      BY <3>2, ConcatProperties DEF PieceLists
  <2>3. QED
    BY <2>1, <2>2
<1>6. base \in [1 .. hi -> PieceLists]
  BY <1>5
<1>7. next \in [1 .. hi -> 1 .. hi] /\ \A i \in 1 .. hi : i # hi => next[i] > i
  BY <1>1, <1>4
<1>8. goOn \in [1 .. hi -> [PieceLists -> PieceLists]]
  <2> HIDE DEF More
  <2>1. QED
    BY <1>5
<1>9. /\ \A i \in 1 .. hi : base[i] = <<>>
      /\ \A i \in 1 .. hi : i # hi => next[i] = IF OccursAt(s, rule, i) THEN i + 2 ELSE i + 1
      /\ \A i \in 1 .. hi, v \in PieceLists : goOn[i][v] = More(i, v)
  <2> HIDE DEF More
  <2>1. QED
    OBVIOUS
<1> HIDE DEF base, next, goOn
<1>10. PICK g \in [1 .. hi -> PieceLists] : Continues(g, 1 .. hi, {hi}, base, next, goOn)
  <2>1. 1 \in Nat /\ \A i \in 1 .. hi : i \notin {hi} => next[i] > i
    BY <1>7
  <2>2. QED
    BY <1>6, <1>7, <1>8, <2>1, RecursionDown
<1>11. ASSUME NEW f, NEW i \in 1 .. hi
       PROVE  AppliedAt(s, rule, f, i) =
                IF i = hi THEN <<>>
                ELSE <<first[i]>> \o f[IF OccursAt(s, rule, i) THEN i + 2 ELSE i + 1]
  <2>1. CASE i = hi
    <3>1. i > Len(s)
      BY <1>1, <2>1
    <3>2. QED
      BY <2>1, <3>1, Zenon DEF AppliedAt
  <2>2. CASE i # hi
    <3>1. ~(i > Len(s)) /\ i \in 1 .. n
      BY <1>1, <2>2
    <3>2. CASE OccursAt(s, rule, i)
      <4>1. first[i] = rule.left \o rule.right
        BY <1>2, <1>3, <3>1, <3>2
      <4>2. QED
        BY <2>2, <3>1, <3>2, <4>1, Zenon DEF AppliedAt, OccursAt
    <3>3. CASE ~OccursAt(s, rule, i)
      <4>1. first[i] = s[i]
        BY <1>3, <3>1, <3>3
      <4>2. QED
        BY <2>2, <3>1, <3>3, <4>1, Zenon DEF AppliedAt, OccursAt
    <3>4. QED
      BY <3>2, <3>3
  <2>3. QED
    BY <2>1, <2>2
<1>12. ASSUME NEW i \in 1 .. hi
       PROVE  g[i] = AppliedAt(s, rule, g, i)
  <2>1. g[i] = IF i \in {hi} THEN base[i] ELSE goOn[i][g[next[i]]]
    BY <1>10 DEF Continues
  <2>2. CASE i = hi
    BY <1>9, <1>11, <2>1, <2>2
  <2>3. CASE i # hi
    <3>1. PICK j \in 1 .. hi : j = next[i] /\ j = IF OccursAt(s, rule, i) THEN i + 2 ELSE i + 1
      BY <1>7, <1>9, <2>3
    <3>2. g[i] = More(i, g[j])
      BY <1>9, <2>1, <2>3, <3>1, ZenonT(30)
    <3>3. AppliedAt(s, rule, g, i) = <<first[i]>> \o g[j]
      BY <1>11, <2>3, <3>1, Zenon
    <3>4. QED
      BY <2>3, <3>2, <3>3
  <2>4. QED
    BY <2>2, <2>3
<1>13. g = [i \in 1 .. hi |-> AppliedAt(s, rule, g, i)]
  BY <1>12
<1> DEFINE F == AppliedFrom(s, rule)
<1>14. F = [i \in 1 .. hi |-> AppliedAt(s, rule, F, i)]
  BY <1>1, <1>13, Zenon DEF AppliedFrom
<1> HIDE DEF F
<1>15. \A i \in 1 .. hi : F[i] = AppliedAt(s, rule, F, i)
  BY <1>14
<1> DEFINE S == {i \in 1 .. hi : F[i] \in PieceLists}
<1>16. ASSUME NEW i \in 1 .. hi, \A j \in i + 1 .. hi : j \in S
       PROVE  i \in S
  <2>1. CASE i = hi
    BY <1>5, <1>11, <1>15, <2>1
  <2>2. CASE i # hi
    <3>1. PICK j \in i + 1 .. hi : j = IF OccursAt(s, rule, i) THEN i + 2 ELSE i + 1
      BY <1>1, <1>4, <2>2
    <3>2. F[j] \in PieceLists
      BY <1>16, <3>1
    <3>3. F[i] = <<first[i]>> \o F[j]
      BY <1>11, <1>15, <2>2, <3>1
    <3>4. More(i, F[j]) \in PieceLists
      BY <1>5, <3>2
    <3>5. QED
      BY <2>2, <3>3, <3>4
  <2>3. QED
    BY <2>1, <2>2
<1>17. 1 .. hi \subseteq S
  <2> HIDE DEF S
  <2>1. 1 \in Nat
    OBVIOUS
  <2>2. QED
    BY <1>16, <2>1, InductionDown
<1>18. F \in [1 .. hi -> PieceLists]
  BY <1>14, <1>17
<1>19. QED
  BY <1>1, <1>15, <1>18 DEF F

\* F says what a rule makes of the pieces, place by place.
Follows(F, s, rule) ==
  /\ F \in [1 .. Len(s) + 1 -> PieceLists] /\ F[Len(s) + 1] = <<>>
  /\ \A i \in 1 .. Len(s) :
       /\ OccursAt(s, rule, i) => F[i] = <<rule.left \o rule.right>> \o F[i + 2]
       /\ ~OccursAt(s, rule, i) => F[i] = <<s[i]>> \o F[i + 1]

\* Applied does what Follows says.
LEMMA AppliedGoesOn ==
  ASSUME NEW s \in PieceLists, NEW rule, rule.left \in ByteString, rule.right \in ByteString
  PROVE  Follows(AppliedFrom(s, rule), s, rule)
<1> DEFINE F == AppliedFrom(s, rule)
<1>1. PICK n \in Nat : n = Len(s)
  BY DEF PieceLists
<1>2. F \in [1 .. n + 1 -> PieceLists] /\ \A i \in 1 .. n + 1 : F[i] = AppliedAt(s, rule, F, i)
  BY <1>1, AppliedUnfolds
<1> HIDE DEF F
<1>3. F[n + 1] = <<>>
  <2>1. n + 1 \in 1 .. n + 1 /\ n + 1 > Len(s)
    BY <1>1
  <2>2. QED
    BY <1>2, <2>1 DEF AppliedAt
<1>4. ASSUME NEW i \in 1 .. n
      PROVE  /\ OccursAt(s, rule, i) => F[i] = <<rule.left \o rule.right>> \o F[i + 2]
             /\ ~OccursAt(s, rule, i) => F[i] = <<s[i]>> \o F[i + 1]
  <2>1. i \in 1 .. n + 1 /\ ~(i > Len(s))
    BY <1>1
  <2>2. F[i] = AppliedAt(s, rule, F, i)
    BY <1>2, <2>1
  <2>3. QED
    BY <2>1, <2>2, Zenon DEF AppliedAt, OccursAt
<1>5. Follows(F, s, rule)
  BY <1>1, <1>2, <1>3, <1>4 DEF Follows
<1>6. QED
  BY <1>5 DEF F

\* A rule that fits nowhere changes nothing.
LEMMA AppliedNowhere ==
  ASSUME NEW s \in PieceLists, NEW rule, rule.left \in ByteString, rule.right \in ByteString,
         \A i \in 1 .. Len(s) : ~OccursAt(s, rule, i)
  PROVE  Applied(s, rule) = s
<1>1. PICK n \in Nat : n = Len(s)
  BY DEF PieceLists
<1>2. PICK F : F = AppliedFrom(s, rule)
  OBVIOUS
<1>3. /\ F \in [1 .. n + 1 -> PieceLists] /\ F[n + 1] = <<>>
      /\ \A i \in 1 .. n : F[i] = <<s[i]>> \o F[i + 1]
  BY <1>1, <1>2, AppliedGoesOn DEF Follows
<1> DEFINE S == {i \in 1 .. n + 1 : Len(F[i]) = n + 1 - i
      /\ \A j \in 1 .. n + 1 - i : F[i][j] = s[i + j - 1]}
<1>4. ASSUME NEW i \in 1 .. n + 1, \A j \in i + 1 .. n + 1 : j \in S
      PROVE  i \in S
  <2>1. CASE i = n + 1
    BY <1>3, <2>1
  <2>2. CASE i # n + 1
    <3>1. i \in 1 .. n /\ i + 1 \in i + 1 .. n + 1
      BY <2>2
    <3>2. PICK k \in Nat : k = n - i
      BY <3>1
    <3>3. PICK u \in Seq(ByteString) : u = F[i + 1]
      BY <1>3, <3>1 DEF PieceLists
    <3>4. Len(u) = k /\ \A j \in 1 .. k : u[j] = s[i + j]
      <4>1. i + 1 \in S
        BY <1>4, <3>1
      <4>2. n + 1 - (i + 1) = k /\ \A j \in 1 .. k : (i + 1) + j - 1 = i + j
        BY <3>2
      <4>3. QED
        BY <3>3, <4>1, <4>2
    <3>5. <<s[i]>> \in Seq(ByteString) /\ Len(<<s[i]>>) = 1 /\ <<s[i]>>[1] = s[i]
      BY <1>1, <3>1 DEF PieceLists
    <3>6. /\ Len(<<s[i]>> \o u) = Len(<<s[i]>>) + Len(u)
          /\ \A j \in 1 .. Len(<<s[i]>>) + Len(u) :
               (<<s[i]>> \o u)[j] = IF j <= Len(<<s[i]>>) THEN <<s[i]>>[j] ELSE u[j - Len(<<s[i]>>)]
      BY <3>5, ConcatProperties
    <3>7. F[i] = <<s[i]>> \o u
      BY <1>3, <3>1, <3>3
    <3>8. Len(F[i]) = 1 + k
            /\ \A j \in 1 .. 1 + k : F[i][j] = IF j <= 1 THEN <<s[i]>>[j] ELSE u[j - 1]
      BY <3>4, <3>5, <3>6, <3>7
    <3>9. ASSUME NEW j \in 1 .. 1 + k
          PROVE  F[i][j] = s[i + j - 1]
      <4>1. CASE j = 1
        BY <3>5, <3>8, <4>1
      <4>2. CASE j # 1
        <5>1. PICK h \in 1 .. k : h = j - 1 /\ i + h = i + j - 1 /\ ~(j <= 1)
          BY <4>2
        <5>2. QED
          BY <3>4, <3>8, <5>1
      <4>3. QED
        BY <4>1, <4>2
    <3>10. n + 1 - i = 1 + k
      BY <3>2
    <3>11. QED
      BY <3>8, <3>9, <3>10
  <2>3. QED
    BY <2>1, <2>2
<1>5. 1 \in S
  <2>1. 1 .. n + 1 \subseteq S
    <3> HIDE DEF S
    <3>1. 1 \in Nat /\ n + 1 \in Nat
      OBVIOUS
    <3>2. QED
      BY <1>4, <3>1, InductionDown
  <2>2. 1 \in 1 .. n + 1
    OBVIOUS
  <2>3. QED
    BY <2>1, <2>2, Zenon
<1>6. Len(F[1]) = n /\ \A j \in 1 .. n : F[1][j] = s[j]
  <2>1. n + 1 - 1 = n /\ \A j \in 1 .. n : 1 + j - 1 = j
    OBVIOUS
  <2>2. QED
    BY <1>5, <2>1
<1>7. F[1] \in Seq(ByteString) /\ s \in Seq(ByteString)
  BY <1>3 DEF PieceLists
<1>8. F[1] = s
  BY <1>1, <1>6, <1>7, SeqEqual
<1>9. QED
  BY <1>2, <1>8, AppliedIs

\* A rule changes nothing more or less where its first place was merged before.
LEMMA AppliedMerged ==
  ASSUME NEW s \in PieceLists, NEW rule, rule.left \in ByteString, rule.right \in ByteString,
         NEW i \in 1 .. Len(s) - 1, OccursAt(s, rule, i),
         \A j \in 1 .. i - 1 : ~OccursAt(s, rule, j),
         rule.left \o rule.right # rule.left, rule.left \o rule.right # rule.right
  PROVE  Applied(Merged(s, i, rule.left \o rule.right), rule) = Applied(s, rule)
<1>1. PICK n \in Nat : n = Len(s)
  BY DEF PieceLists
<1>2. PICK m \in ByteString : m = rule.left \o rule.right
  <2>1. rule.left \in Seq(Byte) /\ rule.right \in Seq(Byte)
    BY DEF ByteString
  <2>2. QED
    BY <2>1, ConcatProperties DEF ByteString
<1>3. PICK t : t = Merged(s, i, m)
  OBVIOUS
<1>4. /\ t \in PieceLists /\ Len(t) = n - 1
      /\ \A j \in 1 .. n - 1 : t[j] = IF j < i THEN s[j] ELSE IF j = i THEN m ELSE s[j + 1]
  <2>1. s \in Seq(ByteString)
    BY DEF PieceLists
  <2>2. /\ Merged(s, i, m) \in Seq(ByteString) /\ Len(Merged(s, i, m)) = Len(s) - 1
        /\ \A j \in 1 .. Len(s) - 1 :
             Merged(s, i, m)[j] = IF j < i THEN s[j] ELSE IF j = i THEN m ELSE s[j + 1]
    BY <2>1, MergedIs
  <2>3. QED
    BY <1>1, <1>3, <2>2, Zenon DEF PieceLists
<1>5. PICK F, G : F = AppliedFrom(s, rule) /\ G = AppliedFrom(t, rule)
  OBVIOUS
<1>6. /\ F[n + 1] = <<>>
      /\ \A j \in 1 .. n : (OccursAt(s, rule, j) => F[j] = <<m>> \o F[j + 2])
                           /\ (~OccursAt(s, rule, j) => F[j] = <<s[j]>> \o F[j + 1])
  <2>1. /\ F[Len(s) + 1] = <<>>
        /\ \A j \in 1 .. Len(s) :
             /\ OccursAt(s, rule, j) => F[j] = <<rule.left \o rule.right>> \o F[j + 2]
             /\ ~OccursAt(s, rule, j) => F[j] = <<s[j]>> \o F[j + 1]
    BY <1>5, AppliedGoesOn, Zenon DEF Follows
  <2>2. QED
    BY <1>1, <1>2, <2>1, Zenon
<1>7. /\ G[n] = <<>>
      /\ \A j \in 1 .. n - 1 : (OccursAt(t, rule, j) => G[j] = <<m>> \o G[j + 2])
                               /\ (~OccursAt(t, rule, j) => G[j] = <<t[j]>> \o G[j + 1])
  <2>1. Len(t) + 1 = n
    BY <1>1, <1>4
  <2>2. /\ G[Len(t) + 1] = <<>>
        /\ \A j \in 1 .. Len(t) :
             /\ OccursAt(t, rule, j) => G[j] = <<rule.left \o rule.right>> \o G[j + 2]
             /\ ~OccursAt(t, rule, j) => G[j] = <<t[j]>> \o G[j + 1]
    BY <1>4, <1>5, AppliedGoesOn, ZenonT(30) DEF Follows
  <2>3. QED
    BY <1>2, <1>4, <2>1, <2>2, Zenon
<1> DEFINE S == {j \in i + 1 .. n : G[j] = F[j + 1]}
<1>8. ASSUME NEW j \in i + 1 .. n, \A k \in j + 1 .. n : k \in S
      PROVE  j \in S
  <2>1. CASE j = n
    BY <1>6, <1>7, <2>1
  <2>2. CASE j # n
    <3>1. /\ j \in 1 .. n - 1 /\ j + 1 \in 1 .. n /\ t[j] = s[j + 1] /\ j + 1 \in j + 1 .. n
          /\ (j + 1) + 1 = j + 2 /\ (j + 1) + 2 = j + 3 /\ (j + 2) + 1 = j + 3
      BY <1>1, <1>4, <2>2
    <3>2. OccursAt(t, rule, j) <=> OccursAt(s, rule, j + 1)
      <4>1. CASE j = n - 1
        BY <1>1, <1>4, <4>1 DEF OccursAt
      <4>2. CASE j # n - 1
        <5>1. j + 1 \in 1 .. n - 1 /\ ~(j + 1 < i) /\ j + 1 # i /\ j < n - 1 /\ j + 1 < n
          BY <2>2, <4>2
        <5>2. t[j + 1] = s[j + 2]
          BY <1>4, <3>1, <5>1
        <5>3. QED
          BY <1>1, <1>4, <3>1, <5>1, <5>2 DEF OccursAt
      <4>3. QED
        BY <4>1, <4>2
    <3>3. CASE OccursAt(t, rule, j)
      <4>1. j + 2 \in j + 1 .. n
        BY <1>4, <3>1, <3>3 DEF OccursAt
      <4>2. G[j + 2] = F[j + 3]
        BY <1>8, <3>1, <4>1
      <4>3. G[j] = <<m>> \o G[j + 2] /\ F[j + 1] = <<m>> \o F[j + 3]
        BY <1>6, <1>7, <3>1, <3>2, <3>3
      <4>4. QED
        BY <4>2, <4>3
    <3>4. CASE ~OccursAt(t, rule, j)
      <4>1. G[j + 1] = F[j + 2]
        BY <1>8, <3>1
      <4>2. G[j] = <<t[j]>> \o G[j + 1] /\ F[j + 1] = <<s[j + 1]>> \o F[j + 2]
        BY <1>6, <1>7, <3>1, <3>2, <3>4
      <4>3. QED
        BY <3>1, <4>1, <4>2
    <3>5. QED
      BY <3>3, <3>4
  <2>3. QED
    BY <2>1, <2>2
<1>9. i + 1 .. n \subseteq S
  <2> HIDE DEF S
  <2>1. i + 1 \in Nat
    OBVIOUS
  <2>2. QED
    BY <1>8, <2>1, InductionDown
<1>10. G[i] = F[i]
  <2>1. i \in 1 .. n - 1 /\ i \in 1 .. n /\ i + 1 \in i + 1 .. n /\ (i + 1) + 1 = i + 2
          /\ ~(i < i)
    BY <1>1
  <2>2. t[i] = m
    BY <1>4, <2>1
  <2>3. ~OccursAt(t, rule, i)
    BY <1>2, <2>2, Zenon DEF OccursAt
  <2>4. G[i] = <<m>> \o G[i + 1]
    BY <1>7, <2>1, <2>2, <2>3
  <2>5. F[i] = <<m>> \o F[i + 2]
    BY <1>6, <2>1
  <2>6. G[i + 1] = F[i + 2]
    BY <1>9, <2>1
  <2>7. QED
    BY <2>4, <2>5, <2>6
<1> DEFINE T == {j \in 1 .. i : G[j] = F[j]}
<1>11. ASSUME NEW j \in 1 .. i, \A k \in j + 1 .. i : k \in T
       PROVE  j \in T
  <2>1. CASE j = i
    BY <1>10, <2>1
  <2>2. CASE j # i
    <3>1. j \in 1 .. n - 1 /\ j \in 1 .. n /\ j \in 1 .. i - 1 /\ j < i /\ j + 1 \in j + 1 .. i
            /\ j + 1 \in 1 .. n - 1
      BY <1>1, <2>2
    <3>2. t[j] = s[j] /\ ~OccursAt(s, rule, j)
      BY <1>4, <3>1
    <3>3. ~OccursAt(t, rule, j)
      <4>1. CASE j + 1 = i
        <5>1. t[j + 1] = m
          BY <1>4, <3>1, <4>1
        <5>2. QED
          BY <1>2, <5>1, Zenon DEF OccursAt
      <4>2. CASE j + 1 # i
        <5>1. j + 1 < i /\ j < n
          BY <3>1, <4>2
        <5>2. t[j + 1] = s[j + 1]
          BY <1>4, <3>1, <5>1
        <5>3. QED
          BY <1>1, <3>2, <5>1, <5>2, Zenon DEF OccursAt
      <4>3. QED
        BY <4>1, <4>2
    <3>4. G[j + 1] = F[j + 1]
      BY <1>11, <3>1
    <3>5. G[j] = <<t[j]>> \o G[j + 1] /\ F[j] = <<s[j]>> \o F[j + 1]
      BY <1>6, <1>7, <3>1, <3>2, <3>3
    <3>6. QED
      BY <3>2, <3>4, <3>5
  <2>3. QED
    BY <2>1, <2>2
<1>12. 1 \in T
  <2>1. 1 .. i \subseteq T
    <3> HIDE DEF T
    <3>1. 1 \in Nat /\ i \in Nat
      OBVIOUS
    <3>2. QED
      BY <1>11, <3>1, InductionDown
  <2>2. 1 \in 1 .. i
    OBVIOUS
  <2>3. QED
    BY <2>1, <2>2, Zenon
<1>13. Applied(t, rule) = G[1] /\ Applied(s, rule) = F[1]
  BY <1>5, AppliedIs
<1>14. QED
  BY <1>2, <1>3, <1>12, <1>13

-----------------------------------------------------------------------------
(* Rules in turn. *)

\* No two rules have one rank, and there is a last one.
RanksAre ==
  \E last \in Nat : \A k \in DOMAIN rules :
    rules[k].rank \in 0 .. last /\ \A m \in DOMAIN rules : rules[k].rank = rules[m].rank => k = m

\* The rule of a rank is the one that has it.
LEMMA RankedIs ==
  ASSUME RanksAre, NEW k \in Usable
  PROVE  Ranked(rules[k].rank) = rules[k]
<1>1. \A m \in Usable : rules[m].rank = rules[k].rank => m = k
  BY DEF RanksAre, Usable
<1>2. (CHOOSE m \in Usable : rules[m].rank = rules[k].rank) = k
  BY <1>1, Zenon
<1>3. QED
  BY <1>2, Zenon DEF Ranked

\* The ranks are less than this.
Top == CHOOSE n \in {0} \cup {rank + 1 : rank \in Ranks} : \A rank \in Ranks : rank < n

\* There is such a number.
LEMMA TopIs ==
  ASSUME RanksAre
  PROVE  Top \in Nat /\ \A rank \in Ranks : rank \in 0 .. Top - 1
<1>1. PICK last \in Nat : \A k \in DOMAIN rules : rules[k].rank \in 0 .. last
  BY DEF RanksAre
<1>2. Ranks \subseteq 0 .. last
  BY <1>1 DEF Ranks, Usable
<1> DEFINE over == {0} \cup {rank + 1 : rank \in Ranks}
<1>3. \E n \in over : \A rank \in Ranks : rank < n
  <2>1. CASE Ranks = {}
    BY <2>1
  <2>2. CASE Ranks # {}
    <3>1. PICK r \in Ranks : \A q \in Ranks : q <= r
      BY <1>2, <2>2, GreatestNatural
    <3>2. r + 1 \in over /\ \A q \in Ranks : q < r + 1
      BY <1>2, <3>1
    <3>3. QED
      BY <3>2
  <2>3. QED
    BY <2>1, <2>2
<1>4. Top \in over /\ \A rank \in Ranks : rank < Top
  <2>1. Top = CHOOSE n \in over : \A rank \in Ranks : rank < n
    BY Zenon DEF Top
  <2> HIDE DEF over
  <2>2. QED
    BY <1>3, <2>1, Zenon
<1>5. Top \in Nat
  BY <1>2, <1>4
<1>6. ASSUME NEW rank \in Ranks
      PROVE  rank \in 0 .. Top - 1
  <2>1. rank \in Nat /\ rank < Top
    BY <1>2, <1>4
  <2>2. QED
    BY <1>5, <2>1
<1>7. QED
  BY <1>5, <1>6

\* What the rule of a rank makes of some pieces.
Turn(n, s) == IF n \in Ranks THEN Applied(s, Ranked(n)) ELSE s

\* f says what there is when it is the turn of each rank.
Turns(f, s) ==
  /\ f \in [0 .. Top -> PieceLists] /\ f[0] = s
  /\ \A n \in 1 .. Top : f[n] = Turn(n - 1, f[n - 1])

\* A turn makes pieces of pieces.
LEMMA TurnTyped ==
  ASSUME RulesAre, RanksAre, NEW n, NEW s \in PieceLists
  PROVE  Turn(n, s) \in PieceLists
<1>1. CASE n \notin Ranks
  BY <1>1, Zenon DEF Turn
<1>2. CASE n \in Ranks
  <2>1. PICK k \in Usable : n = rules[k].rank
    BY <1>2 DEF Ranks
  <2>2. Ranked(n) = rules[k]
    BY <2>1, RankedIs
  <2>3. rules[k].left \in ByteString /\ rules[k].right \in ByteString
    BY DEF RulesAre, Usable
  <2>4. Follows(AppliedFrom(s, rules[k]), s, rules[k])
    BY <2>3, AppliedGoesOn
  <2>5. 1 \in 1 .. Len(s) + 1
    BY DEF PieceLists
  <2>6. AppliedFrom(s, rules[k])[1] \in PieceLists
    BY <2>4, <2>5 DEF Follows
  <2>7. Applied(s, rules[k]) \in PieceLists
    BY <2>6, AppliedIs
  <2>8. QED
    BY <1>2, <2>2, <2>7, Zenon DEF Turn
<1>3. QED
  BY <1>1, <1>2

\* A rule that fits nowhere has no turn.
LEMMA TurnIdle ==
  ASSUME RulesAre, RanksAre, NEW n, NEW s \in PieceLists,
         \A k \in Usable : rules[k].rank = n => \A j \in 1 .. Len(s) : ~OccursAt(s, rules[k], j)
  PROVE  Turn(n, s) = s
<1>1. CASE n \notin Ranks
  BY <1>1, Zenon DEF Turn
<1>2. CASE n \in Ranks
  <2>1. PICK k \in Usable : n = rules[k].rank
    BY <1>2 DEF Ranks
  <2>2. Ranked(n) = rules[k]
    BY <2>1, RankedIs
  <2>3. rules[k].left \in ByteString /\ rules[k].right \in ByteString
    BY DEF RulesAre, Usable
  <2>4. Applied(s, rules[k]) = s
    BY <2>1, <2>3, AppliedNowhere
  <2>5. QED
    BY <1>2, <2>2, <2>4, Zenon DEF Turn
<1>3. QED
  BY <1>1, <1>2

\* What there is when it is the turn of each rank, from the text.
After ==
  CHOOSE f : f = [n \in 0 .. Top |-> IF n = 0 THEN Unmerged ELSE Turn(n - 1, f[n - 1])]

LEMMA InTurnIs == InTurn = After[Top]
<1>1. After = CHOOSE f : f = [n \in 0 .. Top |->
        IF n = 0 THEN Unmerged
        ELSE IF n - 1 \in Ranks THEN Applied(f[n - 1], Ranked(n - 1))
        ELSE f[n - 1]]
  BY Zenon DEF After, Turn
<1>2. QED
  BY <1>1, Zenon DEF InTurn, Top

\* The rules have their turns.
LEMMA AfterTurns ==
  ASSUME RulesAre, RanksAre, Unmerged \in PieceLists
  PROVE  Turns(After, Unmerged)
<1>1. PICK top \in Nat : top = Top
  BY TopIs
<1> DEFINE goOn == [n \in 1 .. top |-> [s \in PieceLists |-> Turn(n - 1, s)]]
<1>2. goOn \in [1 .. top -> [PieceLists -> PieceLists]]
  BY TurnTyped
<1>3. \A n \in 1 .. top, s \in PieceLists : goOn[n][s] = Turn(n - 1, s)
  OBVIOUS
<1> HIDE DEF goOn
<1>4. PICK g \in [0 .. top -> PieceLists] :
        g[0] = Unmerged /\ \A n \in 1 .. top : g[n] = goOn[n][g[n - 1]]
  <2>1. PICK v \in PieceLists : v = Unmerged
    OBVIOUS
  <2>2. \E g \in [0 .. top -> PieceLists] : Unrolls(g, top, v, goOn)
    BY <1>2, RecursionUp
  <2>3. QED
    BY <2>1, <2>2, Zenon DEF Unrolls
<1>5. \A n \in 1 .. top : g[n] = Turn(n - 1, g[n - 1])
  <2>1. \A n \in 1 .. top : n - 1 \in 0 .. top
    OBVIOUS
  <2>2. QED
    BY <1>3, <1>4, <2>1
<1>6. \A n \in 0 .. top : g[n] = IF n = 0 THEN Unmerged ELSE Turn(n - 1, g[n - 1])
  <2>1. \A n \in 0 .. top : n # 0 => n \in 1 .. top
    OBVIOUS
  <2>2. QED
    BY <1>4, <1>5, <2>1
<1>7. g = [n \in 0 .. top |-> IF n = 0 THEN Unmerged ELSE Turn(n - 1, g[n - 1])]
  BY <1>6
<1>8. After = [n \in 0 .. top |-> IF n = 0 THEN Unmerged ELSE Turn(n - 1, After[n - 1])]
  BY <1>1, <1>7, Zenon DEF After
<1>9. After[0] = Unmerged /\ \A n \in 1 .. top : After[n] = Turn(n - 1, After[n - 1])
  BY <1>8
<1> DEFINE S == {n \in 0 .. top : After[n] \in PieceLists}
<1>10. 0 .. top \subseteq S
  <2>1. 0 \in S
    BY <1>9
  <2>2. \A n \in 1 .. top : n - 1 \in S => n \in S
    BY <1>9, TurnTyped
  <2> HIDE DEF S
  <2>3. QED
    BY <2>1, <2>2, InductionUp
<1>11. After \in [0 .. top -> PieceLists]
  BY <1>8, <1>10
<1>12. QED
  BY <1>1, <1>9, <1>11 DEF Turns

-----------------------------------------------------------------------------
(* Candidates and rules. *)

\* A piece that may be merged holds no new line.
Fine(p) == p \in ByteString /\ (p[1] = Less \/ \A i \in 1 .. Len(p) : p[i] # NewLine)

AllFine(list) == list \in PieceLists /\ \A j \in 1 .. Len(list) : Fine(list[j])

\* What is merged is what a rule says.
LEMMA CandidateHasRule ==
  ASSUME RulesAre, AllFine(pieces), NEW i \in Candidates
  PROVE  \E k \in Usable : /\ k = Key(pieces[i], pieces[i + 1]) /\ OccursAt(pieces, rules[k], i)
                           /\ RankAt(i) = rules[k].rank
<1>1. PICK n \in Nat : n = Len(pieces)
  BY DEF AllFine, PieceLists
<1>2. i \in 1 .. n - 1 /\ i \in 1 .. n /\ i + 1 \in 1 .. n /\ i < n
  BY <1>1 DEF Candidates
<1>3. PICK k \in DOMAIN rules : k = Key(pieces[i], pieces[i + 1])
  BY DEF Candidates, Merges
<1>4. pieces[i][1] # Less /\ pieces[i + 1][1] # Less
  BY DEF Candidates, Merges
<1>5. PICK p \in ByteString, q \in ByteString : p = pieces[i] /\ q = pieces[i + 1]
  BY <1>1, <1>2 DEF AllFine, PieceLists
<1>6. (\A j \in 1 .. Len(p) : p[j] # NewLine) /\ \A j \in 1 .. Len(q) : q[j] # NewLine
  BY <1>1, <1>2, <1>4, <1>5, Zenon DEF AllFine, Fine
<1>7. PICK l \in ByteString, r \in ByteString : l = rules[k].left /\ r = rules[k].right
        /\ k = Key(l, r)
  BY DEF RulesAre
<1>8. Key(p, q) = Key(l, r)
  BY <1>3, <1>5, <1>7, Zenon
<1>9. p = l /\ q = r
  BY <1>6, <1>8, KeyApart
<1>10. k \in Usable
  BY <1>4, <1>5, <1>7, <1>9, Zenon DEF Usable
<1>11. OccursAt(pieces, rules[k], i)
  BY <1>1, <1>2, <1>5, <1>7, <1>9 DEF OccursAt
<1>12. RankAt(i) = rules[k].rank
  BY <1>3, Zenon DEF RankAt
<1>13. QED
  BY <1>3, <1>10, <1>11, <1>12

\* Where a rule fits there is a candidate.
LEMMA RuleHasCandidate ==
  ASSUME RulesAre, AllFine(pieces), NEW k \in Usable, NEW j \in 1 .. Len(pieces),
         OccursAt(pieces, rules[k], j)
  PROVE  j \in Candidates /\ RankAt(j) = rules[k].rank
<1>1. PICK n \in Nat : n = Len(pieces)
  BY DEF AllFine, PieceLists
<1>2. pieces[j] = rules[k].left /\ pieces[j + 1] = rules[k].right /\ j < n
  BY <1>1 DEF OccursAt
<1>3. k \in DOMAIN rules /\ rules[k].left[1] # Less /\ rules[k].right[1] # Less
      /\ k = Key(rules[k].left, rules[k].right)
  BY DEF Usable, RulesAre
<1>4. Key(pieces[j], pieces[j + 1]) = k
  BY <1>2, <1>3, Zenon
<1>5. Merges(j)
  BY <1>2, <1>3, <1>4, Zenon DEF Merges
<1>6. j \in 1 .. n - 1
  BY <1>1, <1>2
<1>7. QED
  BY <1>1, <1>4, <1>5, <1>6, Zenon DEF Candidates, RankAt

\* No merge makes a piece that holds a new line.
LEMMA MergedFine ==
  ASSUME RulesAre, AllFine(pieces), NEW i \in Candidates,
         NEW k \in Usable, OccursAt(pieces, rules[k], i)
  PROVE  AllFine(Merged(pieces, i, rules[k].left \o rules[k].right))
<1>1. PICK n \in Nat : n = Len(pieces)
  BY DEF AllFine, PieceLists
<1>2. i \in 1 .. n - 1 /\ i \in 1 .. n /\ i + 1 \in 1 .. n
  BY <1>1 DEF Candidates
<1>3. PICK l \in Seq(Byte), r \in Seq(Byte) : l = rules[k].left /\ r = rules[k].right
  BY DEF RulesAre, Usable, ByteString
<1>4. l = pieces[i] /\ r = pieces[i + 1] /\ l[1] # Less /\ r[1] # Less
  BY <1>3 DEF OccursAt, Usable
<1>5. (\A j \in 1 .. Len(l) : l[j] # NewLine) /\ \A j \in 1 .. Len(r) : r[j] # NewLine
  BY <1>1, <1>2, <1>4, Zenon DEF AllFine, Fine
<1>6. PICK p : p = l \o r
  OBVIOUS
<1>7. p \in ByteString /\ \A j \in 1 .. Len(p) : p[j] # NewLine
  <2>1. /\ p \in Seq(Byte) /\ Len(p) = Len(l) + Len(r)
        /\ \A j \in 1 .. Len(l) + Len(r) : p[j] = IF j <= Len(l) THEN l[j] ELSE r[j - Len(l)]
    BY <1>6, ConcatProperties
  <2>2. PICK a \in Nat, b \in Nat : a = Len(l) /\ b = Len(r)
    OBVIOUS
  <2>3. ASSUME NEW j \in 1 .. a + b
        PROVE  p[j] # NewLine
    <3>1. IF j <= a THEN j \in 1 .. a ELSE j - a \in 1 .. b
      OBVIOUS
    <3>2. p[j] = IF j <= a THEN l[j] ELSE r[j - a]
      BY <2>1, <2>2
    <3>3. QED
      BY <1>5, <2>2, <3>1, <3>2
  <2>4. QED
    BY <2>1, <2>2, <2>3 DEF ByteString
<1>8. Fine(p)
  BY <1>7, Zenon DEF Fine
<1>9. PICK t : t = Merged(pieces, i, p)
  OBVIOUS
<1>10. /\ t \in Seq(ByteString) /\ Len(t) = n - 1
       /\ \A j \in 1 .. n - 1 :
           t[j] = IF j < i THEN pieces[j] ELSE IF j = i THEN p ELSE pieces[j + 1]
  <2>1. pieces \in Seq(ByteString) /\ i \in 1 .. Len(pieces) - 1
    BY <1>1, <1>2 DEF AllFine, PieceLists
  <2>2. /\ Merged(pieces, i, p) \in Seq(ByteString) /\ Len(Merged(pieces, i, p)) = Len(pieces) - 1
        /\ \A j \in 1 .. Len(pieces) - 1 :
             Merged(pieces, i, p)[j] =
               IF j < i THEN pieces[j] ELSE IF j = i THEN p ELSE pieces[j + 1]
    BY <1>7, <2>1, MergedIs, ZenonT(30)
  <2>3. QED
    BY <1>1, <1>9, <2>2, Zenon
<1>11. ASSUME NEW j \in 1 .. n - 1
       PROVE  Fine(t[j])
  <2>1. \A h \in 1 .. n : Fine(pieces[h])
    BY <1>1 DEF AllFine
  <2>2. j \in 1 .. n /\ j + 1 \in 1 .. n
    OBVIOUS
  <2>3. t[j] = pieces[j] \/ t[j] = p \/ t[j] = pieces[j + 1]
    BY <1>10
  <2>4. QED
    BY <1>8, <2>1, <2>2, <2>3, Zenon
<1>12. AllFine(t)
  BY <1>10, <1>11 DEF AllFine, PieceLists
<1>13. QED
  BY <1>3, <1>6, <1>9, <1>12

\* Merging where the search leads to changes nothing of what the turns lead to.
LEMMA TurnsMerged ==
  ASSUME RulesAre, RanksAre, Trained, AllFine(pieces), NEW i \in Candidates, Best(i),
         NEW k \in Usable, OccursAt(pieces, rules[k], i), RankAt(i) = rules[k].rank,
         NEW f, Turns(f, pieces), NEW t, t = Merged(pieces, i, rules[k].left \o rules[k].right)
  PROVE  \E g : Turns(g, t) /\ g[Top] = f[Top]
<1>1. PICK n \in Nat : n = Len(pieces) /\ i \in 1 .. n - 1
  BY DEF AllFine, PieceLists, Candidates
<1>2. PICK p : p = rules[k].left \o rules[k].right
  OBVIOUS
<1>3. rules[k].left \in ByteString /\ rules[k].right \in ByteString /\ k \in DOMAIN rules
  BY DEF RulesAre, Usable
<1>4. p \in ByteString
  <2>1. rules[k].left \in Seq(Byte) /\ rules[k].right \in Seq(Byte)
    BY <1>3 DEF ByteString
  <2>2. QED
    BY <1>2, <2>1, ConcatProperties DEF ByteString
<1>5. pieces \in PieceLists
  BY DEF AllFine
<1>6. /\ t \in PieceLists /\ Len(t) = n - 1
      /\ \A j \in 1 .. n - 1 :
          t[j] = IF j < i THEN pieces[j] ELSE IF j = i THEN p ELSE pieces[j + 1]
  <2>1. pieces \in Seq(ByteString) /\ i \in 1 .. Len(pieces) - 1
    BY <1>1, <1>5 DEF PieceLists
  <2>2. /\ Merged(pieces, i, p) \in Seq(ByteString) /\ Len(Merged(pieces, i, p)) = Len(pieces) - 1
        /\ \A j \in 1 .. Len(pieces) - 1 :
             Merged(pieces, i, p)[j] =
               IF j < i THEN pieces[j] ELSE IF j = i THEN p ELSE pieces[j + 1]
    BY <1>4, <2>1, MergedIs
  <2>3. QED
    BY <1>1, <1>2, <2>2, Zenon DEF PieceLists
<1>7. PICK R \in Nat : R = rules[k].rank
  BY <1>3 DEF RanksAre
<1>8. PICK top \in Nat : top = Top /\ R \in 0 .. top - 1
  BY <1>7, TopIs DEF Ranks
\* Where another rule fits there is a candidate that is not better.
<1>9. ASSUME NEW m \in Usable, NEW j \in 1 .. n, OccursAt(pieces, rules[m], j)
      PROVE  ~(rules[m].rank < R) /\ (rules[m].rank = R => i <= j)
  <2>1. j \in Candidates /\ RankAt(j) = rules[m].rank
    BY <1>1, <1>9, RuleHasCandidate
  <2>2. RankAt(i) < RankAt(j) \/ (RankAt(i) = RankAt(j) /\ i <= j)
    BY <2>1 DEF Best
  <2>3. PICK q \in Nat : q = rules[m].rank
    BY DEF RanksAre, Usable
  <2>4. QED
    BY <1>7, <2>1, <2>2, <2>3
\* What was made is part of no rule before, nor of its own.
<1>10. ASSUME NEW m \in Usable, rules[m].left = p \/ rules[m].right = p
       PROVE  rules[m].rank > R
  <2>1. m \in DOMAIN rules
    BY DEF Usable
  <2>2. rules[k].left \o rules[k].right \in {rules[m].left, rules[m].right}
    BY <1>2, <1>10
  <2>3. rules[k].rank < rules[m].rank
    BY <1>3, <2>1, <2>2 DEF Trained
  <2>4. rules[m].rank \in Nat
    BY <2>1 DEF RanksAre
  <2>5. QED
    BY <1>7, <2>3, <2>4
<1>11. ASSUME NEW h \in 0 .. R - 1
       PROVE  Turn(h, pieces) = pieces /\ Turn(h, t) = t
  <2>1. ASSUME NEW m \in Usable, rules[m].rank = h, NEW j \in 1 .. n
        PROVE  ~OccursAt(pieces, rules[m], j)
    <3>1. h < R
      OBVIOUS
    <3>2. QED
      BY <1>9, <2>1, <3>1
  <2>2. ASSUME NEW m \in Usable, rules[m].rank = h, NEW j \in 1 .. n - 1, OccursAt(t, rules[m], j)
        PROVE  FALSE
    <3>1. rules[m].left # p /\ rules[m].right # p
      <4>1. ~(h > R)
        OBVIOUS
      <4>2. QED
        BY <1>10, <2>2, <4>1
    <3>2. j < n - 1 /\ t[j] = rules[m].left /\ t[j + 1] = rules[m].right
      BY <1>6, <2>2 DEF OccursAt
    <3>3. j # i
      BY <1>6, <3>1, <3>2
    <3>4. j + 1 \in 1 .. n - 1
      BY <3>2
    <3>5. j + 1 # i
      <4>1. ~(j + 1 < j + 1)
        OBVIOUS
      <4>2. j + 1 = i => t[j + 1] = p
        BY <1>6, <3>4, <4>1
      <4>3. QED
        BY <3>1, <3>2, <4>2
    <3>6. CASE j < i
      <4>1. j + 1 < i
        BY <1>1, <3>4, <3>5, <3>6
      <4>2. t[j] = pieces[j] /\ t[j + 1] = pieces[j + 1]
        BY <1>6, <3>4, <3>6, <4>1
      <4>3. j \in 1 .. n /\ j < n
        OBVIOUS
      <4>4. OccursAt(pieces, rules[m], j)
        BY <1>1, <3>2, <4>2, <4>3 DEF OccursAt
      <4>5. QED
        BY <2>1, <2>2, <4>3, <4>4
    <3>7. CASE ~(j < i)
      <4>1. ~(j + 1 < i) /\ (j + 1) + 1 = j + 2 /\ j + 1 \in 1 .. n /\ j + 1 < n
        BY <1>1, <3>2, <3>4, <3>7
      <4>2. t[j] = pieces[j + 1]
        BY <1>6, <3>3, <3>7
      <4>3. t[j + 1] = pieces[(j + 1) + 1]
        BY <1>6, <3>4, <3>5, <4>1
      <4>4. OccursAt(pieces, rules[m], j + 1)
        BY <1>1, <3>2, <4>1, <4>2, <4>3, Zenon DEF OccursAt
      <4>5. QED
        BY <2>1, <2>2, <4>1, <4>4
    <3>8. QED
      BY <3>6, <3>7
  <2>3. Turn(h, pieces) = pieces
    BY <1>1, <1>5, <2>1, TurnIdle
  <2>4. Turn(h, t) = t
    BY <1>6, <2>2, TurnIdle
  <2>5. QED
    BY <2>3, <2>4
<1>12. Turn(R, pieces) = Turn(R, t)
  <2>1. R \in Ranks /\ Ranked(R) = rules[k]
    BY <1>7, RankedIs DEF Ranks
  <2>2. \A j \in 1 .. i - 1 : ~OccursAt(pieces, rules[k], j)
    <3>1. ASSUME NEW j \in 1 .. i - 1, OccursAt(pieces, rules[k], j)
          PROVE  FALSE
      <4>1. j \in 1 .. n /\ ~(i <= j)
        BY <1>1
      <4>2. QED
        BY <1>7, <1>9, <3>1, <4>1
    <3>2. QED
      BY <3>1
  <2>3. p # rules[k].left /\ p # rules[k].right
    <3>1. ~(R > R)
      OBVIOUS
    <3>2. QED
      BY <1>7, <1>10, <3>1
  <2>4. i \in 1 .. Len(pieces) - 1
    BY <1>1
  <2>5. Applied(t, rules[k]) = Applied(pieces, rules[k])
    BY <1>2, <1>3, <1>5, <2>2, <2>3, <2>4, AppliedMerged
  <2>6. QED
    BY <2>1, <2>5, Zenon DEF Turn
<1>13. /\ f \in [0 .. top -> PieceLists] /\ f[0] = pieces
       /\ \A h \in 1 .. top : f[h] = Turn(h - 1, f[h - 1])
  BY <1>8 DEF Turns
<1>14. f[R] = pieces
  <2> DEFINE S == {h \in 0 .. R : f[h] = pieces}
  <2>1. 0 \in S
    BY <1>13
  <2>2. ASSUME NEW h \in 1 .. R, h - 1 \in S
        PROVE  h \in S
    <3>1. h \in 1 .. top /\ h - 1 \in 0 .. R - 1 /\ h \in 0 .. R
      BY <1>8
    <3>2. f[h] = Turn(h - 1, pieces)
      BY <1>13, <2>2, <3>1
    <3>3. QED
      BY <1>11, <3>1, <3>2
  <2>3. 0 .. R \subseteq S
    <3> HIDE DEF S
    <3>1. QED
      BY <2>1, <2>2, InductionUp
  <2>4. R \in 0 .. R
    OBVIOUS
  <2>5. QED
    BY <2>3, <2>4
<1> DEFINE g == [h \in 0 .. top |-> IF h <= R THEN t ELSE f[h]]
<1>15. g \in [0 .. top -> PieceLists] /\ \A h \in 0 .. top : g[h] = IF h <= R THEN t ELSE f[h]
  BY <1>6, <1>13
<1> HIDE DEF g
<1>16. ASSUME NEW h \in 1 .. top
       PROVE  g[h] = Turn(h - 1, g[h - 1])
  <2>1. h \in 0 .. top /\ h - 1 \in 0 .. top
    OBVIOUS
  <2>2. CASE h <= R
    <3>1. h - 1 <= R /\ h - 1 \in 0 .. R - 1
      BY <2>2
    <3>2. g[h] = t /\ g[h - 1] = t
      BY <1>15, <2>1, <2>2, <3>1
    <3>3. QED
      BY <1>11, <3>1, <3>2
  <2>3. CASE h = R + 1
    <3>1. h - 1 = R /\ h - 1 <= R /\ ~(h <= R)
      BY <2>3
    <3>2. g[h] = f[h] /\ g[h - 1] = t
      BY <1>15, <2>1, <3>1
    <3>3. f[h] = Turn(R, pieces)
      BY <1>13, <1>14, <3>1
    <3>4. QED
      BY <1>12, <3>1, <3>2, <3>3
  <2>4. CASE h > R + 1
    <3>1. ~(h - 1 <= R) /\ ~(h <= R)
      BY <2>4
    <3>2. g[h] = f[h] /\ g[h - 1] = f[h - 1]
      BY <1>15, <2>1, <3>1
    <3>3. QED
      BY <1>13, <3>2
  <2>5. h <= R \/ h = R + 1 \/ h > R + 1
    OBVIOUS
  <2>6. QED
    BY <2>2, <2>3, <2>4, <2>5
<1>17. g[0] = t /\ g[top] = f[top]
  <2>1. 0 \in 0 .. top /\ top \in 0 .. top /\ 0 <= R /\ ~(top <= R)
    BY <1>8
  <2>2. QED
    BY <1>15, <2>1
<1>18. Turns(g, t)
  BY <1>8, <1>15, <1>16, <1>17 DEF Turns
<1>19. QED
  BY <1>8, <1>17, <1>18

\* When nothing can be merged no rule has a turn any more.
LEMMA TurnsOver ==
  ASSUME RulesAre, RanksAre, AllFine(pieces), Candidates = {}, NEW f, Turns(f, pieces)
  PROVE  f[Top] = pieces
<1>1. PICK top \in Nat : top = Top
  BY TopIs
<1>2. \A n : Turn(n, pieces) = pieces
  <2>1. \A k \in Usable : \A j \in 1 .. Len(pieces) : ~OccursAt(pieces, rules[k], j)
    <3>1. ASSUME NEW k \in Usable, NEW j \in 1 .. Len(pieces), OccursAt(pieces, rules[k], j)
          PROVE  FALSE
      <4>1. j \in Candidates
        BY <3>1, RuleHasCandidate
      <4>2. QED
        BY <4>1
    <3>2. QED
      BY <3>1
  <2>2. pieces \in PieceLists
    BY DEF AllFine
  <2>3. QED
    BY <2>1, <2>2, TurnIdle
<1> DEFINE S == {h \in 0 .. top : f[h] = pieces}
<1>3. 0 \in S
  BY <1>1 DEF Turns
<1>4. ASSUME NEW h \in 1 .. top, h - 1 \in S
      PROVE  h \in S
  BY <1>1, <1>2, <1>4 DEF Turns
<1>5. 0 .. top \subseteq S
  <2> HIDE DEF S
  <2>1. QED
    BY <1>3, <1>4, InductionUp
<1>6. top \in 0 .. top
  OBVIOUS
<1>7. QED
  BY <1>1, <1>5, <1>6

-----------------------------------------------------------------------------
(* The pieces of a text before any merge. *)

\* The piece at a place of the text, and the place after it.
PieceAt(i) == IF SpecialAt(i) # NoString THEN SpecialAt(i) ELSE ByteToTokenPiece(text[i + 1])
PlaceAfter(i) == IF SpecialAt(i) # NoString THEN i + Len(SpecialAt(i)) ELSE i + 1

\* It is a string, and holds no new line where a rule may use it.
LEMMA PieceIs ==
  ASSUME text \in ByteString, NEW i \in 0 .. Len(text), i # Len(text)
  PROVE  /\ PieceAt(i) \in ByteString /\ PlaceAfter(i) \in i + 1 .. Len(text)
         /\ NewLineHasToken => Fine(PieceAt(i))
<1>1. PICK n \in Nat : n = Len(text) /\ i \in 0 .. n - 1 /\ i + 1 \in DOMAIN text
        /\ DOMAIN text = 1 .. n
  BY DEF ByteString
<1>2. CASE SpecialAt(i) # NoString
  <2>1. PICK p \in ByteString, k \in Nat :
          p = SpecialAt(i) /\ Marked(p) /\ k = Len(p) /\ k >= 3 /\ i + k <= n
    BY <1>1, <1>2, SpecialIs
  <2>2. PieceAt(i) = p /\ PlaceAfter(i) = i + k
    BY <1>2, <2>1, Zenon DEF PieceAt, PlaceAfter
  <2>3. p[1] = Less
    BY <2>1, MarkedBegins
  <2>4. i + k \in i + 1 .. n
    BY <1>1, <2>1
  <2>5. QED
    BY <1>1, <2>2, <2>3, <2>4, Zenon DEF Fine
<1>3. CASE SpecialAt(i) = NoString
  <2>1. PICK x \in Byte : x = text[i + 1]
    BY <1>1 DEF ByteString
  <2>2. PieceAt(i) = ByteToTokenPiece(x) /\ PlaceAfter(i) = i + 1 /\ i + 1 \in i + 1 .. n
    <3>1. i + 1 \in i + 1 .. n
      BY <1>1
    <3>2. QED
      BY <1>3, <2>1, <3>1, Zenon DEF PieceAt, PlaceAfter
  <2>3. /\ ByteEncoder[x] \in ByteString
        /\ \A j \in 1 .. Len(ByteEncoder[x]) : ByteEncoder[x][j] # NewLine
        /\ Hex(x) \in ByteString /\ Hex(x)[1] = Less
        /\ <<x>> \in ByteString
    BY Encoded, HexReads DEF ByteString
  <2>4. ByteToTokenPiece(x) \in ByteString
    BY <2>3, Zenon DEF ByteToTokenPiece
  <2>5. ASSUME NewLineHasToken
        PROVE  Fine(ByteToTokenPiece(x))
    <3>1. CASE Known(ByteEncoder[x]) \/ Known(Hex(x))
      BY <2>3, <3>1, Zenon DEF ByteToTokenPiece, Fine
    <3>2. CASE ~(Known(ByteEncoder[x]) \/ Known(Hex(x)))
      <4>1. x # NewLine
        BY <1>1, <2>1, <2>5, <3>2, Zenon DEF NewLineHasToken, Range
      <4>2. Len(<<x>>) = 1 /\ \A j \in 1 .. 1 : <<x>>[j] # NewLine
        BY <4>1
      <4>3. ByteToTokenPiece(x) = <<x>>
        BY <3>2, Zenon DEF ByteToTokenPiece
      <4>4. QED
        BY <2>3, <4>2, <4>3, Zenon DEF Fine
    <3>3. QED
      BY <3>1, <3>2
  <2>6. QED
    BY <1>1, <2>2, <2>4, <2>5, Zenon
<1>4. QED
  BY <1>2, <1>3

\* The pieces of what is left of the text from a place on.
UnmergedAt(f, i) == IF i = Len(text) THEN <<>> ELSE <<PieceAt(i)>> \o f[PlaceAfter(i)]

UnmergedFrom == CHOOSE f : f = [i \in 0 .. Len(text) |-> UnmergedAt(f, i)]

LEMMA UnmergedIs == Unmerged = UnmergedFrom[0]
<1> DEFINE At(f, i) == IF i = Len(text) THEN <<>>
                       ELSE IF SpecialAt(i) # NoString THEN <<SpecialAt(i)>> \o f[i + Len(SpecialAt(i))]
                       ELSE <<ByteToTokenPiece(text[i + 1])>> \o f[i + 1]
<1>1. \A f, i : UnmergedAt(f, i) = At(f, i)
  <2> SUFFICES ASSUME NEW f, NEW i PROVE UnmergedAt(f, i) = At(f, i)
    OBVIOUS
  <2>1. CASE SpecialAt(i) # NoString
    BY <2>1, Zenon DEF UnmergedAt, PieceAt, PlaceAfter
  <2>2. CASE SpecialAt(i) = NoString
    BY <2>2, Zenon DEF UnmergedAt, PieceAt, PlaceAfter
  <2>3. QED
    BY <2>1, <2>2
<1> DEFINE Ours(f) == [i \in 0 .. Len(text) |-> UnmergedAt(f, i)]
           Theirs(f) == [i \in 0 .. Len(text) |-> At(f, i)]
<1>2. \A f : Ours(f) = Theirs(f)
  BY <1>1, Zenon
<1>3. UnmergedFrom = (CHOOSE f : f = Ours(f)) /\ Unmerged = (CHOOSE f : f = Theirs(f))[0]
  BY Zenon DEF UnmergedFrom, Unmerged
<1> HIDE DEF Ours, Theirs
<1>4. (CHOOSE f : f = Ours(f)) = CHOOSE f : f = Theirs(f)
  BY <1>2, Zenon
<1>5. QED
  BY <1>3, <1>4, Zenon

\* So it is for every place of the text.
LEMMA UnmergedUnfolds ==
  ASSUME text \in ByteString
  PROVE  /\ UnmergedFrom \in [0 .. Len(text) -> PieceLists]
         /\ \A i \in 0 .. Len(text) : UnmergedFrom[i] = UnmergedAt(UnmergedFrom, i)
<1>1. PICK n \in Nat : n = Len(text)
  BY DEF ByteString
<1> DEFINE More(i, v) == IF i = n THEN v ELSE <<PieceAt(i)>> \o v
           base == [i \in 0 .. n |-> <<>>]
           next == [i \in 0 .. n |-> IF i = n THEN i ELSE PlaceAfter(i)]
           goOn == [i \in 0 .. n |-> [v \in PieceLists |-> More(i, v)]]
<1>2. <<>> \in PieceLists
  BY DEF PieceLists
<1>3. ASSUME NEW i \in 0 .. n, i # n
      PROVE  PlaceAfter(i) \in 0 .. n /\ PlaceAfter(i) > i /\ PieceAt(i) \in ByteString
  <2>1. PlaceAfter(i) \in i + 1 .. n /\ PieceAt(i) \in ByteString
    BY <1>1, <1>3, PieceIs
  <2>2. QED
    BY <2>1
<1>4. ASSUME NEW i \in 0 .. n, NEW v \in PieceLists
      PROVE  More(i, v) \in PieceLists
  <2>1. CASE i = n
    BY <2>1
  <2>2. CASE i # n
    <3>1. <<PieceAt(i)>> \in Seq(ByteString) /\ v \in Seq(ByteString)
      BY <1>3, <2>2 DEF PieceLists
    <3>2. <<PieceAt(i)>> \o v \in Seq(ByteString)
      BY <3>1, ConcatProperties
    <3>3. QED
      BY <2>2, <3>2 DEF PieceLists
  <2>3. QED
    BY <2>1, <2>2
<1> HIDE DEF More
<1>5. /\ base \in [0 .. n -> PieceLists] /\ next \in [0 .. n -> 0 .. n]
      /\ goOn \in [0 .. n -> [PieceLists -> PieceLists]]
  BY <1>2, <1>3, <1>4
<1>6. \A i \in 0 .. n : base[i] = <<>> /\ (i # n => next[i] = PlaceAfter(i) /\ next[i] > i)
  BY <1>3
<1>7. \A i \in 0 .. n, v \in PieceLists : goOn[i][v] = More(i, v)
  OBVIOUS
<1> HIDE DEF base, next, goOn
<1>8. PICK g \in [0 .. n -> PieceLists] : Continues(g, 0 .. n, {n}, base, next, goOn)
  <2>1. 0 \in Nat /\ \A i \in 0 .. n : i \notin {n} => next[i] > i
    BY <1>6
  <2>2. QED
    BY <1>5, <2>1, RecursionDown
<1>9. \A f, i : i = n => UnmergedAt(f, i) = <<>>
  BY <1>1, Zenon DEF UnmergedAt
<1>10. \A f, i : i # n => UnmergedAt(f, i) = More(i, f[PlaceAfter(i)])
  BY <1>1, Zenon DEF UnmergedAt, More
<1>11. ASSUME NEW i \in 0 .. n
       PROVE  g[i] = UnmergedAt(g, i)
  <2>1. g[i] = IF i \in {n} THEN base[i] ELSE goOn[i][g[next[i]]]
    BY <1>8 DEF Continues
  <2>2. CASE i = n
    BY <1>6, <1>9, <2>1, <2>2
  <2>3. CASE i # n
    <3>1. next[i] = PlaceAfter(i) /\ PlaceAfter(i) \in 0 .. n
      BY <1>3, <1>6, <2>3
    <3>2. g[i] = More(i, g[PlaceAfter(i)])
      BY <1>7, <2>1, <2>3, <3>1
    <3>3. QED
      BY <1>10, <2>3, <3>2
  <2>4. QED
    BY <2>2, <2>3
<1>12. g = [i \in 0 .. n |-> UnmergedAt(g, i)]
  BY <1>11
<1>13. UnmergedFrom = [i \in 0 .. n |-> UnmergedAt(UnmergedFrom, i)]
  BY <1>1, <1>12 DEF UnmergedFrom
<1>14. \A i \in 0 .. n : UnmergedFrom[i] = UnmergedAt(UnmergedFrom, i)
  BY <1>13
<1> DEFINE S == {i \in 0 .. n : UnmergedFrom[i] \in PieceLists}
<1>15. ASSUME NEW i \in 0 .. n, \A j \in i + 1 .. n : j \in S
       PROVE  i \in S
  <2>1. CASE i = n
    BY <1>2, <1>9, <1>14, <2>1
  <2>2. CASE i # n
    <3>1. PlaceAfter(i) \in i + 1 .. n
      BY <1>3, <2>2
    <3>2. UnmergedFrom[PlaceAfter(i)] \in PieceLists
      BY <1>15, <3>1
    <3>3. UnmergedFrom[i] = More(i, UnmergedFrom[PlaceAfter(i)])
      BY <1>10, <1>14, <2>2
    <3>4. QED
      BY <1>4, <3>2, <3>3
  <2>3. QED
    BY <2>1, <2>2
<1>16. 0 .. n \subseteq S
  <2> HIDE DEF S
  <2>1. 0 \in Nat
    OBVIOUS
  <2>2. QED
    BY <1>15, <2>1, InductionDown
<1>17. UnmergedFrom \in [0 .. n -> PieceLists]
  BY <1>13, <1>16
<1>18. QED
  BY <1>1, <1>14, <1>17

-----------------------------------------------------------------------------
(* Turns and steps. *)

LEMMA SameRanks == rules' = rules => (RanksAre <=> RanksAre')
BY Zenon DEF RanksAre

LEMMA UnmergedTyped == text \in ByteString => UnmergedFrom \in [0 .. Len(text) -> PieceLists]
BY UnmergedUnfolds

\* The rules in turn stay with the rules and the text.
LEMMA SameTurns ==
  ASSUME UNCHANGED <<tokens, rules, bos, text>>
  PROVE  /\ Trained' = Trained /\ NewLineHasToken' = NewLineHasToken
         /\ UnmergedFrom' = UnmergedFrom /\ Unmerged' = Unmerged
         /\ Top' = Top /\ InTurn' = InTurn
         /\ \A f, s : Turns(f, s)' <=> Turns(f, s)
<1>1. Trained' = Trained /\ NewLineHasToken' = NewLineHasToken
  BY Zenon DEF Trained, NewLineHasToken, Known
<1>2. \A i : PieceAt(i)' = PieceAt(i) /\ PlaceAfter(i)' = PlaceAfter(i)
  <2>1. \A i : SpecialAt(i)' = SpecialAt(i)
    BY ZenonT(30) DEF SpecialAt, StartsAt, Known
  <2>2. \A b : ByteToTokenPiece(b)' = ByteToTokenPiece(b)
    BY Zenon DEF ByteToTokenPiece, Known
  <2>3. QED
    BY <2>1, <2>2, Zenon DEF PieceAt, PlaceAfter
<1>3. UnmergedFrom' = UnmergedFrom
  <2> DEFINE Now(f) == [i \in 0 .. Len(text) |-> UnmergedAt(f, i)]
             Then(f) == [i \in 0 .. Len(text') |-> UnmergedAt(f, i)']
  <2>1. \A f, i : UnmergedAt(f, i)' = UnmergedAt(f, i)
    BY <1>2, Zenon DEF UnmergedAt
  <2>2. \A f : Now(f) = Then(f)
    BY <2>1, Zenon
  <2>3. UnmergedFrom = (CHOOSE f : f = Now(f)) /\ UnmergedFrom' = CHOOSE f : f = Then(f)
    BY Zenon DEF UnmergedFrom
  <2> HIDE DEF Now, Then
  <2>4. (CHOOSE f : f = Now(f)) = CHOOSE f : f = Then(f)
    BY <2>2, Zenon
  <2>5. QED
    BY <2>3, <2>4, Zenon
<1>4. Unmerged' = Unmerged
  <2>1. (Unmerged = UnmergedFrom[0])'
    BY UnmergedIs, PTL
  <2>2. QED
    BY <1>3, <2>1, UnmergedIs, Zenon
<1>5. Ranks' = Ranks /\ Top' = Top
  BY ZenonT(30) DEF Top, Ranks, Usable
<1>6. \A n, s : Turn(n, s)' = Turn(n, s)
  <2>1. \A n : Ranked(n)' = Ranked(n)
    BY Zenon DEF Ranked, Usable
  <2>2. SUFFICES ASSUME NEW n, NEW s PROVE Turn(n, s)' = Turn(n, s)
    OBVIOUS
  <2>3. Applied(s, Ranked(n))' = Applied(s, Ranked(n))
    <3>1. PICK rule : rule = Ranked(n)
      OBVIOUS
    <3>2. Ranked(n)' = rule
      BY <2>1, <3>1, Zenon
    <3>3. Applied(s, Ranked(n)') = Applied(s, rule)
      BY <3>2, Zenon
    <3>4. QED
      BY <3>1, <3>3, Zenon
  <2>4. QED
    BY <1>5, <2>3, Zenon DEF Turn
<1>7. \A f, s : Turns(f, s)' <=> Turns(f, s)
  BY <1>5, <1>6, Zenon DEF Turns
<1>8. After' = After
  <2> DEFINE Now(f) == [n \in 0 .. Top |-> IF n = 0 THEN Unmerged ELSE Turn(n - 1, f[n - 1])]
             Then(f) == [n \in 0 .. Top' |-> IF n = 0 THEN Unmerged' ELSE Turn(n - 1, f[n - 1])']
  <2>1. \A f : Now(f) = Then(f)
    BY <1>4, <1>5, <1>6, Zenon
  <2>2. After = (CHOOSE f : f = Now(f)) /\ After' = CHOOSE f : f = Then(f)
    BY Zenon DEF After
  <2> HIDE DEF Now, Then
  <2>3. (CHOOSE f : f = Now(f)) = CHOOSE f : f = Then(f)
    BY <2>1, Zenon
  <2>4. QED
    BY <2>2, <2>3, Zenon
<1>9. InTurn' = InTurn
  <2>1. (InTurn = After[Top])'
    BY InTurnIs, PTL
  <2>2. QED
    BY <1>5, <1>8, <2>1, InTurnIs, Zenon
<1>10. QED
  BY <1>1, <1>3, <1>4, <1>5, <1>7, <1>9, Zenon

\* What was split and what is left are the pieces of the text.
Splitting ==
  /\ pieces \o UnmergedFrom[cursor] = Unmerged
  /\ NewLineHasToken => AllFine(pieces)

\* The turns of the rules lead from the pieces to where they lead from the text.
Merging ==
  NewLineHasToken => /\ AllFine(pieces)
                     /\ Trained => \E f : Turns(f, pieces) /\ f[Top] = InTurn

\* All turns are over.
Decoding ==
  /\ cursor \in Nat
  /\ cursor = 0 /\ Trained /\ NewLineHasToken => pieces = InTurn

TurnInv ==
  /\ RanksAre
  /\ step = "splitting" => Splitting
  /\ step = "merging" => Merging
  /\ step = "decoding" => Decoding

LEMMA TurnInit == Init => TurnInv
<1> SUFFICES ASSUME Init PROVE TurnInv
  OBVIOUS
<1>1. rules = <<>> /\ step = "unloaded"
  BY DEF Init, TokenizerInit
<1>2. RanksAre
  <2>1. DOMAIN rules = {} /\ 0 \in Nat
    BY <1>1
  <2>2. QED
    BY <2>1, Zenon DEF RanksAre
<1>3. QED
  BY <1>1, <1>2 DEF TurnInv

\* Nothing of the tokenizer is touched.
LEMMA TurnStays ==
  ASSUME TurnInv, UNCHANGED tokenizerVars
  PROVE  TurnInv'
<1> USE DEF tokenizerVars
<1>1. /\ Trained' = Trained /\ NewLineHasToken' = NewLineHasToken
      /\ UnmergedFrom' = UnmergedFrom /\ Unmerged' = Unmerged
      /\ Top' = Top /\ InTurn' = InTurn
      /\ \A f, s : Turns(f, s)' <=> Turns(f, s)
  BY SameTurns
<1>2. RanksAre => RanksAre'
  BY SameRanks
<1>3. (AllFine(pieces) => AllFine(pieces)') /\ \A f : Turns(f, pieces) => Turns(f, pieces)'
  <2>1. pieces' = pieces
    OBVIOUS
  <2>2. AllFine(pieces) => AllFine(pieces)'
    BY <2>1, Zenon DEF AllFine
  <2>3. ASSUME NEW f, Turns(f, pieces) PROVE Turns(f, pieces)'
    <3>1. PICK s : s = pieces
      OBVIOUS
    <3>2. Turns(f, s)'
      BY <1>1, <2>3, <3>1, Zenon
    <3>3. QED
      BY <2>1, <3>1, <3>2, Zenon DEF Turns
  <2>4. QED
    BY <2>2, <2>3
<1>4. (Splitting => Splitting') /\ (Merging => Merging') /\ (Decoding => Decoding')
  BY <1>1, <1>3, Zenon DEF Splitting, Merging, Decoding
<1>5. QED
  BY <1>2, <1>4, Zenon DEF TurnInv

\* The lines give every rule a rank of its own.
LEMMA TurnRead ==
  ASSUME TextInv, ReadTokenizer
  PROVE  TurnInv'
<1>1. step' = "idle" /\ rules' = RulesOf(GetStrings(MergesKey))
  BY DEF ReadTokenizer, LoadTokenizer
<1>2. PICK lines \in Seq(ByteString) : lines = GetStrings(MergesKey)
  <2>1. \A key : GetStrings(key) \in Seq(ByteString)
    BY DEF TextInv, StringsAre, GetStrings, Has
  <2>2. QED
    BY <2>1
<1>3. RanksAre'
  <2>1. Len(lines) \in Nat
    OBVIOUS
  <2>2. \A k \in DOMAIN RulesOf(lines) :
          /\ RulesOf(lines)[k].rank \in 0 .. Len(lines)
          /\ \A m \in DOMAIN RulesOf(lines) :
               RulesOf(lines)[k].rank = RulesOf(lines)[m].rank => k = m
    BY RulesOfLines
  <2>3. rules' = RulesOf(lines)
    BY <1>1, <1>2
  <2>4. QED
    BY <2>1, <2>2, <2>3, Zenon DEF RanksAre
<1>4. QED
  BY <1>1, <1>3, Zenon DEF TurnInv

\* Nothing is split yet.
LEMMA TurnAsk ==
  ASSUME TextInv, TextInv', TurnInv, Ask
  PROVE  TurnInv'
<1>1. /\ step' = "splitting" /\ step = "idle" /\ cursor' = 0 /\ pieces' = <<>> /\ rules' = rules
  BY DEF Ask, StartEncode, TextInv
<1>2. pieces' \o UnmergedFrom'[cursor'] = Unmerged'
  <2>1. (text \in ByteString => UnmergedFrom \in [0 .. Len(text) -> PieceLists])'
    BY UnmergedTyped, PTL
  <2>2. text' \in ByteString
    BY Zenon DEF TextInv
  <2>3. 0 \in 0 .. Len(text')
    BY <2>2 DEF ByteString
  <2>4. UnmergedFrom'[0] \in PieceLists
    BY <2>1, <2>2, <2>3
  <2>5. (Unmerged = UnmergedFrom[0])'
    BY UnmergedIs, PTL
  <2>6. <<>> \o UnmergedFrom'[0] = UnmergedFrom'[0]
    BY <2>4, ConcatEmptySeq DEF PieceLists
  <2>7. QED
    BY <1>1, <2>5, <2>6, Zenon
<1>3. AllFine(pieces)'
  BY <1>1 DEF AllFine, PieceLists
<1>4. RanksAre'
  BY <1>1, SameRanks DEF TurnInv
<1>5. QED
  BY <1>1, <1>2, <1>3, <1>4, Zenon DEF TurnInv, Splitting

\* The next piece.
LEMMA TurnSplit ==
  ASSUME TextInv, TurnInv, Split
  PROVE  TurnInv'
<1>1. /\ UNCHANGED <<tokens, rules, bos, text, step>> /\ step = "splitting"
      /\ WhileSplitting /\ text \in ByteString /\ cursor \in 0 .. Len(text) /\ cursor # Len(text)
  BY DEF Split, TextInv, WhileSplitting, ByteString
<1>2. PICK p \in ByteString, next \in cursor + 1 .. Len(text) :
        p = PieceAt(cursor) /\ next = PlaceAfter(cursor) /\ (NewLineHasToken => Fine(p))
  BY <1>1, PieceIs
<1>3. pieces' = Append(pieces, p) /\ cursor' = next
  BY <1>2, Zenon DEF Split, PieceAt, PlaceAfter
<1>4. pieces \in Seq(ByteString)
  BY <1>1 DEF WhileSplitting
<1>5. Append(pieces, p) \o UnmergedFrom[next] = Unmerged
  <2>1. next \in 0 .. Len(text)
    BY <1>1 DEF ByteString
  <2>2. PICK v \in Seq(ByteString) : v = UnmergedFrom[next]
    BY <1>1, <2>1, UnmergedUnfolds DEF PieceLists
  <2>3. UnmergedFrom[cursor] = <<p>> \o v
    BY <1>1, <1>2, <2>2, UnmergedUnfolds, Zenon DEF UnmergedAt
  <2>4. <<p>> \in Seq(ByteString)
    OBVIOUS
  <2>5. Append(pieces, p) = pieces \o <<p>> /\ (pieces \o <<p>>) \o v = pieces \o (<<p>> \o v)
    BY <1>4, <2>4, AppendIsConcat, ConcatAssociative
  <2>6. pieces \o UnmergedFrom[cursor] = Unmerged
    BY <1>1 DEF TurnInv, Splitting
  <2>7. QED
    BY <2>2, <2>3, <2>5, <2>6, Zenon
<1>6. ASSUME NewLineHasToken
      PROVE  AllFine(Append(pieces, p))
  <2>1. \A j \in 1 .. Len(pieces) : Fine(pieces[j])
    BY <1>1, <1>6 DEF TurnInv, Splitting, AllFine
  <2>2. Fine(p)
    BY <1>2, <1>6
  <2>3. /\ Append(pieces, p) \in PieceLists /\ Len(Append(pieces, p)) = Len(pieces) + 1
        /\ \A j \in 1 .. Len(pieces) : Append(pieces, p)[j] = pieces[j]
        /\ Append(pieces, p)[Len(pieces) + 1] = p
    BY <1>4, AppendProperties DEF PieceLists
  <2>4. ASSUME NEW j \in 1 .. Len(Append(pieces, p))
        PROVE  Fine(Append(pieces, p)[j])
    <3>1. j \in 1 .. Len(pieces) \/ j = Len(pieces) + 1
      BY <1>4, <2>3
    <3>2. QED
      BY <2>1, <2>2, <2>3, <3>1, Zenon
  <2>5. QED
    BY <2>3, <2>4, Zenon DEF AllFine
<1>7. NewLineHasToken' = NewLineHasToken /\ UnmergedFrom' = UnmergedFrom /\ Unmerged' = Unmerged
  BY <1>1, SameTurns
<1>8. AllFine(Append(pieces, p)) => AllFine(pieces)'
  BY <1>3, Zenon DEF AllFine
<1>9. Splitting'
  BY <1>3, <1>5, <1>6, <1>7, <1>8, Zenon DEF Splitting
<1>10. RanksAre'
  BY <1>1, SameRanks DEF TurnInv
<1>11. QED
  BY <1>1, <1>9, <1>10 DEF TurnInv

\* The turns begin.
LEMMA TurnSplitDone ==
  ASSUME TextInv, TurnInv, SplitDone
  PROVE  TurnInv'
<1>1. /\ UNCHANGED <<tokens, rules, bos, text, pieces>> /\ step = "splitting" /\ step' = "merging"
      /\ WhileSplitting /\ RulesAre /\ text \in ByteString /\ cursor = Len(text)
  BY DEF SplitDone, TextInv
<1>2. pieces = Unmerged /\ pieces \in PieceLists
  <2>1. Len(text) \in 0 .. Len(text)
    BY <1>1 DEF ByteString
  <2>2. UnmergedFrom[cursor] = <<>>
    BY <1>1, <2>1, UnmergedUnfolds, Zenon DEF UnmergedAt
  <2>3. pieces \in Seq(ByteString) /\ pieces \o <<>> = pieces
    BY <1>1, ConcatEmptySeq DEF WhileSplitting
  <2>4. pieces \o UnmergedFrom[cursor] = Unmerged
    BY <1>1 DEF TurnInv, Splitting
  <2>5. QED
    BY <2>2, <2>3, <2>4, Zenon DEF PieceLists
<1>3. Turns(After, pieces) /\ After[Top] = InTurn
  BY <1>1, <1>2, AfterTurns, InTurnIs DEF TurnInv
<1>4. /\ Trained' = Trained /\ NewLineHasToken' = NewLineHasToken
      /\ Top' = Top /\ InTurn' = InTurn
      /\ \A f, s : Turns(f, s)' <=> Turns(f, s)
  BY <1>1, SameTurns
<1>5. PICK f : Turns(f, pieces) /\ f[Top] = InTurn
  BY <1>3
<1>6. Turns(f, pieces)'
  <2>1. PICK s : s = pieces /\ s = pieces'
    BY <1>1
  <2>2. Turns(f, s)'
    BY <1>4, <1>5, <2>1, Zenon
  <2>3. QED
    BY <2>1, <2>2, Zenon DEF Turns
<1>7. NewLineHasToken => AllFine(pieces)'
  <2>1. NewLineHasToken => AllFine(pieces)
    BY <1>1 DEF TurnInv, Splitting
  <2>2. AllFine(pieces) => AllFine(pieces)'
    BY <1>1, Zenon DEF AllFine
  <2>3. QED
    BY <2>1, <2>2
<1>8. Merging'
  BY <1>4, <1>5, <1>6, <1>7, Zenon DEF Merging
<1>9. RanksAre'
  BY <1>1, SameRanks DEF TurnInv
<1>10. QED
  BY <1>1, <1>8, <1>9 DEF TurnInv

\* One merge of some turn.
LEMMA TurnMerge ==
  ASSUME TextInv, TurnInv, Merge
  PROVE  TurnInv'
<1>1. /\ UNCHANGED <<tokens, rules, bos, text, step>> /\ step = "merging" /\ RulesAre /\ RanksAre
      /\ Merging
  BY DEF Merge, TextInv, TurnInv
<1>2. /\ Trained' = Trained /\ NewLineHasToken' = NewLineHasToken
      /\ Top' = Top /\ InTurn' = InTurn
      /\ \A f, s : Turns(f, s)' <=> Turns(f, s)
  BY <1>1, SameTurns
<1>3. ASSUME NewLineHasToken
      PROVE  AllFine(pieces)' /\ (Trained => \E g : Turns(g, pieces)' /\ g[Top] = InTurn)
  <2>1. AllFine(pieces)
    BY <1>1, <1>3 DEF Merging
  <2>2. PICK i \in Candidates :
          LET rule == rules[Key(pieces[i], pieces[i + 1])]
          IN Best(i) /\ pieces' = SubSeq(pieces, 1, i - 1) \o <<rule.left \o rule.right>>
                                    \o SubSeq(pieces, i + 2, Len(pieces))
    BY DEF Merge
  <2>3. PICK k \in Usable : /\ k = Key(pieces[i], pieces[i + 1]) /\ OccursAt(pieces, rules[k], i)
                            /\ RankAt(i) = rules[k].rank
    BY <1>1, <2>1, CandidateHasRule
  <2>4. PICK t : t = Merged(pieces, i, rules[k].left \o rules[k].right)
    OBVIOUS
  <2>5. pieces' = t /\ Best(i)
    BY <2>2, <2>3, <2>4, Zenon DEF Merged
  <2>6. AllFine(t)
    BY <1>1, <2>1, <2>3, <2>4, MergedFine
  <2>7. AllFine(pieces)'
    BY <2>5, <2>6, Zenon DEF AllFine
  <2>8. ASSUME Trained
        PROVE  \E g : Turns(g, pieces)' /\ g[Top] = InTurn
    <3>1. PICK f : Turns(f, pieces) /\ f[Top] = InTurn
      BY <1>1, <1>3, <2>8 DEF Merging
    <3>2. PICK g : Turns(g, t) /\ g[Top] = f[Top]
      BY <1>1, <2>1, <2>3, <2>4, <2>5, <2>8, <3>1, TurnsMerged
    <3>3. Turns(g, t)'
      BY <1>2, <3>2, Zenon
    <3>4. Turns(g, pieces)'
      BY <2>5, <3>3, Zenon DEF Turns
    <3>5. QED
      BY <3>1, <3>2, <3>4, Zenon
  <2>9. QED
    BY <2>7, <2>8
<1>4. Merging'
  BY <1>2, <1>3, Zenon DEF Merging
<1>5. RanksAre'
  BY <1>1, SameRanks
<1>6. QED
  BY <1>1, <1>4, <1>5 DEF TurnInv

\* Nothing is left to merge.
LEMMA TurnMergeDone ==
  ASSUME TextInv, TurnInv, MergeDone
  PROVE  TurnInv'
<1>1. /\ UNCHANGED <<tokens, rules, bos, text, pieces, cursor>>
      /\ step = "merging" /\ step' = "decoding"
      /\ Candidates = {} /\ RulesAre /\ RanksAre /\ Merging /\ cursor = 0
  BY DEF MergeDone, TextInv, TurnInv, WhileMerging
<1>2. Trained /\ NewLineHasToken => pieces = InTurn
  <2>1. SUFFICES ASSUME Trained, NewLineHasToken PROVE pieces = InTurn
    OBVIOUS
  <2>2. AllFine(pieces)
    BY <1>1, <2>1 DEF Merging
  <2>3. PICK f : Turns(f, pieces) /\ f[Top] = InTurn
    BY <1>1, <2>1 DEF Merging
  <2>4. f[Top] = pieces
    BY <1>1, <2>2, <2>3, TurnsOver
  <2>5. QED
    BY <2>3, <2>4
<1>3. Trained' = Trained /\ NewLineHasToken' = NewLineHasToken /\ InTurn' = InTurn
  BY <1>1, SameTurns
<1>4. Decoding'
  BY <1>1, <1>2, <1>3 DEF Decoding
<1>5. RanksAre'
  BY <1>1, SameRanks
<1>6. QED
  BY <1>1, <1>4, <1>5 DEF TurnInv

LEMMA TurnDecode ==
  ASSUME TurnInv, Decode \/ DecodeDone
  PROVE  TurnInv'
<1>1. RanksAre'
  BY SameRanks DEF TurnInv, Decode, DecodeDone
<1>2. CASE Decode
  <2>1. step = "decoding" /\ step' = "decoding" /\ cursor' = cursor + 1 /\ cursor \in Nat
    BY <1>2 DEF Decode, TurnInv, Decoding
  <2>2. cursor' \in Nat /\ cursor' # 0
    BY <2>1
  <2>3. Decoding'
    BY <2>2, Zenon DEF Decoding
  <2>4. QED
    BY <1>1, <2>1, <2>3 DEF TurnInv
<1>3. CASE DecodeDone
  BY <1>1, <1>3 DEF TurnInv, DecodeDone
<1>4. QED
  BY <1>2, <1>3

LEMMA TurnStep == IInv /\ TextInv /\ TextInv' /\ TurnInv /\ [Next]_vars => TurnInv'
<1> SUFFICES ASSUME IInv, TextInv, TextInv', TurnInv, [Next]_vars
             PROVE  TurnInv'
  OBVIOUS
<1>1. CASE UNCHANGED tokenizerVars
  BY <1>1, TurnStays
<1>2. CASE ReadTokenizer
  BY <1>2, TurnRead
<1>3. CASE Ask
  BY <1>3, TurnAsk
<1>4. CASE TokenizerStep
  BY <1>4, TurnSplit, TurnSplitDone, TurnMerge, TurnMergeDone, TurnDecode DEF TokenizerStep
<1>5. [Next]_vars => UNCHANGED tokenizerVars \/ ReadTokenizer \/ Ask \/ TokenizerStep
  BY Zenon DEF Next, vars, ReadFile, RefuseTokenizer, LoadModel, Answer
<1>6. QED
  BY <1>1, <1>2, <1>3, <1>4, <1>5

-----------------------------------------------------------------------------
\* Of every file a weight is taken from the bytes that the writer gave to it,
\* whatever was said twice and wherever the data begins.
THEOREM WeightsFromTheirBytes == Spec => []BytesAreTheTensors
<1>1. IInv => BytesAreTheTensors
  BY DEF IInv
<1>2. QED
  BY InitStep, NextStep, <1>1, PTL DEF Spec

\* A model is only loaded with the configuration it was made with: derived
\* numbers are right or the first layer's shapes give them away.
THEOREM LoadedAsConfigured == Spec => []ConfigIsTheFiles
<1>1. IInv => ConfigIsTheFiles
  <2> SUFFICES ASSUME IInv, phase = "loaded"
               PROVE  /\ config = [vocab |-> file.truth.vocab, hidden |-> file.truth.hidden,
                                   blocks |-> file.truth.blocks, ff |-> file.truth.ff,
                                   heads |-> file.truth.heads, kv |-> file.truth.kv,
                                       dim |-> file.truth.dim]
                      /\ file.truth.vdim = file.truth.dim
    BY DEF ConfigIsTheFiles
  <2>1. layer > 0
    BY DEF IInv, Progress
  <2>2. QED
    BY <2>1 DEF IInv, ConfigSoFar
<1>2. QED
  BY InitStep, NextStep, <1>1, PTL DEF Spec

\* A file of a supported model with all that must be said is never refused:
\* what is left out is derived as it was, whatever the order of its parts,
\* what is said twice and what else it says.
THEOREM CompleteFilesAreLoaded == Spec => []CompleteFilesLoad
<1>1. Init => IInv /\ LoadInv
  BY InitStep, LoadInit
<1>2. IInv /\ LoadInv /\ [Next]_vars => (IInv /\ LoadInv)'
  BY NextStep, LoadNext
<1>3. LoadInv => CompleteFilesLoad
  BY DEF LoadInv, CompleteFilesLoad
<1>4. QED
  BY <1>1, <1>2, <1>3, PTL DEF Spec

\* With a vocabulary that covers a text, the bytes that come back from its ids
\* are its own, but for the special tokens: whatever the merge rules, the order
\* they are applied in and the text are, no token is hidden or read as another
\* byte (tokenizer.cpp:254-256, 311-374).
THEOREM TextsComeBack == Spec => []RoundTrip
<1>1. Init => IInv /\ TextInv
  BY InitStep, TextInit
<1>2. IInv /\ TextInv /\ [Next]_vars => (IInv /\ TextInv)'
  BY NextStep, TextStep
<1>3. IInv /\ TextInv => RoundTrip
  BY TextBack
<1>4. QED
  BY <1>1, <1>2, <1>3, PTL DEF Spec

\* Merging what the search over all neighbours finds comes to what training
\* means, the rules one after the other, each through the whole text from left
\* to right: for all rules whose parts are made by earlier ones and all texts
\* whose new lines have a token (tokenizer.cpp:240-285).
THEOREM MergedAsTrained == Spec => []EncodesAsTrained
<1>1. Init => IInv /\ TextInv /\ TurnInv
  BY InitStep, TextInit, TurnInit
<1>2. IInv /\ TextInv /\ TurnInv /\ [Next]_vars => (IInv /\ TextInv /\ TurnInv)'
  BY NextStep, TextStep, TurnStep
<1>3. TurnInv => EncodesAsTrained
  BY DEF TurnInv, Decoding, EncodesAsTrained
<1>4. QED
  BY <1>1, <1>2, <1>3, PTL DEF Spec
=============================================================================
