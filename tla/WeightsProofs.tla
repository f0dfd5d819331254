--------------------------- MODULE WeightsProofs ---------------------------
(***************************************************************************)
(* Proofs about Weights, for tensors of any size: every element that any   *)
(* kernel or shader reads has the bits that the format gives it.           *)
(***************************************************************************)
EXTENDS TLAPS, Weights

-----------------------------------------------------------------------------
(* Readers. *)

\* A bit field cut out of a 32-bit word is the one cut out of its byte: the
\* shaders' load_byte and the kernels' byte access agree.
LEMMA WordIsByte ==
  ASSUME NEW byte \in Nat, NEW from, NEW width
  PROVE  WordBits(byte, from, width) = Bits(byte, from, width)
<1>1. 32 * (byte \div 4) + 8 * (byte % 4) = 8 * byte
  OBVIOUS
<1> QED BY <1>1 DEF WordBits, Bits

\* The kernel's unpacking of 6-bit scales gives the format's.
LEMMA DeviceScaleMinIsFormat ==
  ASSUME NEW j \in 0 .. 7, NEW p \in Nat
  PROVE  /\ DeviceScaleMin(j, p).scale = Scale6(j, p)
         /\ DeviceScaleMin(j, p).min = Min6(j, p)
<1>1. CASE j < 4
  <2>1. p + j + 4 = p + 4 + j
    OBVIOUS
  <2> QED BY <1>1, <2>1 DEF DeviceScaleMin, Scale6, Min6
<1>2. CASE ~(j < 4)
  <2>1. /\ p + j + 4 = p + 8 + (j - 4)
        /\ p + j - 4 = p + (j - 4)
        /\ p + j = p + 4 + (j - 4)
    OBVIOUS
  <2> QED BY <1>2, <2>1 DEF DeviceScaleMin, Scale6, Min6
<1> QED BY <1>1, <1>2

\* So does the converter's.
LEMMA ScaleMinIsFormat ==
  ASSUME NEW j \in 0 .. 7, NEW p \in Nat
  PROVE  /\ ScaleMin(j, p).scale = Scale6(j, p)
         /\ ScaleMin(j, p).min = Min6(j, p)
<1>1. CASE j < 4
  <2>1. p + j + 4 = p + 4 + j
    OBVIOUS
  <2> QED BY <1>1, <2>1 DEF ScaleMin, Scale6, Min6
<1>2. CASE ~(j < 4)
  <2>1. /\ p + j + 4 = p + 8 + (j - 4)
        /\ p + j - 4 = p + (j - 4)
        /\ p + j = p + 4 + (j - 4)
    OBVIOUS
  <2> QED BY <1>2, <2>1 DEF ScaleMin, Scale6, Min6
<1> QED BY <1>1, <1>2

\* And the shader's, which is the kernel's on words.
LEMMA ShaderScaleMinIsDevice ==
  ASSUME NEW j \in 0 .. 7, NEW p \in Nat
  PROVE  ShaderScaleMin(j, p) = DeviceScaleMin(j, p)
<1>1. CASE j < 4
  <2>1. p + j \in Nat /\ p + j + 4 \in Nat
    OBVIOUS
  <2> QED BY <1>1, <2>1, WordIsByte DEF ShaderScaleMin, DeviceScaleMin
<1>2. CASE ~(j < 4)
  <2>1. p + j \in Nat /\ p + j + 4 \in Nat /\ p + j - 4 \in Nat
    BY <1>2
  <2> QED BY <1>2, <2>1, WordIsByte DEF ShaderScaleMin, DeviceScaleMin
<1> QED BY <1>1, <1>2

LEMMA WordBytesAreBytes ==
  ASSUME NEW byte \in Nat
  PROVE  WordBytes2(byte) = Bytes2(byte)
<1>1. byte + 1 \in Nat
  OBVIOUS
<1> QED BY <1>1, WordIsByte DEF WordBytes2, Bytes2

\* A thread of the Q4_K kernel takes the element of its own number.
LEMMA DeviceQ4IsFormat ==
  ASSUME NEW block \in Nat, NEW j \in 0 .. 255
  PROVE  DeviceQ4(block, j) = Q4Format(block, j)
<1> DEFINE s == (j \div 64) * 2 + (IF j % 64 >= 32 THEN 1 ELSE 0)
<1>1. s = j \div 32 /\ s \in 0 .. 7
  OBVIOUS
<1>2. (j % 64) % 32 = j % 32
  OBVIOUS
<1>3. (IF j % 64 >= 32 THEN 4 ELSE 0) = 4 * ((j \div 32) % 2)
  OBVIOUS
<1>4. block + 16 + (j \div 64) * 32 + ((j % 64) % 32) = block + 16 + 32 * (j \div 64) + (j % 32)
  BY <1>2
<1>5. /\ DeviceScaleMin(s, block + 4).scale = Scale6(j \div 32, block + 4)
      /\ DeviceScaleMin(s, block + 4).min = Min6(j \div 32, block + 4)
  BY <1>1, DeviceScaleMinIsFormat
<1> QED BY <1>3, <1>4, <1>5 DEF DeviceQ4, Q4Format

\* The same for the Q6_K kernels.
LEMMA DeviceQ6IsFormat ==
  ASSUME NEW block \in Nat, NEW j \in 0 .. 255
  PROVE  DeviceQ6(block, j) = Q6Format(block, j)
<1> DEFINE half == j \div 128
           part == (j % 128) \div 32
           i    == (j % 128) % 32
<1>1. block + 192 + half * 8 + i \div 16 + part * 2 = block + 192 + j \div 16
  OBVIOUS
<1>2. half * 64 + (part % 2) * 32 + i = 64 * (j \div 128) + (j % 64)
  OBVIOUS
<1>3. (IF part < 2 THEN 0 ELSE 4) = 4 * ((j % 128) \div 64)
  OBVIOUS
<1>4. i = j % 32
  OBVIOUS
<1>5. block + half * 64 + (part % 2) * 32 + i = block + 64 * (j \div 128) + (j % 64)
  BY <1>2
<1>6. block + 128 + half * 32 + i = block + 128 + 32 * (j \div 128) + (j % 32)
  BY <1>4
<1>7. part * 2 = 2 * ((j % 128) \div 32)
  OBVIOUS
<1> QED BY <1>1, <1>3, <1>5, <1>6, <1>7 DEF DeviceQ6, Q6Format

\* The shaders address words where the kernels address bytes.
LEMMA ShaderQ4IsDevice ==
  ASSUME NEW block \in Nat, NEW j \in 0 .. 255
  PROVE  ShaderQ4(block, j) = DeviceQ4(block, j)
<1> DEFINE s == (j \div 64) * 2 + (IF j % 64 >= 32 THEN 1 ELSE 0)
           packed == block + 16 + (j \div 64) * 32 + ((j % 64) % 32)
<1>1. s \in 0 .. 7 /\ packed \in Nat /\ block + 4 \in Nat /\ block + 2 \in Nat
  OBVIOUS
<1>2. ShaderScaleMin(s, block + 4) = DeviceScaleMin(s, block + 4)
  BY <1>1, ShaderScaleMinIsDevice
<1>3. WordBytes2(block) = Bytes2(block) /\ WordBytes2(block + 2) = Bytes2(block + 2)
  BY <1>1, WordBytesAreBytes
<1>4. WordBits(packed, IF j % 64 >= 32 THEN 4 ELSE 0, 4)
        = Bits(packed, IF j % 64 >= 32 THEN 4 ELSE 0, 4)
  BY <1>1, WordIsByte
<1> QED BY <1>2, <1>3, <1>4 DEF ShaderQ4, DeviceQ4

LEMMA ShaderQ6IsDevice ==
  ASSUME NEW block \in Nat, NEW j \in 0 .. 255
  PROVE  ShaderQ6(block, j) = DeviceQ6(block, j)
<1> DEFINE half == j \div 128
           part == (j % 128) \div 32
           i    == (j % 128) % 32
           scale == block + 192 + half * 8 + i \div 16 + part * 2
           low   == block + half * 64 + (part % 2) * 32 + i
           high  == block + 128 + half * 32 + i
<1>1. scale \in Nat /\ low \in Nat /\ high \in Nat /\ block + 208 \in Nat
  OBVIOUS
<1>2. WordBytes2(block + 208) = Bytes2(block + 208)
  BY <1>1, WordBytesAreBytes
<1>3. /\ WordBits(scale, 0, 8) = Bits(scale, 0, 8)
      /\ WordBits(low, IF part < 2 THEN 0 ELSE 4, 4) = Bits(low, IF part < 2 THEN 0 ELSE 4, 4)
      /\ WordBits(high, part * 2, 2) = Bits(high, part * 2, 2)
  BY <1>1, WordIsByte
<1> QED BY <1>2, <1>3 DEF ShaderQ6, DeviceQ6

-----------------------------------------------------------------------------
(* The converter. *)

\* The iteration that assigns an element.
TurnOf(type, e) ==
  CASE type = "Q4_K" -> 128 * (e \div 256) + 32 * ((e % 256) \div 64) + (e % 32)
    [] type = "Q6_K" -> 64 * (e \div 256) + 32 * ((e % 256) \div 128) + (e % 32)
    [] OTHER -> e

Convertible == Flat \cup Quantized

\* An element of a block from its parts.
LEMMA Q4Index ==
  ASSUME NEW n \in Nat, NEW k \in 0 .. 1,
         NEW e, e = (n \div 128) * 256 + ((n \div 32) % 4) * 64 + (n % 32) + 32 * k
  PROVE  /\ e \in Nat
         /\ e \div 256 = n \div 128
         /\ (e % 256) \div 64 = (n \div 32) % 4
         /\ (e % 256) \div 32 = 2 * ((n \div 32) % 4) + k
         /\ ((e % 256) \div 32) % 2 = k
         /\ (e % 256) % 32 = n % 32
         /\ e % 32 = n % 32
  OBVIOUS

\* An iteration of the Q4_K loop assigns elements of its own turn, each with
\* the value that the format gives it.
LEMMA Q4WritesFormat ==
  ASSUME NEW n \in Nat, NEW e \in DOMAIN Q4Writes(n)
  PROVE  /\ e \in Nat
         /\ TurnOf("Q4_K", e) = n
         /\ Q4Writes(n)[e] = Format("Q4_K", e)
<1> DEFINE b     == n \div 128
           super == (n \div 32) % 4
           i     == n % 32
           block == 144 * b
           q     == block + 16 + super * 32 + i
           low   == b * 256 + super * 64 + i
<1>1. block \in Nat /\ super \in 0 .. 3 /\ block + 4 \in Nat
  OBVIOUS
<1>2. e \in {low, low + 32}
  BY DEF Q4Writes
<1>3. n = 128 * b + 32 * super + i
  OBVIOUS
<1>4. CASE e = low
  <2>1. e = b * 256 + super * 64 + i + 32 * 0
    BY <1>4
  <2>2. /\ e \in Nat
        /\ e \div 256 = b
        /\ (e % 256) \div 64 = super
        /\ (e % 256) \div 32 = 2 * super + 0
        /\ ((e % 256) \div 32) % 2 = 0
        /\ (e % 256) % 32 = i
        /\ e % 32 = i
    BY <2>1, Q4Index
  <2>3. TurnOf("Q4_K", e) = n
    BY <1>3, <2>2 DEF TurnOf
  <2>4. super * 2 \in 0 .. 7
    BY <1>1
  <2>5. /\ ScaleMin(super * 2, block + 4).scale = Scale6(super * 2, block + 4)
        /\ ScaleMin(super * 2, block + 4).min = Min6(super * 2, block + 4)
    BY <1>1, <2>4, ScaleMinIsFormat
  <2>6. Q4Writes(n)[e] = <<Bytes2(block), Scale6(super * 2, block + 4), Bytes2(block + 2),
                           Min6(super * 2, block + 4), <<Bits(q, 0, 4)>>>>
    BY <1>4, <2>5 DEF Q4Writes
  <2>7. /\ (e % 256) \div 32 = super * 2
        /\ block + 16 + 32 * ((e % 256) \div 64) + ((e % 256) % 32) = q
        /\ 4 * (((e % 256) \div 32) % 2) = 0
    BY <2>2
  <2>8. Q4Format(block, e % 256) = Q4Writes(n)[e]
    BY <2>6, <2>7 DEF Q4Format
  <2>9. Format("Q4_K", e) = Q4Format(144 * (e \div 256), e % 256)
    BY DEF Format
  <2> QED BY <2>2, <2>3, <2>8, <2>9
<1>5. CASE e = low + 32
  <2>1. e = b * 256 + super * 64 + i + 32 * 1
    BY <1>5
  <2>2. /\ e \in Nat
        /\ e \div 256 = b
        /\ (e % 256) \div 64 = super
        /\ (e % 256) \div 32 = 2 * super + 1
        /\ ((e % 256) \div 32) % 2 = 1
        /\ (e % 256) % 32 = i
        /\ e % 32 = i
    BY <2>1, Q4Index
  <2>3. TurnOf("Q4_K", e) = n
    BY <1>3, <2>2 DEF TurnOf
  <2>4. super * 2 + 1 \in 0 .. 7
    BY <1>1
  <2>5. /\ ScaleMin(super * 2 + 1, block + 4).scale = Scale6(super * 2 + 1, block + 4)
        /\ ScaleMin(super * 2 + 1, block + 4).min = Min6(super * 2 + 1, block + 4)
    BY <1>1, <2>4, ScaleMinIsFormat
  <2>6. low # low + 32
    BY <1>1
  <2>7. Q4Writes(n)[e] = <<Bytes2(block), Scale6(super * 2 + 1, block + 4), Bytes2(block + 2),
                           Min6(super * 2 + 1, block + 4), <<Bits(q, 4, 4)>>>>
    BY <1>5, <2>5, <2>6 DEF Q4Writes
  <2>8. /\ (e % 256) \div 32 = super * 2 + 1
        /\ block + 16 + 32 * ((e % 256) \div 64) + ((e % 256) % 32) = q
        /\ 4 * (((e % 256) \div 32) % 2) = 4
    BY <2>2
  <2>9. Q4Format(block, e % 256) = Q4Writes(n)[e]
    BY <2>7, <2>8 DEF Q4Format
  <2>10. Format("Q4_K", e) = Q4Format(144 * (e \div 256), e % 256)
    BY DEF Format
  <2> QED BY <2>2, <2>3, <2>9, <2>10
<1> QED BY <1>2, <1>4, <1>5

\* The same for Q6_K.
LEMMA Q6WritesFormat ==
  ASSUME NEW n \in Nat, NEW e \in DOMAIN Q6Writes(n)
  PROVE  /\ e \in Nat
         /\ TurnOf("Q6_K", e) = n
         /\ Q6Writes(n)[e] = Format("Q6_K", e)
<1> DEFINE b     == n \div 64
           half  == (n \div 32) % 2
           i     == n % 32
           block == 210 * b
           ql    == block + half * 64 + i
           qh    == block + 128 + half * 32 + i
           sc    == block + 192 + half * 8 + i \div 16
           first == b * 256 + half * 128 + i
           k     == (e - first) \div 32
<1>1. block \in Nat /\ half \in 0 .. 1 /\ i \in 0 .. 31 /\ first \in Nat
  OBVIOUS
<1>2. e \in {first, first + 32, first + 64, first + 96}
  BY DEF Q6Writes
<1>3. k \in 0 .. 3 /\ e = first + 32 * k
  BY <1>1, <1>2
<1>4. n = 64 * b + 32 * half + i
  OBVIOUS
<1>5. /\ e \in Nat
      /\ e \div 256 = b
      /\ (e % 256) \div 128 = half
      /\ ((e % 256) % 128) \div 32 = k
      /\ (e % 256) % 32 = i
      /\ e % 32 = i
  <2>1. b \in Nat
    OBVIOUS
  <2>2. e = b * 256 + half * 128 + i + 32 * k
    BY <1>3
  <2>3. half \in 0 .. 1 /\ i \in 0 .. 31 /\ k \in 0 .. 3
    BY <1>1, <1>3
  <2> HIDE DEF b, half, i, k, block, ql, qh, sc, first
  <2> QED BY <2>1, <2>2, <2>3
<1>6. TurnOf("Q6_K", e) = n
  BY <1>4, <1>5 DEF TurnOf
<1>7. Q6Writes(n)[e] = <<Bytes2(block + 208), <<Bits(sc + 2 * k, 0, 8)>>,
                         <<Bits(ql + 32 * (k % 2), 4 * (k \div 2), 4), Bits(qh, 2 * k, 2)>>>>
  BY <1>2 DEF Q6Writes
<1> DEFINE j == e % 256
<1>8. j \in 0 .. 255 /\ j = 128 * half + 32 * k + i
  <2> HIDE DEF k
  <2> QED BY <1>1, <1>3, <1>5
<1>9. /\ block + 192 + j \div 16 = sc + 2 * k
      /\ block + 64 * (j \div 128) + (j % 64) = ql + 32 * (k % 2)
      /\ 4 * ((j % 128) \div 64) = 4 * (k \div 2)
      /\ block + 128 + 32 * (j \div 128) + (j % 32) = qh
      /\ 2 * ((j % 128) \div 32) = 2 * k
  <2> HIDE DEF k, j, half, i, block
  <2> QED BY <1>1, <1>3, <1>8
<1>10. Q6Format(block, j) = Q6Writes(n)[e]
  BY <1>7, <1>9 DEF Q6Format
<1>11. Format("Q6_K", e) = Q6Format(210 * (e \div 256), e % 256)
  BY DEF Format
<1> QED BY <1>5, <1>6, <1>10, <1>11

\* One iteration, whatever the type.
LEMMA WritesFormat ==
  ASSUME NEW type \in Convertible, NEW n \in Nat, NEW e \in DOMAIN Writes(type, n)
  PROVE  /\ e \in Nat
         /\ TurnOf(type, e) = n
         /\ Writes(type, n)[e] = Format(type, e)
<1>1. CASE type \in Flat
  BY <1>1 DEF Writes, Format, TurnOf, Flat
<1>2. CASE type = "Q8_0"
  BY <1>2 DEF Writes, Format, TurnOf, Flat, Q8Writes
<1>3. CASE type = "Q4_K"
  <2>1. Writes(type, n) = Q4Writes(n)
    BY <1>3 DEF Writes
  <2> QED BY <1>3, <2>1, Q4WritesFormat
<1>4. CASE type = "Q6_K"
  <2>1. Writes(type, n) = Q6Writes(n)
    BY <1>4 DEF Writes
  <2> QED BY <1>4, <2>1, Q6WritesFormat
<1> QED BY <1>1, <1>2, <1>3, <1>4 DEF Convertible, Quantized

\* Every element has an iteration that assigns it.
LEMMA WritesAll ==
  ASSUME NEW type \in Convertible, NEW e \in Nat
  PROVE  /\ TurnOf(type, e) \in Nat
         /\ e \in DOMAIN Writes(type, TurnOf(type, e))
<1>1. CASE type \in Flat
  BY <1>1 DEF Writes, TurnOf, Flat
<1>2. CASE type = "Q8_0"
  BY <1>2 DEF Writes, TurnOf, Flat, Q8Writes
<1>3. CASE type = "Q4_K"
  <2> DEFINE b == e \div 256
             s == (e % 256) \div 64
             i == e % 32
             n == 128 * b + 32 * s + i
  <2>1. b \in Nat /\ s \in 0 .. 3 /\ i \in 0 .. 31
    OBVIOUS
  <2>2. n \in Nat /\ n \div 128 = b /\ (n \div 32) % 4 = s /\ n % 32 = i
    <3> HIDE DEF b, s, i
    <3>1. n \in Nat /\ n \div 32 = 4 * b + s /\ n % 32 = i /\ n \div 128 = b
      BY <2>1
    <3>2. (4 * b + s) % 4 = s
      BY <2>1
    <3> QED BY <3>1, <3>2
  <2>3. e = b * 256 + s * 64 + i \/ e = b * 256 + s * 64 + i + 32
    OBVIOUS
  <2>4. TurnOf(type, e) = n
    BY <1>3 DEF TurnOf
  <2>5. Writes(type, n) = Q4Writes(n)
    BY <1>3 DEF Writes
  <2>6. DOMAIN Q4Writes(n) = {b * 256 + s * 64 + i, b * 256 + s * 64 + i + 32}
    <3> HIDE DEF b, s, i, n
    <3> QED BY <2>2 DEF Q4Writes
  <2> HIDE DEF n, b, s, i
  <2> QED BY <2>2, <2>3, <2>4, <2>5, <2>6
<1>4. CASE type = "Q6_K"
  <2> DEFINE b == e \div 256
             h == (e % 256) \div 128
             i == e % 32
             n == 64 * b + 32 * h + i
             first == b * 256 + h * 128 + i
  <2>1. b \in Nat /\ h \in 0 .. 1 /\ i \in 0 .. 31
    OBVIOUS
  <2>2. n \in Nat /\ n \div 64 = b /\ (n \div 32) % 2 = h /\ n % 32 = i
    <3> HIDE DEF b, h, i
    <3>1. n \in Nat /\ n \div 32 = 2 * b + h /\ n % 32 = i /\ n \div 64 = b
      BY <2>1
    <3>2. (2 * b + h) % 2 = h
      BY <2>1
    <3> QED BY <3>1, <3>2
  <2>3. e \in {first, first + 32, first + 64, first + 96}
    OBVIOUS
  <2>4. TurnOf(type, e) = n
    BY <1>4 DEF TurnOf
  <2>5. Writes(type, n) = Q6Writes(n)
    BY <1>4 DEF Writes
  <2>6. DOMAIN Q6Writes(n) = {first, first + 32, first + 64, first + 96}
    <3> HIDE DEF b, h, i, n
    <3> QED BY <2>2 DEF Q6Writes
  <2> HIDE DEF n, first
  <2> QED BY <2>2, <2>3, <2>4, <2>5, <2>6
<1> QED BY <1>1, <1>2, <1>3, <1>4 DEF Convertible, Quantized

\* The loops run long enough to reach every element of the tensor.
LEMMA TurnsSuffice ==
  ASSUME NEW t, t.type \in Convertible, Count(t) \in Nat,
         NEW e \in 0 .. Count(t) - 1
  PROVE  TurnOf(t.type, e) < Turns(t)
<1> DEFINE c == Count(t)
<1>1. t.type \in Types
  BY DEF Convertible, Types
<1>2. CASE t.type \in Flat
  <2>1. BlockSize[t.type] = 1 /\ TurnsPerBlock[t.type] = 1 /\ TurnOf(t.type, e) = e
    BY <1>1, <1>2 DEF BlockSize, TurnsPerBlock, TurnOf, Flat
  <2>2. Turns(t) = ((c + 1 - 1) \div 1) * 1
    BY <2>1 DEF Turns, Blocks
  <2> HIDE DEF c
  <2>3. Turns(t) = c
    BY <2>2 DEF c
  <2> QED BY <2>1, <2>3 DEF c
<1>3. CASE t.type = "Q8_0"
  <2>1. BlockSize[t.type] = 32 /\ TurnsPerBlock[t.type] = 32 /\ TurnOf(t.type, e) = e
    BY <1>1, <1>3 DEF BlockSize, TurnsPerBlock, TurnOf, Flat
  <2>2. Turns(t) = ((c + 32 - 1) \div 32) * 32
    BY <2>1 DEF Turns, Blocks
  <2> QED BY <2>1, <2>2
<1>4. CASE t.type = "Q4_K"
  <2>1. BlockSize[t.type] = 256 /\ TurnsPerBlock[t.type] = 128
    BY <1>1, <1>4 DEF BlockSize, TurnsPerBlock, Flat
  <2>2. TurnOf(t.type, e) = 128 * (e \div 256) + 32 * ((e % 256) \div 64) + (e % 32)
    BY <1>4 DEF TurnOf
  <2>3. Turns(t) = ((c + 256 - 1) \div 256) * 128
    BY <2>1 DEF Turns, Blocks
  <2> QED BY <2>2, <2>3
<1>5. CASE t.type = "Q6_K"
  <2>1. BlockSize[t.type] = 256 /\ TurnsPerBlock[t.type] = 64
    BY <1>1, <1>5 DEF BlockSize, TurnsPerBlock, Flat
  <2>2. TurnOf(t.type, e) = 64 * (e \div 256) + 32 * ((e % 256) \div 128) + (e % 32)
    BY <1>5 DEF TurnOf
  <2>3. Turns(t) = ((c + 256 - 1) \div 256) * 64
    BY <2>1 DEF Turns, Blocks
  <2> QED BY <2>2, <2>3
<1> QED BY <1>2, <1>3, <1>4, <1>5 DEF Convertible, Quantized

-----------------------------------------------------------------------------
(* Shapes. *)

\* An element's number lies inside the tensor.
LEMMA ElementInside ==
  ASSUME NEW rows \in Nat \ {0}, NEW cols \in Nat \ {0},
         NEW row \in 0 .. rows - 1, NEW col \in 0 .. cols - 1
  PROVE  row * cols + col \in 0 .. rows * cols - 1
<1>1. (row + 1) * cols <= rows * cols
  OBVIOUS
<1>2. (row + 1) * cols = row * cols + cols
  OBVIOUS
<1>3. row * cols \in Nat /\ rows * cols \in Nat
  OBVIOUS
<1> QED BY <1>1, <1>2, <1>3

\* In a tensor of whole rows of blocks, a row's blocks are where the flattened
\* tensor has them.
LEMMA RowOfBlocks ==
  ASSUME NEW cols \in Nat, cols % 256 = 0, NEW row \in Nat, NEW col \in 0 .. cols - 1
  PROVE  /\ (row * cols + col) \div 256 = row * (cols \div 256) + col \div 256
         /\ (row * cols + col) % 256 = col % 256
<1> DEFINE m == cols \div 256
           r == row * m
<1>1. m \in Nat /\ cols = 256 * m
  OBVIOUS
<1>2. r \in Nat
  BY <1>1
<1>3. row * cols = 256 * r
  <2> HIDE DEF m
  <2>1. row * (256 * m) = 256 * (row * m)
    BY <1>1
  <2> QED BY <1>1, <2>1
<1>4. (256 * r + col) \div 256 = r + col \div 256 /\ (256 * r + col) % 256 = col % 256
  <2> HIDE DEF r
  <2> QED BY <1>2
<1> QED BY <1>3, <1>4

\* The threads of a kernel of blocks handle every column of such a row.
LEMMA ColumnsCovered ==
  ASSUME NEW k, NEW t, t.cols \in Nat,
         k \in (Q4Kernels \cup Q6Kernels) => t.cols % 256 = 0
  PROVE  Columns(k, t) = 0 .. t.cols - 1
<1>1. CASE k \in (Q4Kernels \cup Q6Kernels) \ {"embed_q6k"}
  <2> DEFINE c == t.cols
             C == {256 * b + tid : b \in 0 .. c \div 256 - 1, tid \in 0 .. 255}
  <2>1. c % 256 = 0 /\ c \in Nat
    BY <1>1
  <2>2. Columns(k, t) = C
    BY <1>1 DEF Columns
  <2> HIDE DEF c
  <2>3. ASSUME NEW x \in 0 .. c - 1
        PROVE  x \in C
    <3>1. x \div 256 \in 0 .. c \div 256 - 1 /\ x % 256 \in 0 .. 255 /\ x = 256 * (x \div 256) + (x % 256)
      BY <2>1
    <3> QED BY <3>1
  <2>4. ASSUME NEW x \in C
        PROVE  x \in 0 .. c - 1
    <3>1. PICK b \in 0 .. c \div 256 - 1, tid \in 0 .. 255 : x = 256 * b + tid
      OBVIOUS
    <3> QED BY <2>1, <3>1
  <2> HIDE DEF C
  <2>5. C = 0 .. c - 1
    BY <2>3, <2>4
  <2> QED BY <2>2, <2>5 DEF c
<1>2. CASE k \notin (Q4Kernels \cup Q6Kernels) \ {"embed_q6k"}
  BY <1>2 DEF Columns
<1> QED BY <1>1, <1>2

\* Workgroups that take two rows each reach every row, an odd last one too.
LEMMA RowsCovered ==
  ASSUME NEW k, NEW t, t.rows \in Nat
  PROVE  RowsOf(k, t) = 0 .. t.rows - 1
<1>1. CASE k \in {"q4k_matvec.comp", "q6k_matvec.comp"}
  <2> DEFINE n == t.rows
             G == {2 * g + r : g \in 0 .. (n + 1) \div 2 - 1, r \in 0 .. 1}
  <2>1. RowsOf(k, t) = G \cap 0 .. n - 1
    BY <1>1 DEF RowsOf
  <2>2. ASSUME NEW x \in 0 .. n - 1
        PROVE  x \in G
    <3>1. x \div 2 \in 0 .. (n + 1) \div 2 - 1 /\ x % 2 \in 0 .. 1 /\ x = 2 * (x \div 2) + (x % 2)
      OBVIOUS
    <3> QED BY <3>1
  <2> HIDE DEF G
  <2>3. G \cap 0 .. n - 1 = 0 .. n - 1
    BY <2>2
  <2> QED BY <2>1, <2>3
<1>2. CASE k \notin {"q4k_matvec.comp", "q6k_matvec.comp"}
  BY <1>2 DEF RowsOf
<1> QED BY <1>1, <1>2

-----------------------------------------------------------------------------
(* The inductive invariant. *)

\* A conversion that has done so many turns: the elements of those turns have
\* the format's value, the others are still zero.
PartOf(done) ==
  /\ DOMAIN out = 0 .. Count(tensor) - 1
  /\ \A e \in 0 .. Count(tensor) - 1 :
       out[e] = IF TurnOf(tensor.type, e) < done THEN Format(tensor.type, e) ELSE Zero

\* What was stored: the file's bytes, or all elements converted.
Complete ==
  \/ out = <<>> /\ KeepsBlocks(place, tensor.type)
  \/ /\ DOMAIN out = 0 .. Count(tensor) - 1
     /\ Converts(place, tensor.type)
     /\ \A e \in 0 .. Count(tensor) - 1 : out[e] = Format(tensor.type, e)

IInv ==
  /\ tensor \in Tensors
  /\ tensor.type = "other" => phase \in {"file", "refused"}
  /\ place \in Places
  /\ place = "phone" => tensor.roles \subseteq {"matrix", "norm"}
  /\ phase \in {"file", "converting", "stored", "used", "refused"}
  /\ turn \in 0 .. Turns(tensor)
  /\ kernel \in Kernels \cup {"none"}
  /\ out = <<>> \/ DOMAIN out = 0 .. Count(tensor) - 1
  /\ phase = "file" => turn = 0 /\ out = <<>>
  /\ phase = "converting" => Converts(place, tensor.type) /\ PartOf(turn)
  /\ phase \in {"stored", "used"} => Complete
  /\ phase = "used" => \E role \in tensor.roles : kernel = KernelFor(role) /\ kernel # "none"

\* The numbers of a tensor that passed the assumption.
LEMMA Shape ==
  ASSUME NEW t \in Tensors
  PROVE  /\ t.rows \in Nat \ {0} /\ t.cols \in Nat \ {0}
         /\ t.type \in Types /\ t.roles \subseteq Roles
         /\ Count(t) \in Nat \ {0}
         /\ Turns(t) \in Nat
         /\ NBytes(t) > 0 => t.type \in Convertible
<1>1. /\ t.rows \in Nat \ {0} /\ t.cols \in Nat \ {0}
      /\ t.type \in Types /\ t.roles \in SUBSET Roles
  BY WeightsAssumption
<1>2. Count(t) \in Nat \ {0}
  <2>1. \A r, c \in Nat \ {0} : r * c \in Nat \ {0}
    OBVIOUS
  <2> QED BY <1>1, <2>1 DEF Count
<1>3. /\ BlockSize[t.type] \in {0, 1, 32, 256}
      /\ TurnsPerBlock[t.type] \in {0, 1, 32, 64, 128}
      /\ BlockBytes[t.type] \in {0, 2, 4, 34, 144, 210}
  BY <1>1 DEF BlockSize, TurnsPerBlock, BlockBytes
<1>4. Blocks(t) \in Nat
  <2>1. CASE BlockSize[t.type] = 0
    BY <2>1 DEF Blocks
  <2>2. CASE BlockSize[t.type] \in {1, 32, 256}
    <3>1. Blocks(t) = (Count(t) + BlockSize[t.type] - 1) \div BlockSize[t.type]
      BY <2>2 DEF Blocks
    <3> QED BY <1>2, <2>2, <3>1
  <2> QED BY <1>3, <2>1, <2>2
<1>5. Turns(t) \in Nat
  BY <1>3, <1>4 DEF Turns
<1>6. NBytes(t) > 0 => t.type \in Convertible
  <2>1. SUFFICES ASSUME t.type = "other"  PROVE  NBytes(t) = 0
    BY <1>1 DEF Convertible, Types
  <2>2. BlockSize[t.type] = 0 /\ BlockBytes[t.type] = 0
    BY <1>1, <2>1 DEF BlockSize, BlockBytes, Flat
  <2> QED BY <2>2 DEF NBytes, Blocks
<1> QED BY <1>1, <1>2, <1>5, <1>6

LEMMA InitIInv == Init => IInv
<1> SUFFICES ASSUME Init PROVE IInv
  OBVIOUS
<1>1. turn \in 0 .. Turns(tensor)
  BY Shape DEF Init
<1> QED BY <1>1 DEF Init, IInv

\* One turn of the conversion: it assigns exactly the elements of its number.
LEMMA ConvertStepIInv ==
  ASSUME IInv, ConvertStep
  PROVE  IInv'
<1> DEFINE t == tensor
           type == tensor.type
           E == 0 .. Count(tensor) - 1
<1>1. /\ t \in Tensors /\ tensor' = tensor /\ place' = place /\ phase' = phase
      /\ kernel' = kernel /\ phase = "converting" /\ turn' = turn + 1
      /\ turn < Turns(t) /\ turn \in Nat /\ Turns(t) \in Nat /\ Count(t) \in Nat
      /\ PartOf(turn) /\ Converts(place, type) /\ type \in Convertible
  <2>1. t \in Tensors /\ turn \in 0 .. Turns(t) /\ type # "other"
    BY DEF IInv, ConvertStep
  <2>2. type \in Convertible
    BY <2>1, Shape DEF Convertible, Types
  <2> QED BY <2>1, <2>2, Shape DEF IInv, ConvertStep
<1>2. Assigned(t, turn) \subseteq E
  BY <1>1, WritesFormat DEF Assigned
<1>3. DOMAIN out = E
  BY <1>1 DEF PartOf
<1>4. out' = [e \in E |-> IF e \in Assigned(t, turn) THEN Writes(type, turn)[e] ELSE out[e]]
  <2>1. DOMAIN out \cup Assigned(t, turn) = E
    BY <1>2, <1>3
  <2> QED BY <2>1 DEF ConvertStep
<1>5. ASSUME NEW e \in E
      PROVE  out'[e] = IF TurnOf(type, e) < turn + 1 THEN Format(type, e) ELSE Zero
  <2>1. e \in Nat /\ TurnOf(type, e) \in Nat
    BY <1>1, WritesAll
  <2>2. CASE e \in Assigned(t, turn)
    <3>1. TurnOf(type, e) = turn /\ Writes(type, turn)[e] = Format(type, e)
      BY <1>1, <2>2, WritesFormat DEF Assigned
    <3> QED BY <1>1, <1>4, <2>2, <3>1
  <2>3. CASE e \notin Assigned(t, turn)
    <3>1. TurnOf(type, e) # turn
      BY <1>1, <2>1, <2>3, WritesAll DEF Assigned
    <3>2. out'[e] = out[e]
      BY <1>4, <2>3
    <3>3. out[e] = IF TurnOf(type, e) < turn THEN Format(type, e) ELSE Zero
      BY <1>1 DEF PartOf
    <3>4. TurnOf(type, e) < turn + 1 <=> TurnOf(type, e) < turn
      BY <1>1, <2>1, <3>1
    <3> QED BY <3>2, <3>3, <3>4
  <2> QED BY <2>2, <2>3
<1>6. DOMAIN out' = E
  BY <1>4
<1>7. PartOf(turn)'
  BY <1>1, <1>5, <1>6 DEF PartOf
<1>8. turn' \in 0 .. Turns(tensor)
  BY <1>1
<1> QED BY <1>1, <1>6, <1>7, <1>8 DEF IInv

LEMMA ConvertIInv ==
  ASSUME IInv, Convert
  PROVE  IInv'
<1> DEFINE E == 0 .. Count(tensor) - 1
<1>1. /\ tensor \in Tensors /\ tensor' = tensor /\ place' = place /\ phase' = "converting"
      /\ kernel' = kernel /\ turn' = turn /\ turn = 0 /\ out' = [e \in E |-> Zero]
      /\ Converts(place, tensor.type) /\ NBytes(tensor) > 0
  BY DEF IInv, Convert
<1>2. tensor.type \in Convertible /\ tensor.type # "other"
  BY <1>1, Shape DEF Convertible, Flat, Quantized
<1>3. ASSUME NEW e \in E
      PROVE  ~(TurnOf(tensor.type, e) < 0)
  <2>1. e \in Nat
    BY <1>1, Shape
  <2>2. TurnOf(tensor.type, e) \in Nat
    BY <1>2, <2>1, WritesAll
  <2> QED BY <2>2
<1>4. PartOf(turn)'
  BY <1>1, <1>3 DEF PartOf
<1> QED BY <1>1, <1>2, <1>4 DEF IInv, PartOf

LEMMA ConvertedIInv ==
  ASSUME IInv, Converted
  PROVE  IInv'
<1>1. /\ tensor \in Tensors /\ PartOf(turn) /\ turn = Turns(tensor)
      /\ Converts(place, tensor.type) /\ tensor.type # "other"
  BY DEF IInv, Converted
<1>2. tensor.type \in Convertible /\ Count(tensor) \in Nat
  BY <1>1, Shape DEF Convertible, Types
<1>3. \A e \in 0 .. Count(tensor) - 1 : out[e] = Format(tensor.type, e)
  BY <1>1, <1>2, TurnsSuffice DEF PartOf
<1>4. Complete
  BY <1>1, <1>3 DEF Complete, PartOf
<1>5. Complete'
  BY <1>4 DEF Converted, Complete
<1> QED BY <1>1, <1>5 DEF IInv, Converted

LEMMA KernelKnown ==
  ASSUME NEW role \in Roles, NEW type \in Types, NEW blocks \in BOOLEAN
  PROVE  /\ PcKernel(role, type, blocks) \in Kernels \cup {"none"}
         /\ role \in {"matrix", "norm"} => PhoneKernel(role, type) \in Kernels \cup {"none"}
  BY DEF Roles, PcKernel, PhoneKernel, Kernels, Q4Kernels, Q6Kernels, HalfKernels

LEMMA UseIInv ==
  ASSUME IInv, Use
  PROVE  IInv'
<1>1. PICK role \in tensor.roles :
        /\ kernel' = KernelFor(role)
        /\ phase' = IF KernelFor(role) = "none" THEN "refused" ELSE "used"
  BY DEF Use
<1>2. /\ tensor \in Tensors /\ Complete
      /\ tensor' = tensor /\ place' = place /\ turn' = turn /\ out' = out
      /\ tensor.type # "other"
  BY DEF Use, IInv
<1>3. role \in Roles /\ tensor.type \in Types
  BY <1>2, Shape
<1>4. KernelFor(role) \in Kernels \cup {"none"}
  <2>1. place = "phone" => role \in {"matrix", "norm"}
    BY DEF IInv
  <2> QED BY <1>3, <2>1, KernelKnown DEF KernelFor
<1>5. KernelFor(role)' = KernelFor(role) /\ Complete'
  BY <1>2 DEF KernelFor, Complete
<1>6. phase' = "used" => \E r \in tensor.roles : KernelFor(r) = KernelFor(role) /\ kernel' # "none"
  BY <1>1
<1>7. /\ phase' \in {"used", "refused"}
      /\ phase' = "used" => kernel' # "none"
  BY <1>1
<1>8. (phase = "used" => \E r \in tensor.roles : kernel = KernelFor(r) /\ kernel # "none")'
  BY <1>1, <1>2, <1>5, <1>7
<1> QED BY <1>1, <1>2, <1>4, <1>5, <1>7, <1>8 DEF IInv

LEMMA NextIInv ==
  ASSUME IInv, [Next]_vars
  PROVE  IInv'
<1>1. CASE OpenRefused
  BY <1>1 DEF OpenRefused, IInv
<1>2. CASE Keep
  <2>1. tensor.type # "other"
    BY <1>2, Shape DEF Keep, IInv, Convertible, Flat, Quantized
  <2>2. out = <<>>
    BY <1>2 DEF Keep, IInv
  <2> QED BY <1>2, <2>1, <2>2 DEF Keep, IInv, Complete
<1>3. CASE LoadRefused
  BY <1>3 DEF LoadRefused, IInv
<1>4. CASE UNCHANGED vars
  BY <1>4 DEF vars, IInv, PartOf, Complete, KernelFor
<1> QED BY <1>1, <1>2, <1>3, <1>4, ConvertIInv, ConvertStepIInv, ConvertedIInv, UseIInv
        DEF Next

\* The invariant holds throughout, for tensors of every shape.
THEOREM Invariant == Spec => []IInv
<1>1. Init => IInv
  BY InitIInv
<1>2. IInv /\ [Next]_vars => IInv'
  BY NextIInv
<1> QED BY <1>1, <1>2, PTL DEF Spec

\* No iteration of the conversion writes past the tensor's end.
THEOREM TypeCorrect == Spec => []TypeOK
<1>1. IInv => TypeOK
  BY DEF IInv, TypeOK
<1> QED BY <1>1, Invariant, PTL

-----------------------------------------------------------------------------
(* What is read. *)

\* Halves that were converted are read by a kernel of halves only.
LEMMA HalvesKernel ==
  ASSUME IInv, phase = "used", out # <<>>
  PROVE  kernel \in HalfKernels
<1>1. PICK role \in tensor.roles : kernel = KernelFor(role) /\ kernel # "none"
  BY DEF IInv
<1>2. tensor \in Tensors /\ Converts(place, tensor.type) /\ role \in Roles /\ tensor.type \in Types
  BY Shape DEF IInv, Complete
<1>3. CASE place = "phone"
  <2>1. tensor.type = "F32" /\ role \in {"matrix", "norm"}
    BY <1>2, <1>3 DEF Converts, IInv
  <2>2. kernel = PhoneKernel(role, "F32")
    BY <1>1, <1>3, <2>1 DEF KernelFor
  <2> QED BY <1>1, <2>1, <2>2 DEF PhoneKernel, HalfKernels
<1>4. CASE place # "phone"
  <2>1. kernel = PcKernel(role, tensor.type, FALSE)
    BY <1>1, <1>4 DEF KernelFor
  <2> QED BY <1>2, <2>1 DEF PcKernel, HalfKernels, Roles
<1> QED BY <1>3, <1>4

\* Kept blocks are read by a kernel of their type; kept halves of an F16
\* tensor on the phone by the shader of norms.
LEMMA BlocksKernel ==
  ASSUME IInv, phase = "used", out = <<>>
  PROVE  \/ tensor.type = "Q4_K" /\ kernel \in Q4Kernels
         \/ tensor.type = "Q6_K" /\ kernel \in Q6Kernels
         \/ tensor.type = "F16" /\ kernel = "rms_norm.comp"
<1>1. PICK role \in tensor.roles : kernel = KernelFor(role) /\ kernel # "none"
  BY DEF IInv
<1>2. tensor \in Tensors /\ role \in Roles /\ tensor.type \in Types /\ tensor.type # "other"
  BY Shape DEF IInv
<1>3. Count(tensor) \in Nat \ {0}
  BY <1>2, Shape
<1>4. KeepsBlocks(place, tensor.type)
  <2>1. DOMAIN out # 0 .. Count(tensor) - 1
    <3>1. 0 \in 0 .. Count(tensor) - 1
      BY <1>3
    <3>2. DOMAIN out = {}
      OBVIOUS
    <3> QED BY <3>1, <3>2
  <2> QED BY <2>1 DEF IInv, Complete
<1>5. CASE place = "phone"
  <2>1. tensor.type \in {"F16", "Q4_K", "Q6_K"} /\ role \in {"matrix", "norm"}
    BY <1>4, <1>5 DEF KeepsBlocks, IInv
  <2>2. kernel = PhoneKernel(role, tensor.type)
    BY <1>1, <1>5 DEF KernelFor
  <2>3. role = "norm" => tensor.type = "F16"
    BY <1>2, <2>1, WeightsAssumption DEF Flat
  <2> QED BY <1>1, <2>1, <2>2, <2>3 DEF PhoneKernel, Q4Kernels, Q6Kernels
<1>6. CASE place # "phone"
  <2>1. tensor.type \notin Flat
    BY <1>4, <1>6 DEF KeepsBlocks
  <2>2. kernel = PcKernel(role, tensor.type, TRUE)
    BY <1>1, <1>6 DEF KernelFor
  <2>3. role # "norm"
    BY <1>2, <2>1, WeightsAssumption
  <2> QED BY <1>1, <1>2, <2>2, <2>3 DEF PcKernel, Q4Kernels, Q6Kernels, Roles
<1> QED BY <1>5, <1>6

\* What a kernel of blocks takes for an element of a tensor of whole rows.
LEMMA ReadBlocks ==
  ASSUME NEW t, t.rows \in Nat \ {0}, t.cols \in Nat \ {0}, t.cols % 256 = 0,
         NEW k, NEW row \in 0 .. t.rows - 1, NEW col \in 0 .. t.cols - 1
  PROVE  /\ k \in Q4Kernels => Read(k, t, row, col) = Format("Q4_K", row * t.cols + col)
         /\ k \in Q6Kernels => Read(k, t, row, col) = Format("Q6_K", row * t.cols + col)
<1> DEFINE e == row * t.cols + col
           b == row * (t.cols \div 256) + col \div 256
           j == col % 256
<1>1. e \div 256 = b /\ e % 256 = j
  BY RowOfBlocks
<1>2. b \in Nat /\ j \in 0 .. 255
  <2>1. e \in Nat
    BY ElementInside
  <2> HIDE DEF e, b, j
  <2> QED BY <1>1, <2>1
<1>3. /\ BlockAt(t, row, col, 144) = 144 * b
      /\ BlockAt(t, row, col, 210) = 210 * b
  <2>1. BlockAt(t, row, col, 144) = b * 144 /\ BlockAt(t, row, col, 210) = b * 210
    BY DEF BlockAt
  <2> HIDE DEF b
  <2> QED BY <1>2, <2>1
<1>4. 144 * b \in Nat /\ 210 * b \in Nat
  <2> HIDE DEF b
  <2> QED BY <1>2
<1>5. Format("Q4_K", e) = Q4Format(144 * b, j) /\ Format("Q6_K", e) = Q6Format(210 * b, j)
  BY <1>1 DEF Format
<1>6. ASSUME k \in Q4Kernels
      PROVE  Read(k, t, row, col) = Q4Format(144 * b, j)
  <2>1. CASE k = "matvec_q4k"
    <3>1. Read(k, t, row, col) = DeviceQ4(144 * b, j)
      BY <1>3, <2>1 DEF Read, Q6Kernels
    <3> QED BY <1>2, <1>4, <3>1, DeviceQ4IsFormat
  <2>2. CASE k = "q4k_matvec.comp"
    <3>1. Read(k, t, row, col) = ShaderQ4(144 * b, j)
      BY <1>3, <2>2 DEF Read, Q6Kernels
    <3> QED BY <1>2, <1>4, <3>1, ShaderQ4IsDevice, DeviceQ4IsFormat
  <2> QED BY <1>6, <2>1, <2>2 DEF Q4Kernels
<1>7. ASSUME k \in Q6Kernels
      PROVE  Read(k, t, row, col) = Q6Format(210 * b, j)
  <2>1. CASE k = "q6k_matvec.comp"
    <3>1. Read(k, t, row, col) = ShaderQ6(210 * b, j)
      BY <1>3, <2>1 DEF Read, Q6Kernels
    <3> QED BY <1>2, <1>4, <3>1, ShaderQ6IsDevice, DeviceQ6IsFormat
  <2>2. CASE k # "q6k_matvec.comp"
    <3>1. Read(k, t, row, col) = DeviceQ6(210 * b, j)
      BY <1>3, <1>7, <2>2 DEF Read, Q6Kernels
    <3> QED BY <1>2, <1>4, <3>1, DeviceQ6IsFormat
  <2> QED BY <2>1, <2>2
<1> QED BY <1>5, <1>6, <1>7

\* A kernel reads every element of every row, as the format has it.
LEMMA ReadIsFormat ==
  ASSUME IInv, phase = "used", WholeRows
  PROVE  /\ RowsOf(kernel, tensor) = 0 .. tensor.rows - 1
         /\ Columns(kernel, tensor) = 0 .. tensor.cols - 1
         /\ \A row \in 0 .. tensor.rows - 1, col \in 0 .. tensor.cols - 1 :
              Read(kernel, tensor, row, col) = Format(tensor.type, row * tensor.cols + col)
<1>1. tensor \in Tensors /\ Complete
  BY DEF IInv
<1>2. /\ tensor.rows \in Nat \ {0} /\ tensor.cols \in Nat \ {0}
      /\ Count(tensor) = tensor.rows * tensor.cols
  BY <1>1, Shape DEF Count
<1>3. CASE out # <<>>
  <2>1. kernel \in HalfKernels
    BY <1>3, HalvesKernel
  <2>2. kernel \notin Q4Kernels \cup Q6Kernels
    BY <2>1 DEF HalfKernels, Q4Kernels, Q6Kernels
  <2>3. ASSUME NEW row \in 0 .. tensor.rows - 1, NEW col \in 0 .. tensor.cols - 1
        PROVE  Read(kernel, tensor, row, col) = Format(tensor.type, row * tensor.cols + col)
    <3> DEFINE e == row * tensor.cols + col
    <3>1. e \in 0 .. Count(tensor) - 1
      BY <1>2, ElementInside
    <3>2. HalfOfWord(e) = e
      <4> HIDE DEF e
      <4> QED BY <1>2, <3>1 DEF HalfOfWord
    <3>3. Read(kernel, tensor, row, col) = StoredHalf(e)
      BY <2>1, <3>2 DEF Read, HalfKernels, Q6Kernels
    <3>4. StoredHalf(e) = out[e]
      BY <1>3 DEF StoredHalf
    <3> QED BY <1>1, <1>3, <3>1, <3>3, <3>4 DEF Complete
  <2> QED BY <1>2, <2>2, <2>3, RowsCovered, ColumnsCovered
<1>4. CASE out = <<>> /\ tensor.type = "F16" /\ kernel = "rms_norm.comp"
  <2>1. ASSUME NEW row \in 0 .. tensor.rows - 1, NEW col \in 0 .. tensor.cols - 1
        PROVE  Read(kernel, tensor, row, col) = Format(tensor.type, row * tensor.cols + col)
    <3> DEFINE e == row * tensor.cols + col
    <3>1. e \in Nat
      BY <1>2, ElementInside
    <3>2. HalfOfWord(e) = e
      <4> HIDE DEF e
      <4> QED BY <3>1 DEF HalfOfWord
    <3>3. Read(kernel, tensor, row, col) = StoredHalf(e)
      BY <1>4, <3>2 DEF Read, Q6Kernels
    <3> QED BY <1>4, <3>3 DEF StoredHalf, Format
  <2>2. kernel \notin Q4Kernels \cup Q6Kernels
    BY <1>4 DEF Q4Kernels, Q6Kernels
  <2> QED BY <1>2, <2>1, <2>2, RowsCovered, ColumnsCovered
<1>5. CASE out = <<>> /\ \/ tensor.type = "Q4_K" /\ kernel \in Q4Kernels
                         \/ tensor.type = "Q6_K" /\ kernel \in Q6Kernels
  <2>1. tensor.cols % 256 = 0
    BY <1>5 DEF WholeRows
  <2>2. ASSUME NEW row \in 0 .. tensor.rows - 1, NEW col \in 0 .. tensor.cols - 1
        PROVE  Read(kernel, tensor, row, col) = Format(tensor.type, row * tensor.cols + col)
    <3>1. /\ kernel \in Q4Kernels =>
               Read(kernel, tensor, row, col) = Format("Q4_K", row * tensor.cols + col)
          /\ kernel \in Q6Kernels =>
               Read(kernel, tensor, row, col) = Format("Q6_K", row * tensor.cols + col)
      BY <1>2, <2>1, ReadBlocks
    <3>2. CASE tensor.type = "Q4_K" /\ kernel \in Q4Kernels
      BY <3>1, <3>2
    <3>3. CASE tensor.type = "Q6_K" /\ kernel \in Q6Kernels
      BY <3>1, <3>3
    <3> QED BY <1>5, <3>2, <3>3
  <2>3. RowsOf(kernel, tensor) = 0 .. tensor.rows - 1
    BY <1>2, RowsCovered
  <2>4. Columns(kernel, tensor) = 0 .. tensor.cols - 1
    BY <1>2, <2>1, ColumnsCovered
  <2> QED BY <2>2, <2>3, <2>4
<1> QED BY <1>3, <1>4, <1>5, BlocksKernel

\* Whatever reads a tensor computes every element from the format's bits.
THEOREM ReadsAgree == Spec => []ReadsTheFormat
<1>1. IInv => ReadsTheFormat
  BY ReadIsFormat DEF ReadsTheFormat
<1> QED BY <1>1, Invariant, PTL

-----------------------------------------------------------------------------
(* Where the bits lie. *)

Fits(field, n) == field.bit >= 0 /\ field.bit + field.width <= n
Inside(code, n) == \A f \in DOMAIN code : Fits(code[f], n)
AllInside(value, n) == \A c \in DOMAIN value : Inside(value[c], n)

LEMMA BitsFit ==
  ASSUME NEW byte \in Nat, NEW from \in 0 .. 8, NEW width \in 0 .. 8, from + width <= 8,
         NEW n \in Nat, byte < n
  PROVE  Fits(Bits(byte, from, width), 8 * n)
<1>1. 8 * byte + from >= 0 /\ (8 * byte + from) + width <= 8 * n
  OBVIOUS
<1>2. Bits(byte, from, width).bit = 8 * byte + from /\ Bits(byte, from, width).width = width
  BY DEF Bits
<1> QED BY <1>1, <1>2 DEF Fits

LEMMA Short ==
  ASSUME NEW n, NEW a, NEW b, Fits(a, n), Fits(b, n)
  PROVE  Inside(<<a>>, n) /\ Inside(<<a, b>>, n)
<1>1. DOMAIN <<a>> = {1} /\ <<a>>[1] = a /\ DOMAIN <<a, b>> = {1, 2} /\ <<a, b>>[1] = a /\ <<a, b>>[2] = b
  OBVIOUS
<1> QED BY <1>1, Zenon DEF Inside

LEMMA Codes ==
  ASSUME NEW n, NEW a, NEW b, NEW c, Inside(a, n), Inside(b, n), Inside(c, n)
  PROVE  /\ AllInside(<<a, b, c>>, n)
         /\ \A d, e : Inside(d, n) /\ Inside(e, n) => AllInside(<<a, b, c, d, e>>, n)
<1>1. AllInside(<<a, b, c>>, n)
  BY DEF AllInside
<1>2. ASSUME NEW d, NEW e, Inside(d, n), Inside(e, n)
      PROVE  AllInside(<<a, b, c, d, e>>, n)
  BY <1>2 DEF AllInside
<1> QED BY <1>1, <1>2

LEMMA Bytes2Fit ==
  ASSUME NEW byte \in Nat, NEW n \in Nat, byte + 1 < n
  PROVE  Inside(Bytes2(byte), 8 * n)
<1>1. Fits(Bits(byte, 0, 8), 8 * n) /\ Fits(Bits(byte + 1, 0, 8), 8 * n)
  BY BitsFit
<1> QED BY <1>1, Short DEF Bytes2

\* A block's bits are the block's own.
LEMMA Q4Inside ==
  ASSUME NEW block \in Nat, NEW j \in 0 .. 255, NEW n \in Nat, block + 144 <= n
  PROVE  AllInside(Q4Format(block, j), 8 * n)
<1> DEFINE s == j \div 32
           p == block + 4
           quant == block + 16 + 32 * (j \div 64) + (j % 32)
           high == 4 * ((j \div 32) % 2)
<1>1. s \in 0 .. 7 /\ p \in Nat /\ quant \in Nat /\ quant < n /\ high \in {0, 4}
  <2>1. j \div 32 \in 0 .. 7 /\ j \div 64 \in 0 .. 3 /\ j % 32 \in 0 .. 31
    OBVIOUS
  <2>2. \A x \in Nat : x % 2 \in {0, 1}
    OBVIOUS
  <2> QED BY <2>1, <2>2
<1>2. Inside(Bytes2(block), 8 * n) /\ Inside(Bytes2(block + 2), 8 * n)
  BY Bytes2Fit
<1>3. Inside(<<Bits(quant, high, 4)>>, 8 * n)
  <2> HIDE DEF quant, high
  <2>1. Fits(Bits(quant, high, 4), 8 * n)
    BY <1>1, BitsFit
  <2> QED BY <2>1, Short
<1>4. Inside(Scale6(s, p), 8 * n) /\ Inside(Min6(s, p), 8 * n)
  <2> HIDE DEF s
  <2>1. CASE s < 4
    <3>1. Fits(Bits(p + s, 0, 6), 8 * n) /\ Fits(Bits(p + 4 + s, 0, 6), 8 * n)
      BY <1>1, <2>1, BitsFit
    <3>2. Scale6(s, p) = <<Bits(p + s, 0, 6)>> /\ Min6(s, p) = <<Bits(p + 4 + s, 0, 6)>>
      BY <2>1 DEF Scale6, Min6
    <3> HIDE DEF p
    <3> QED BY <3>1, <3>2, Short
  <2>2. CASE ~(s < 4)
    <3>1. /\ Fits(Bits(p + 8 + (s - 4), 0, 4), 8 * n) /\ Fits(Bits(p + (s - 4), 6, 2), 8 * n)
          /\ Fits(Bits(p + 8 + (s - 4), 4, 4), 8 * n) /\ Fits(Bits(p + 4 + (s - 4), 6, 2), 8 * n)
      BY <1>1, <2>2, BitsFit
    <3>2. /\ Scale6(s, p) = <<Bits(p + 8 + (s - 4), 0, 4), Bits(p + (s - 4), 6, 2)>>
          /\ Min6(s, p) = <<Bits(p + 8 + (s - 4), 4, 4), Bits(p + 4 + (s - 4), 6, 2)>>
      BY <2>2 DEF Scale6, Min6
    <3> HIDE DEF p
    <3> QED BY <3>1, <3>2, Short
  <2> QED BY <2>1, <2>2
<1>5. Q4Format(block, j) =
        <<Bytes2(block), Scale6(s, p), Bytes2(block + 2), Min6(s, p), <<Bits(quant, high, 4)>>>>
  BY DEF Q4Format
<1> HIDE DEF s, p, quant, high
<1> QED BY <1>2, <1>3, <1>4, <1>5, Codes

LEMMA Q6Inside ==
  ASSUME NEW block \in Nat, NEW j \in 0 .. 255, NEW n \in Nat, block + 210 <= n
  PROVE  AllInside(Q6Format(block, j), 8 * n)
<1> DEFINE scale == block + 192 + j \div 16
           low == block + 64 * (j \div 128) + (j % 64)
           fromLow == 4 * ((j % 128) \div 64)
           high == block + 128 + 32 * (j \div 128) + (j % 32)
           fromHigh == 2 * ((j % 128) \div 32)
<1>1. /\ scale \in Nat /\ scale < n /\ low \in Nat /\ low < n /\ high \in Nat /\ high < n
      /\ fromLow \in {0, 4} /\ fromHigh \in {0, 2, 4, 6}
  <2>1. /\ j \div 16 \in 0 .. 15 /\ j \div 128 \in 0 .. 1 /\ j % 64 \in 0 .. 63 /\ j % 32 \in 0 .. 31
        /\ (j % 128) \div 64 \in 0 .. 1 /\ (j % 128) \div 32 \in 0 .. 3
    OBVIOUS
  <2> QED BY <2>1
<1>2. Inside(Bytes2(block + 208), 8 * n)
  BY Bytes2Fit
<1>3. Q6Format(block, j) =
        <<Bytes2(block + 208), <<Bits(scale, 0, 8)>>, <<Bits(low, fromLow, 4), Bits(high, fromHigh, 2)>>>>
  BY DEF Q6Format
<1> HIDE DEF scale, low, fromLow, high, fromHigh
<1>4. Fits(Bits(scale, 0, 8), 8 * n) /\ Fits(Bits(low, fromLow, 4), 8 * n) /\ Fits(Bits(high, fromHigh, 2), 8 * n)
  BY <1>1, BitsFit
<1>5. /\ Inside(<<Bits(scale, 0, 8)>>, 8 * n)
      /\ Inside(<<Bits(low, fromLow, 4), Bits(high, fromHigh, 2)>>, 8 * n)
  BY <1>4, Short
<1> QED BY <1>2, <1>3, <1>5, Codes

\* The blocks of a tensor are all in the file.
LEMMA FormatInside ==
  ASSUME NEW t \in Tensors, t.type \in {"F16", "Q4_K", "Q6_K"}, NEW e \in 0 .. Count(t) - 1
  PROVE  AllInside(Format(t.type, e), 8 * NBytes(t))
<1>1. Count(t) \in Nat \ {0} /\ t.type \in Types /\ e \in Nat
  BY Shape
<1> DEFINE c == Count(t)
<1>2. CASE t.type = "F16"
  <2>1. BlockSize[t.type] = 1 /\ BlockBytes[t.type] = 2
    BY <1>1, <1>2 DEF BlockSize, BlockBytes, Flat
  <2>2. NBytes(t) = ((c + 1 - 1) \div 1) * 2
    BY <2>1 DEF NBytes, Blocks
  <2>3. NBytes(t) \in Nat /\ 2 * e \in Nat /\ 2 * e + 1 < NBytes(t)
    <3> HIDE DEF c
    <3>1. c \in Nat /\ e < c
      BY <1>1 DEF c
    <3> QED BY <1>1, <2>2, <3>1
  <2>4. Inside(Bytes2(2 * e), 8 * NBytes(t))
    BY <2>3, Bytes2Fit
  <2>5. Format(t.type, e) = <<Bytes2(2 * e)>>
    BY <1>2 DEF Format
  <2>6. \A a : DOMAIN <<a>> = {1} /\ <<a>>[1] = a
    OBVIOUS
  <2> QED BY <2>4, <2>5, <2>6, Zenon DEF AllInside
<1>3. /\ e \div 256 \in Nat /\ e % 256 \in 0 .. 255
      /\ e \div 256 + 1 <= (c + 256 - 1) \div 256 /\ (c + 256 - 1) \div 256 \in Nat
  <2> HIDE DEF c
  <2>1. c \in Nat /\ e < c
    BY <1>1 DEF c
  <2> QED BY <1>1, <2>1
<1>4. CASE t.type = "Q4_K"
  <2>1. BlockSize[t.type] = 256 /\ BlockBytes[t.type] = 144
    BY <1>1, <1>4 DEF BlockSize, BlockBytes, Flat
  <2>2. NBytes(t) = ((c + 256 - 1) \div 256) * 144
    BY <2>1 DEF NBytes, Blocks
  <2>3. \A x \in Nat, y \in Nat : x + 1 <= y => 144 * x + 144 <= y * 144 /\ 144 * x \in Nat /\ y * 144 \in Nat
    OBVIOUS
  <2>4. NBytes(t) \in Nat /\ 144 * (e \div 256) \in Nat /\ 144 * (e \div 256) + 144 <= NBytes(t)
    BY <1>3, <2>2, <2>3
  <2>5. Format(t.type, e) = Q4Format(144 * (e \div 256), e % 256)
    BY <1>4 DEF Format
  <2> QED BY <1>3, <2>4, <2>5, Q4Inside
<1>5. CASE t.type = "Q6_K"
  <2>1. BlockSize[t.type] = 256 /\ BlockBytes[t.type] = 210
    BY <1>1, <1>5 DEF BlockSize, BlockBytes, Flat
  <2>2. NBytes(t) = ((c + 256 - 1) \div 256) * 210
    BY <2>1 DEF NBytes, Blocks
  <2>3. \A x \in Nat, y \in Nat : x + 1 <= y => 210 * x + 210 <= y * 210 /\ 210 * x \in Nat /\ y * 210 \in Nat
    OBVIOUS
  <2>4. NBytes(t) \in Nat /\ 210 * (e \div 256) \in Nat /\ 210 * (e \div 256) + 210 <= NBytes(t)
    BY <1>3, <2>2, <2>3
  <2>5. Format(t.type, e) = Q6Format(210 * (e \div 256), e % 256)
    BY <1>5 DEF Format
  <2> QED BY <1>3, <2>4, <2>5, Q6Inside
<1> QED BY <1>2, <1>4, <1>5

\* What a kernel takes from kept bytes lies inside them, in a tensor of any size.
THEOREM NothingReadOutside == Spec => []ReadsInside
<1>1. ASSUME IInv, phase = "used", out = <<>>, WholeRows,
             NEW row \in RowsOf(kernel, tensor), NEW col \in Columns(kernel, tensor)
      PROVE  AllInside(Read(kernel, tensor, row, col), 8 * NBytes(tensor))
  <2> DEFINE e == row * tensor.cols + col
  <2>1. tensor \in Tensors
    BY <1>1 DEF IInv
  <2>2. /\ tensor.rows \in Nat \ {0} /\ tensor.cols \in Nat \ {0}
        /\ Count(tensor) = tensor.rows * tensor.cols
    BY <2>1, Shape DEF Count
  <2>3. row \in 0 .. tensor.rows - 1 /\ col \in 0 .. tensor.cols - 1
    BY <1>1, ReadIsFormat
  <2>4. Read(kernel, tensor, row, col) = Format(tensor.type, e)
    BY <1>1, <2>3, ReadIsFormat
  <2>5. e \in 0 .. Count(tensor) - 1
    BY <2>2, <2>3, ElementInside
  <2>6. tensor.type \in {"F16", "Q4_K", "Q6_K"}
    BY <1>1, BlocksKernel
  <2> HIDE DEF e
  <2> QED BY <2>1, <2>4, <2>5, <2>6, FormatInside
<1>2. IInv => ReadsInside
  BY <1>1, Zenon DEF ReadsInside, AllInside, Inside, Fits
<1> QED BY <1>2, Invariant, PTL

-----------------------------------------------------------------------------
(* What is promised. *)

LEMMA Sized ==
  ASSUME NEW t \in Tensors, t.type # "other"
  PROVE  NBytes(t) > 0
<1>1. Count(t) \in Nat \ {0} /\ t.type \in Types
  BY Shape
<1>2. BlockSize[t.type] \in {1, 32, 256} /\ BlockBytes[t.type] \in {2, 4, 34, 144, 210}
  BY <1>1 DEF BlockSize, BlockBytes, Types, Flat, Quantized
<1>3. Blocks(t) = (Count(t) + BlockSize[t.type] - 1) \div BlockSize[t.type]
  BY <1>2 DEF Blocks
<1> DEFINE c == Count(t)
<1>4. Blocks(t) \in Nat \ {0}
  <2>1. \A n \in Nat \ {0} : /\ (n + 1 - 1) \div 1 \in Nat \ {0} /\ (n + 32 - 1) \div 32 \in Nat \ {0}
                              /\ (n + 256 - 1) \div 256 \in Nat \ {0}
    OBVIOUS
  <2> QED BY <1>1, <1>2, <1>3, <2>1
<1> QED BY <1>2, <1>4 DEF NBytes

\* At its use: a kernel exists wherever one is promised, Q4_K tables apart.
LEMMA PromisedKernel ==
  ASSUME IInv, phase \in {"stored", "used"}, NEW role \in tensor.roles, Promised, ~Q4Table
  PROVE  KernelFor(role) # "none"
<1>1. tensor \in Tensors /\ Complete /\ place \in AllPlaces
  BY WeightsAssumption DEF IInv
<1>2. role \in Roles /\ Count(tensor) \in Nat \ {0} /\ tensor.type \in Types
  BY <1>1, Shape
<1>3. out = <<>> => KeepsBlocks(place, tensor.type)
  <2>1. <<>> # [e \in 0 .. Count(tensor) - 1 |-> 0] /\ DOMAIN <<>> = {} /\ 0 \in 0 .. Count(tensor) - 1
    BY <1>2
  <2> QED BY <1>1, <2>1 DEF Complete
<1>4. CASE place = "fp16"
  <2>1. out # <<>>
    BY <1>3, <1>4 DEF KeepsBlocks
  <2>2. KernelFor(role) = PcKernel(role, tensor.type, FALSE)
    BY <1>4, <2>1 DEF KernelFor
  <2> QED BY <1>2, <2>2 DEF PcKernel, Roles
<1>5. CASE place = "quantized"
  <2>1. CASE out # <<>>
    <3>1. KernelFor(role) = PcKernel(role, tensor.type, FALSE)
      BY <1>5, <2>1 DEF KernelFor
    <3> QED BY <1>2, <3>1 DEF PcKernel, Roles
  <2>2. CASE out = <<>>
    <3>1. tensor.type \notin Flat
      BY <1>3, <1>5, <2>2 DEF KeepsBlocks
    <3>2. tensor.type = "Q6_K" \/ (tensor.type = "Q4_K" /\ role \in {"matrix", "norm"})
      BY <1>2, <1>5, <3>1 DEF Promised, Q4Table, Roles
    <3>3. KernelFor(role) = PcKernel(role, tensor.type, TRUE)
      BY <1>5, <2>2 DEF KernelFor
    <3> QED BY <1>2, <3>2, <3>3 DEF PcKernel, Roles
  <2> QED BY <2>1, <2>2
<1>6. CASE place = "phone"
  <2>1. role \in {"matrix", "norm"}
    BY <1>6 DEF IInv
  <2>2. role = "matrix" => tensor.type \in {"Q4_K", "Q6_K"}
    BY <1>6 DEF Promised
  <2>3. KernelFor(role) = PhoneKernel(role, tensor.type)
    BY <1>6 DEF KernelFor
  <2> QED BY <2>1, <2>2, <2>3 DEF PhoneKernel
<1> QED BY <1>1, <1>4, <1>5, <1>6 DEF AllPlaces

\* A Q4_K table was at most read as a matrix of blocks.
LEMMA Q4TableUnread ==
  ASSUME IInv, Q4Table, phase = "used"
  PROVE  kernel = "matvec_q4k"
<1>1. PICK role \in tensor.roles : kernel = KernelFor(role) /\ kernel # "none"
  BY DEF IInv
<1>2. tensor \in Tensors /\ place = "quantized" /\ tensor.type = "Q4_K" /\ Complete
  BY DEF IInv, Q4Table
<1>3. role \in Roles /\ role # "norm"
  BY <1>2, Shape, WeightsAssumption DEF Flat
<1>4. out = <<>>
  BY <1>2 DEF Complete, Converts, Flat
<1>5. kernel = PcKernel(role, "Q4_K", TRUE)
  BY <1>1, <1>2, <1>4 DEF KernelFor
<1> QED BY <1>1, <1>3, <1>5 DEF PcKernel, Roles

\* Of all that the table of supported models promises only tables in Q4_K blocks
\* are refused, at opening, at loading or at any use, and no kernel reads those
\* but as matrices.
THEOREM PromisesEndAtQ4Tables == Spec => []OnlyQ4TablesRefused
<1> DEFINE Kept == Promised /\ ~Q4Table => phase # "refused"
<1>1. Init => Kept
  BY DEF Init
<1>2. ASSUME IInv, Kept, [Next]_vars
      PROVE  Kept'
  <2> SUFFICES ASSUME Promised, ~Q4Table, phase' = "refused", UNCHANGED <<tensor, place>>
               PROVE  FALSE
    <3>1. UNCHANGED <<tensor, place>>
      BY <1>2 DEF Next, OpenRefused, Keep, Convert, LoadRefused, ConvertStep, Converted, Use, vars
    <3>2. Promised' = Promised /\ Q4Table' = Q4Table
      BY <3>1, Zenon DEF Promised, Q4Table
    <3> QED BY <3>1, <3>2
  <2>1. phase # "refused"
    BY <1>2
  <2>2. tensor \in Tensors /\ place \in AllPlaces
    BY <1>2, WeightsAssumption DEF IInv
  <2>3. place = "phone" => \E role \in {"matrix", "norm"} : role \in tensor.roles
    BY <1>2, <2>2, WeightsAssumption DEF IInv
  <2>4. tensor.type # "other" /\ (Converts(place, tensor.type) \/ KeepsBlocks(place, tensor.type))
    BY <2>2, <2>3 DEF Promised, AllPlaces, Flat, Quantized, Converts, KeepsBlocks
  <2>5. ~OpenRefused /\ ~LoadRefused
    BY <2>2, <2>4, Sized DEF OpenRefused, LoadRefused
  <2>6. ~Use
    BY <1>2, PromisedKernel DEF Use
  <2> QED BY <1>2, <2>1, <2>5, <2>6 DEF Next, Keep, Convert, ConvertStep, Converted, vars
<1>3. IInv /\ Kept => OnlyQ4TablesRefused
  BY Q4TableUnread DEF OnlyQ4TablesRefused
<1>4. IInv /\ Kept /\ [Next]_vars => Kept'
  BY <1>2
<1> QED BY <1>1, <1>3, <1>4, Invariant, PTL DEF Spec

\* The conversion's iterations do not overlap.
THEOREM NoElementTwice == Spec => AssignedOnce
<1>1. ASSUME IInv, [Next]_vars, phase = "converting",
             NEW e \in DOMAIN out, out[e] # Zero, turn' # turn
      PROVE  e \notin Assigned(tensor, turn)
  <2>1. tensor \in Tensors /\ PartOf(turn) /\ tensor.type # "other" /\ turn \in Nat
    BY <1>1, Shape DEF IInv
  <2>2. tensor.type \in Convertible
    BY <2>1, Shape DEF Convertible, Types
  <2>3. TurnOf(tensor.type, e) < turn
    BY <1>1, <2>1 DEF PartOf
  <2> QED BY <2>1, <2>2, <2>3, WritesFormat DEF Assigned
<1>2. IInv /\ [Next]_vars =>
        [phase = "converting" =>
           \A e \in DOMAIN out : out[e] # Zero => turn' = turn \/ e \notin Assigned(tensor, turn)]_vars
  BY <1>1
<1> QED BY <1>2, Invariant, PTL DEF Spec, AssignedOnce

=============================================================================
