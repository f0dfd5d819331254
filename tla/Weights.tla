------------------------------ MODULE Weights ------------------------------
(***************************************************************************)
(* The way of one weight tensor from the GGUF file to the arithmetic that  *)
(* reads it.  WeightLoader converts it to halves or keeps its quantized    *)
(* blocks, RemoteClient::upload_layer sends it to the phone, and a CUDA    *)
(* kernel or a Vulkan shader, chosen by the tensor's use and storage,      *)
(* takes every element out of what was stored.  Converter, kernels and     *)
(* shaders each unpack the same block layouts with index arithmetic of     *)
(* their own.                                                              *)
(*                                                                         *)
(* A value is the list of codes it is computed from; a code is a sequence  *)
(* of bit fields of the file, low bits first.  What the arithmetic does    *)
(* with the codes (scaling, offset, rounding to half) is left out.         *)
(***************************************************************************)
EXTENDS Integers, Sequences

CONSTANTS Tensors,   \* the tensors considered: [type, rows, cols, roles]
          Places     \* how the PC runs: a subset of AllPlaces

\* "fp16" and "quantized" are the two load policies of the PC; "phone" is a
\* tensor of an offloaded layer.
AllPlaces == {"fp16", "quantized", "phone"}

Flat == {"F32", "F16", "BF16"}
\* The types with a block size of their own; "other" stands for every other.
Quantized == {"Q8_0", "Q4_K", "Q6_K"}
Types == Flat \cup Quantized \cup {"other"}

Roles == {"matrix", "embedding", "output", "norm"}

\* The last conjunct is what files made by the usual converters satisfy: the
\* code never looks at the storage of a norm before it reads it as halves.
ASSUME WeightsAssumption ==
  /\ Places \subseteq AllPlaces
  /\ Tensors \subseteq [type : Types, rows : Nat \ {0}, cols : Nat \ {0},
                        roles : (SUBSET Roles) \ {{}}]
  /\ \A t \in Tensors : "norm" \in t.roles => t.type \in Flat \cup {"other"}

VARIABLES tensor,    \* the tensor at hand, as the file describes it
          place,     \* where it is needed
          phase,     \* "file", "converting", "stored", "used" or "refused"
          turn,      \* iterations of the innermost conversion loop done
          out,       \* the vector of halves the conversion fills
          kernel     \* what reads the tensor, "none" before its first use

vars == <<tensor, place, phase, turn, out, kernel>>

-----------------------------------------------------------------------------
(* Block sizes. *)

BlockSize == [type \in Types |->
                CASE type \in Flat -> 1
                  [] type = "Q8_0" -> 32
                  [] type \in {"Q4_K", "Q6_K"} -> 256
                  [] OTHER -> 0]

BlockBytes == [type \in Types |->
                 CASE type = "F32" -> 4
                   [] type \in {"F16", "BF16"} -> 2
                   [] type = "Q8_0" -> 34
                   [] type = "Q4_K" -> 144
                   [] type = "Q6_K" -> 210
                   [] OTHER -> 0]

Count(t) == t.rows * t.cols

Blocks(t) == IF BlockSize[t.type] = 0 THEN 0
             ELSE (Count(t) + BlockSize[t.type] - 1) \div BlockSize[t.type]

NBytes(t) == Blocks(t) * BlockBytes[t.type]

-----------------------------------------------------------------------------
(* Bit fields of the file. *)

Bits(byte, from, width) == [bit |-> 8 * byte + from, width |-> width]

Bytes2(byte) == <<Bits(byte, 0, 8), Bits(byte + 1, 0, 8)>>

Bytes4(byte) == Bytes2(byte) \o Bytes2(byte + 2)

Zero == <<>>

-----------------------------------------------------------------------------
(* The converter.  Each Writes operator is one iteration of the innermost  *)
(* loop of a dequant function: the elements it assigns and their values.   *)

\* Wrong on purpose: both high parts taken from the scales' bytes.
ScaleMinOneSource(j, q) ==
  IF j < 4
  THEN [scale |-> <<Bits(q + j, 0, 6)>>, min |-> <<Bits(q + j + 4, 0, 6)>>]
  ELSE [scale |-> <<Bits(q + j + 4, 0, 4), Bits(q + j - 4, 6, 2)>>,
        min   |-> <<Bits(q + j + 4, 4, 4), Bits(q + j - 4, 6, 2)>>]

ScaleMin(j, q) ==
  IF j < 4
  THEN [scale |-> <<Bits(q + j, 0, 6)>>, min |-> <<Bits(q + j + 4, 0, 6)>>]
  ELSE [scale |-> <<Bits(q + j + 4, 0, 4), Bits(q + j - 4, 6, 2)>>,
        min   |-> <<Bits(q + j + 4, 4, 4), Bits(q + j, 6, 2)>>]

Q8Writes(n) ==
  LET b == n \div 32
  IN [index \in {n} |-> <<Bytes2(34 * b), <<Bits(34 * b + 2 + (n % 32), 0, 8)>>>>]

Q4Writes(n) ==
  LET b     == n \div 128
      super == (n \div 32) % 4
      i     == n % 32
      block == 144 * b
      q     == block + 16 + super * 32 + i
      low   == b * 256 + super * 64 + i
      lo    == ScaleMin(super * 2, block + 4)
      hi    == ScaleMin(super * 2 + 1, block + 4)
  IN [index \in {low, low + 32} |->
        IF index = low
        THEN <<Bytes2(block), lo.scale, Bytes2(block + 2), lo.min, <<Bits(q, 0, 4)>>>>
        ELSE <<Bytes2(block), hi.scale, Bytes2(block + 2), hi.min, <<Bits(q, 4, 4)>>>>]

Q6Writes(n) ==
  LET b     == n \div 64
      half  == (n \div 32) % 2
      i     == n % 32
      block == 210 * b
      ql    == block + half * 64 + i
      qh    == block + 128 + half * 32 + i
      sc    == block + 192 + half * 8 + i \div 16
      first == b * 256 + half * 128 + i
  IN [index \in {first, first + 32, first + 64, first + 96} |->
        LET k == (index - first) \div 32
        IN <<Bytes2(block + 208), <<Bits(sc + 2 * k, 0, 8)>>,
             <<Bits(ql + 32 * (k % 2), 4 * (k \div 2), 4), Bits(qh, 2 * k, 2)>>>>]

Writes(type, n) ==
  CASE type = "F32" -> [index \in {n} |-> <<Bytes4(4 * n)>>]
    [] type \in {"F16", "BF16"} -> [index \in {n} |-> <<Bytes2(2 * n)>>]
    [] type = "Q8_0" -> Q8Writes(n)
    [] type = "Q4_K" -> Q4Writes(n)
    [] type = "Q6_K" -> Q6Writes(n)

\* Iterations of the innermost loop per block.
TurnsPerBlock == [type \in Types |->
                    CASE type \in Flat -> 1
                      [] type = "Q8_0" -> 32
                      [] type = "Q4_K" -> 128
                      [] type = "Q6_K" -> 64
                      [] OTHER -> 0]

Turns(t) == Blocks(t) * TurnsPerBlock[t.type]

-----------------------------------------------------------------------------
(* The CUDA kernels, which address bytes, row by row. *)

DeviceScaleMin(j, scales) ==
  IF j < 4
  THEN [scale |-> <<Bits(scales + j, 0, 6)>>, min |-> <<Bits(scales + j + 4, 0, 6)>>]
  ELSE [scale |-> <<Bits(scales + j + 4, 0, 4), Bits(scales + j - 4, 6, 2)>>,
        min   |-> <<Bits(scales + j + 4, 4, 4), Bits(scales + j, 6, 2)>>]

\* What thread tid takes out of a Q4_K block.
DeviceQ4(block, tid) ==
  LET super  == tid \div 64
      offset == tid % 64
      high   == offset >= 32
      sm     == DeviceScaleMin(super * 2 + (IF high THEN 1 ELSE 0), block + 4)
      packed == block + 16 + super * 32 + (offset % 32)
  IN <<Bytes2(block), sm.scale, Bytes2(block + 2), sm.min,
       <<Bits(packed, IF high THEN 4 ELSE 0, 4)>>>>

DeviceQ6(block, index) ==
  LET half == index \div 128
      part == (index % 128) \div 32
      i    == (index % 128) % 32
  IN <<Bytes2(block + 208),
       <<Bits(block + 192 + half * 8 + i \div 16 + part * 2, 0, 8)>>,
       <<Bits(block + half * 64 + (part % 2) * 32 + i, IF part < 2 THEN 0 ELSE 4, 4),
         Bits(block + 128 + half * 32 + i, part * 2, 2)>>>>

-----------------------------------------------------------------------------
(* The Vulkan shaders, which address 32-bit words. *)

\* load_byte, with the bits of it that the caller keeps.
WordBits(byte, from, width) ==
  [bit |-> 32 * (byte \div 4) + 8 * (byte % 4) + from, width |-> width]

WordBytes2(byte) == <<WordBits(byte, 0, 8), WordBits(byte + 1, 0, 8)>>

ShaderScaleMin(index, scales) ==
  IF index < 4
  THEN [scale |-> <<WordBits(scales + index, 0, 6)>>,
        min   |-> <<WordBits(scales + index + 4, 0, 6)>>]
  ELSE [scale |-> <<WordBits(scales + index + 4, 0, 4), WordBits(scales + index - 4, 6, 2)>>,
        min   |-> <<WordBits(scales + index + 4, 4, 4), WordBits(scales + index, 6, 2)>>]

ShaderQ4(block, tid) ==
  LET group  == tid \div 64
      offset == tid % 64
      high   == offset >= 32
      sm     == ShaderScaleMin(group * 2 + (IF high THEN 1 ELSE 0), block + 4)
      packed == block + 16 + group * 32 + (offset % 32)
  IN <<WordBytes2(block), sm.scale, WordBytes2(block + 2), sm.min,
       <<WordBits(packed, IF high THEN 4 ELSE 0, 4)>>>>

ShaderQ6(block, index) ==
  LET half == index \div 128
      part == (index % 128) \div 32
      item == (index % 128) % 32
  IN <<WordBytes2(block + 208),
       <<WordBits(block + 192 + half * 8 + item \div 16 + part * 2, 0, 8)>>,
       <<WordBits(block + half * 64 + (part % 2) * 32 + item, IF part < 2 THEN 0 ELSE 4, 4),
         WordBits(block + 128 + half * 32 + item, part * 2, 2)>>>>

\* One half out of a pair of them in a word: the index of the half read.
HalfOfWord(index) == 2 * (index \div 2) + (index % 2)

-----------------------------------------------------------------------------
(* What each kernel reads. *)

Q4Kernels == {"matvec_q4k", "q4k_matvec.comp"}
Q6Kernels == {"matvec_q6k", "matvec_q6k_to_float", "embed_q6k", "q6k_matvec.comp"}
HalfKernels == {"matvec_fp16", "matvec_fp16_to_float", "embed", "rms_norm", "rms_norm.comp"}

\* Columns that some thread handles: a matvec of blocks takes whole blocks
\* only, every other kernel strides over all columns.
Columns(k, t) ==
  IF k \in (Q4Kernels \cup Q6Kernels) \ {"embed_q6k"}
  THEN {256 * b + tid : b \in 0 .. t.cols \div 256 - 1, tid \in 0 .. 255}
  ELSE 0 .. t.cols - 1

\* Rows that some workgroup handles; a shader's workgroup takes two of them.
RowsOf(k, t) ==
  IF k \in {"q4k_matvec.comp", "q6k_matvec.comp"}
  THEN {2 * g + r : g \in 0 .. (t.rows + 1) \div 2 - 1, r \in 0 .. 1} \cap 0 .. t.rows - 1
  ELSE 0 .. t.rows - 1

\* Wrong on purpose: a row's start counted in elements instead of blocks.
BlockAtElement(t, row, col, bytes) == (row * t.cols + col \div 256) * bytes

BlockAt(t, row, col, bytes) == (row * (t.cols \div 256) + col \div 256) * bytes

\* The halves in memory: converted ones, or the file's own for an F16 tensor
\* that the phone got as it is.
StoredHalf(e) == IF out # <<>> THEN out[e] ELSE <<Bytes2(2 * e)>>

Read(k, t, row, col) ==
  CASE k = "matvec_q4k" -> DeviceQ4(BlockAt(t, row, col, 144), col % 256)
    [] k = "q4k_matvec.comp" -> ShaderQ4(BlockAt(t, row, col, 144), col % 256)
    [] k = "q6k_matvec.comp" -> ShaderQ6(BlockAt(t, row, col, 210), col % 256)
    [] k \in Q6Kernels \ {"q6k_matvec.comp"} ->
         DeviceQ6(BlockAt(t, row, col, 210), col % 256)
    [] k = "rms_norm.comp" -> StoredHalf(HalfOfWord(row * t.cols + col))
    [] OTHER -> StoredHalf(row * t.cols + col)

-----------------------------------------------------------------------------
(* Loading. *)

\* WeightLoader keeps the blocks of a quantized type under KeepQuantized.  The
\* phone gets everything but F32, which is converted, as it is in the file.
KeepsBlocks(p, type) ==
  \/ p = "quantized" /\ type \notin Flat
  \/ p = "phone" /\ type \in {"F16", "Q4_K", "Q6_K"}

\* Wrong on purpose: the quantized policy without its fall back to halves.
ConvertsByPolicy(p, type) ==
  \/ p = "fp16" /\ type # "other"
  \/ p = "phone" /\ type = "F32"

Converts(p, type) ==
  \/ p = "fp16" /\ type # "other"
  \/ p = "quantized" /\ type \in Flat
  \/ p = "phone" /\ type = "F32"

Init == /\ tensor \in Tensors
        /\ place \in Places
        /\ place = "phone" => tensor.roles \subseteq {"matrix", "norm"}
        /\ phase = "file"
        /\ turn = 0
        /\ out = <<>>
        /\ kernel = "none"

\* GgufFile::load refuses a file with a type whose size it does not know.
OpenRefused == /\ phase = "file"
               /\ NBytes(tensor) = 0
               /\ phase' = "refused"
               /\ UNCHANGED <<tensor, place, turn, out, kernel>>

Keep == /\ phase = "file"
        /\ NBytes(tensor) > 0
        /\ KeepsBlocks(place, tensor.type)
        /\ phase' = "stored"
        /\ UNCHANGED <<tensor, place, turn, out, kernel>>

Convert == /\ phase = "file"
           /\ NBytes(tensor) > 0
           /\ ~KeepsBlocks(place, tensor.type)
           /\ Converts(place, tensor.type)
           /\ phase' = "converting"
           /\ out' = [e \in 0 .. Count(tensor) - 1 |-> Zero]
           /\ UNCHANGED <<tensor, place, turn, kernel>>

LoadRefused == /\ phase = "file"
               /\ NBytes(tensor) > 0
               /\ ~KeepsBlocks(place, tensor.type)
               /\ ~Converts(place, tensor.type)
               /\ phase' = "refused"
               /\ UNCHANGED <<tensor, place, turn, out, kernel>>

\* Wrong on purpose: the index check left out.
AssignedUnchecked(t, n) == DOMAIN Writes(t.type, n)

\* Elements that iteration n of the conversion assigns: the last block may
\* reach past the tensor's end.
Assigned(t, n) == {index \in DOMAIN Writes(t.type, n) : index < Count(t)}

ConvertStep ==
  /\ phase = "converting"
  /\ turn < Turns(tensor)
  /\ out' = [e \in DOMAIN out \cup Assigned(tensor, turn) |->
               IF e \in Assigned(tensor, turn) THEN Writes(tensor.type, turn)[e] ELSE out[e]]
  /\ turn' = turn + 1
  /\ UNCHANGED <<tensor, place, phase, kernel>>

Converted == /\ phase = "converting"
             /\ turn = Turns(tensor)
             /\ phase' = "stored"
             /\ UNCHANGED <<tensor, place, turn, out, kernel>>

-----------------------------------------------------------------------------
(* Use.  The kernel is chosen anew at every use of the tensor. *)

PcKernel(role, type, blocks) ==
  CASE role = "matrix" /\ blocks -> IF type = "Q4_K" THEN "matvec_q4k"
                                    ELSE IF type = "Q6_K" THEN "matvec_q6k" ELSE "none"
    [] role = "matrix" /\ ~blocks -> "matvec_fp16"
    [] role = "embedding" /\ blocks -> IF type = "Q6_K" THEN "embed_q6k" ELSE "none"
    [] role = "embedding" /\ ~blocks -> "embed"
    [] role = "output" /\ blocks -> IF type = "Q6_K" THEN "matvec_q6k_to_float" ELSE "none"
    [] role = "output" /\ ~blocks -> "matvec_fp16_to_float"
    [] role = "norm" -> "rms_norm"

PhoneKernel(role, type) ==
  CASE role = "matrix" -> IF type = "Q4_K" THEN "q4k_matvec.comp"
                          ELSE IF type = "Q6_K" THEN "q6k_matvec.comp" ELSE "none"
    [] role = "norm" -> "rms_norm.comp"

\* out is empty exactly when the file's bytes were kept.
KernelFor(role) == IF place = "phone" THEN PhoneKernel(role, tensor.type)
                   ELSE PcKernel(role, tensor.type, out = <<>>)

Use == /\ phase \in {"stored", "used"}
       /\ \E role \in tensor.roles :
            /\ kernel' = KernelFor(role)
            /\ phase' = IF KernelFor(role) = "none" THEN "refused" ELSE "used"
       /\ UNCHANGED <<tensor, place, turn, out>>

Next == \/ OpenRefused \/ Keep \/ Convert \/ LoadRefused
        \/ ConvertStep \/ Converted \/ Use

Spec == Init /\ [][Next]_vars

-----------------------------------------------------------------------------
(* The block layouts, element by element, as the format's users know them: *)
(* the sub-block of an element, its scale and minimum, its quant.          *)

Scale6(s, p) == IF s < 4 THEN <<Bits(p + s, 0, 6)>>
                ELSE <<Bits(p + 8 + (s - 4), 0, 4), Bits(p + (s - 4), 6, 2)>>

Min6(s, p) == IF s < 4 THEN <<Bits(p + 4 + s, 0, 6)>>
              ELSE <<Bits(p + 8 + (s - 4), 4, 4), Bits(p + 4 + (s - 4), 6, 2)>>

Q4Format(block, j) ==
  <<Bytes2(block), Scale6(j \div 32, block + 4),
    Bytes2(block + 2), Min6(j \div 32, block + 4),
    <<Bits(block + 16 + 32 * (j \div 64) + (j % 32), 4 * ((j \div 32) % 2), 4)>>>>

Q6Format(block, j) ==
  <<Bytes2(block + 208), <<Bits(block + 192 + j \div 16, 0, 8)>>,
    <<Bits(block + 64 * (j \div 128) + (j % 64), 4 * ((j % 128) \div 64), 4),
      Bits(block + 128 + 32 * (j \div 128) + (j % 32), 2 * ((j % 128) \div 32), 2)>>>>

Format(type, e) ==
  CASE type = "F32" -> <<Bytes4(4 * e)>>
    [] type \in {"F16", "BF16"} -> <<Bytes2(2 * e)>>
    [] type = "Q8_0" -> <<Bytes2(34 * (e \div 32)),
                          <<Bits(34 * (e \div 32) + 2 + (e % 32), 0, 8)>>>>
    [] type = "Q4_K" -> Q4Format(144 * (e \div 256), e % 256)
    [] type = "Q6_K" -> Q6Format(210 * (e \div 256), e % 256)

-----------------------------------------------------------------------------
(* Properties. *)

Kernels == Q4Kernels \cup Q6Kernels \cup HalfKernels

\* The conversion's vector keeps one entry per element of the tensor: no
\* iteration writes past its end (weight_loader.cpp, the index checks).
TypeOK == /\ tensor \in Tensors
          /\ place \in Places
          /\ phase \in {"file", "converting", "stored", "used", "refused"}
          /\ turn \in 0 .. Turns(tensor)
          /\ kernel \in Kernels \cup {"none"}
          /\ out = <<>> \/ DOMAIN out = 0 .. Count(tensor) - 1

\* The kernels of quantized blocks count on rows of whole blocks.
WholeRows == out = <<>> /\ tensor.type \in {"Q4_K", "Q6_K"} => tensor.cols % 256 = 0

\* Whatever reads a tensor, every element of every row is read, and its value
\* is computed from the bits that the format gives that element: converter,
\* kernels and shaders unpack the blocks alike, and the conversion left no
\* element at its initial zero.
ReadsTheFormat ==
  phase = "used" /\ WholeRows =>
    /\ RowsOf(kernel, tensor) = 0 .. tensor.rows - 1
    /\ Columns(kernel, tensor) = 0 .. tensor.cols - 1
    /\ \A row \in 0 .. tensor.rows - 1, col \in 0 .. tensor.cols - 1 :
         Read(kernel, tensor, row, col) = Format(tensor.type, row * tensor.cols + col)

\* No kernel takes a bit from outside the bytes that were kept for the tensor.
ReadsInside ==
  phase = "used" /\ out = <<>> /\ WholeRows =>
    \A row \in RowsOf(kernel, tensor), col \in Columns(kernel, tensor) :
      LET value == Read(kernel, tensor, row, col)
      IN \A c \in DOMAIN value : \A f \in DOMAIN value[c] :
           /\ value[c][f].bit >= 0
           /\ value[c][f].bit + value[c][f].width <= 8 * NBytes(tensor)

\* An element that the conversion has assigned is not assigned again: the
\* iterations of the nested loops cover the vector without overlap.
AssignedOnce ==
  [][phase = "converting" =>
       \A e \in DOMAIN out : out[e] # Zero => turn' = turn \/ e \notin Assigned(tensor, turn)]_vars

\* What the table of supported models (README.md:343-349) says of the types of
\* tensors: Q4_K_M and Q6_K models run on the PC with and without --quantized,
\* the flat types fall back to halves, Q8_0 runs without --quantized only.  Of a
\* layer that is offloaded, the matrices of Q4_K_M and Q6_K models and norms.
Promised ==
  CASE place = "fp16" -> tensor.type \in Flat \cup Quantized
    [] place = "quantized" -> tensor.type \in Flat \cup {"Q4_K", "Q6_K"}
    [] place = "phone" ->
         /\ "matrix" \in tensor.roles => tensor.type \in {"Q4_K", "Q6_K"}
         /\ "norm" \in tensor.roles => tensor.type \in {"F32", "F16"}

\* What the table promises runs: a tensor of a listed type is refused neither
\* when the file is opened nor when it is loaded nor at its first use, which is
\* where the kernels are chosen (qwen_model.cpp:256-263, 385-404).
PromisedRuns == Promised => phase # "refused"

\* A table of rows kept in Q4_K blocks, as the embedding of a Q4_K_M model is
\* that has an output matrix of its own.
Q4Table ==
  /\ place = "quantized" /\ tensor.type = "Q4_K"
  /\ tensor.roles \cap {"embedding", "output"} # {}

\* Where the promise ends, on both sides: of all that is promised only tables
\* in Q4_K blocks are ever refused, and those never reach a kernel, so that no
\* token is computed with one (qwen_model.cpp:256-263, 385-404,
\* linear_backend.cpp:29-47).
OnlyQ4TablesRefused ==
  /\ Promised /\ phase = "refused" => Q4Table
  /\ Q4Table /\ phase = "used" => kernel = "matvec_q4k"

=============================================================================
