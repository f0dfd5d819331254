------------------------- MODULE ImplementationProofs -------------------------
(***************************************************************************)
(* Proofs about the two components whose promises the rest of the system   *)
(* is built on: the connection, which implements calls for every size of a *)
(* frame and of the sockets' buffers and any number of requests, and the   *)
(* tensor registry, which implements the write-once store for every set of *)
(* names and contents and every width of the id counter.                   *)
(***************************************************************************)
EXTENDS TLAPS, Connection, TensorStore, SequenceTheorems

-------------------------------------------------------------------------------
(* The connection: pieces of frames on a stream. *)

Frames == Requests \cup Responses
Size(f) == HeaderBytes + f.size

\* Bytes m + 1 to n of a frame.
Piece(f, m, n) == [i \in 1 .. n - m |-> <<f, m + i>>]

\* Of the first sent bytes of frame f, received and stream hold one after the
\* other what was received and what was not; the frame is not complete yet.
Carries(received, stream, f, sent) ==
  \E got \in 0 .. sent :
    /\ got < Size(f)
    /\ received = Piece(f, 0, got)
    /\ stream = Piece(f, got, sent)

Idle(received, stream) == received = <<>> /\ stream = <<>>

USE ByteAssumption, NoneAssumption

\* A frame is its header and its payload.
LEMMA SizeFact ==
  ASSUME NEW f \in Frames
  PROVE  Size(f) \in Nat /\ Size(f) >= HeaderBytes /\ f.size \in Nat
<1>1. f.size \in Nat
  BY DEF Frames, Requests, Responses
<1> QED BY <1>1 DEF Size

\* A piece is a sequence of bytes, of the length one expects.
LEMMA PieceFact ==
  ASSUME NEW f \in Frames, NEW m \in Nat, NEW n \in Nat, m <= n
  PROVE  /\ Piece(f, m, n) \in Seq(Frames \X Nat)
         /\ Len(Piece(f, m, n)) = n - m
         /\ \A i \in 1 .. n - m : Piece(f, m, n)[i] = <<f, m + i>>
<1>1. n - m \in Nat
  OBVIOUS
<1>2. \A i \in 1 .. n - m : <<f, m + i>> \in Frames \X Nat
  OBVIOUS
<1>3. Piece(f, m, n) \in [1 .. n - m -> Frames \X Nat]
  BY <1>2 DEF Piece
<1>4. Piece(f, m, n) \in Seq(Frames \X Nat)
  BY <1>1, <1>3, SeqDef, ZenonT(30)
<1>5. Len(Piece(f, m, n)) = n - m
  <2>1. Len(Piece(f, m, n)) \in Nat /\ DOMAIN Piece(f, m, n) = 1 .. Len(Piece(f, m, n))
    BY <1>4, LenProperties
  <2>2. DOMAIN Piece(f, m, n) = 1 .. n - m
    BY DEF Piece
  <2> QED BY <2>1, <2>2, <1>1
<1> QED BY <1>4, <1>5 DEF Piece

\* No bytes of a frame.
LEMMA EmptyPiece ==
  ASSUME NEW f \in Frames, NEW m \in Nat
  PROVE  Piece(f, m, m) = <<>>
<1>1. Len(Piece(f, m, m)) = 0 /\ Piece(f, m, m) \in Seq(Frames \X Nat)
  BY PieceFact
<1> QED BY <1>1, EmptySeq

\* Pieces that follow each other join.
LEMMA PieceConcat ==
  ASSUME NEW f \in Frames, NEW l \in Nat, NEW m \in Nat, NEW n \in Nat,
         l <= m, m <= n
  PROVE  Piece(f, l, m) \o Piece(f, m, n) = Piece(f, l, n)
<1> DEFINE s == Piece(f, l, m)
           t == Piece(f, m, n)
           u == Piece(f, l, n)
<1>1. /\ s \in Seq(Frames \X Nat) /\ Len(s) = m - l
      /\ \A i \in 1 .. m - l : s[i] = <<f, l + i>>
  BY PieceFact
<1>2. /\ t \in Seq(Frames \X Nat) /\ Len(t) = n - m
      /\ \A i \in 1 .. n - m : t[i] = <<f, m + i>>
  BY PieceFact
<1>3. /\ u \in Seq(Frames \X Nat) /\ Len(u) = n - l
      /\ \A i \in 1 .. n - l : u[i] = <<f, l + i>>
  <2>1. l <= n
    OBVIOUS
  <2> QED BY <2>1, PieceFact
<1> HIDE DEF s, t, u
<1>4. /\ s \o t \in Seq(Frames \X Nat)
      /\ Len(s \o t) = Len(s) + Len(t)
      /\ \A i \in 1 .. Len(s) + Len(t) :
           (s \o t)[i] = IF i <= Len(s) THEN s[i] ELSE t[i - Len(s)]
  BY <1>1, <1>2, ConcatProperties, ZenonT(30)
<1>5. Len(s \o t) = Len(u)
  BY <1>1, <1>2, <1>3, <1>4
<1>6. ASSUME NEW i \in 1 .. Len(s \o t) PROVE (s \o t)[i] = u[i]
  <2>1. i \in 1 .. n - l /\ u[i] = <<f, l + i>>
    BY <1>3, <1>5
  <2>2. CASE i <= m - l
    <3>1. (s \o t)[i] = s[i]
      BY <2>2, <1>1, <1>4, <1>6
    <3> QED BY <2>1, <2>2, <3>1, <1>1
  <2>3. CASE i > m - l
    <3>1. i \in 1 .. Len(s) + Len(t) /\ ~(i <= Len(s))
      BY <2>3, <1>1, <1>4
    <3>2. (s \o t)[i] = t[i - Len(s)]
      BY <3>1, <1>4
    <3>3. i - (m - l) \in 1 .. n - m /\ m + (i - (m - l)) = l + i
      BY <2>1, <2>3
    <3> QED BY <2>1, <3>2, <3>3, <1>1, <1>2
  <2> QED BY <2>1, <2>2, <2>3
<1>7. s \o t = u
  BY <1>3, <1>4, <1>5, <1>6, SeqEqual
<1> QED BY <1>7 DEF s, t, u

\* A part of a piece is a piece.
LEMMA PieceOfPiece ==
  ASSUME NEW f \in Frames, NEW m \in Nat, NEW n \in Nat,
         NEW p \in Nat, NEW q \in Nat, m <= p, p <= q, q <= n
  PROVE  SubSeq(Piece(f, m, n), p - m + 1, q - m) = Piece(f, p, q)
<1> DEFINE a == p - m + 1
           b == q - m
           s == Piece(f, m, n)
           u == Piece(f, p, q)
           v == SubSeq(s, a, b)
<1>1. /\ s \in Seq(Frames \X Nat) /\ Len(s) = n - m
      /\ \A i \in 1 .. n - m : s[i] = <<f, m + i>>
  <2>1. m <= n
    OBVIOUS
  <2> QED BY <2>1, PieceFact
<1>2. /\ u \in Seq(Frames \X Nat) /\ Len(u) = q - p
      /\ \A i \in 1 .. q - p : u[i] = <<f, p + i>>
  BY PieceFact
<1> HIDE DEF s, u
<1>3. \A i \in a .. b : s[i] \in Frames \X Nat
  <2>1. \A i \in a .. b : i \in 1 .. n - m /\ m + i \in Nat
    OBVIOUS
  <2> QED BY <2>1, <1>1
<1>4. /\ v \in Seq(Frames \X Nat)
      /\ Len(v) = IF a <= b THEN b - a + 1 ELSE 0
      /\ \A i \in 1 .. b - a + 1 : v[i] = s[a + i - 1]
  <2>1. a \in Int /\ b \in Int
    OBVIOUS
  <2> QED BY <2>1, <1>3, SubSeqProperties
<1> HIDE DEF v
<1>5. Len(v) = q - p
  BY <1>4
<1>6. ASSUME NEW i \in 1 .. Len(v) PROVE v[i] = u[i]
  <2>1. i \in 1 .. q - p /\ i \in 1 .. b - a + 1
    BY <1>5
  <2>2. a + i - 1 \in 1 .. n - m /\ m + (a + i - 1) = p + i
    BY <2>1
  <2>3. v[i] = s[a + i - 1] /\ s[a + i - 1] = <<f, m + (a + i - 1)>>
    BY <2>1, <2>2, <1>1, <1>4
  <2> QED BY <2>1, <2>2, <2>3, <1>2
<1>7. v = u
  BY <1>2, <1>4, <1>5, <1>6, SeqEqual
<1> QED BY <1>7 DEF s, u, v

\* The first k bytes of a piece.
LEMMA PieceFront ==
  ASSUME NEW f \in Frames, NEW m \in Nat, NEW n \in Nat, NEW p \in Nat,
         NEW k \in Nat, p = m + k, p <= n
  PROVE  SubSeq(Piece(f, m, n), 1, k) = Piece(f, m, p)
<1>1. m <= m /\ m <= p /\ m - m + 1 = 1 /\ p - m = k
  OBVIOUS
<1>2. SubSeq(Piece(f, m, n), m - m + 1, p - m) = Piece(f, m, p)
  BY <1>1, PieceOfPiece
<1> QED BY <1>1, <1>2

\* The others.
LEMMA PieceRear ==
  ASSUME NEW f \in Frames, NEW m \in Nat, NEW n \in Nat, NEW p \in Nat,
         NEW k \in Nat, p = m + k, p <= n, NEW j \in Nat, j = n - m
  PROVE  SubSeq(Piece(f, m, n), k + 1, j) = Piece(f, p, n)
<1>1. m <= p /\ p - m = k
  OBVIOUS
<1>2. SubSeq(Piece(f, m, n), p - m + 1, n - m) = Piece(f, p, n)
  BY <1>1, PieceOfPiece
<1> QED BY <1>1, <1>2

\* All bytes of a frame are a piece of it.
LEMMA BytesFact ==
  ASSUME NEW f \in Frames
  PROVE  Bytes(f) = Piece(f, 0, Size(f)) /\ Len(Bytes(f)) = Size(f)
<1>1. Bytes(f) = Piece(f, 0, Size(f))
  <2>1. HeaderBytes + f.size = Size(f) - 0
    BY SizeFact DEF Size
  <2>2. \A i \in 1 .. HeaderBytes + f.size : i = 0 + i
    OBVIOUS
  <2> QED BY <2>1, <2>2 DEF Bytes, Piece
<1> QED BY <1>1, SizeFact, PieceFact

\* What one send passes to the socket.
LEMMA BytesPiece ==
  ASSUME NEW f \in Frames, NEW p \in Nat, NEW q \in Nat, p <= q, q <= Size(f)
  PROVE  SubSeq(Bytes(f), p + 1, q) = Piece(f, p, q)
<1>1. Size(f) \in Nat /\ 0 \in Nat
  BY SizeFact
<1>2. \A m, n \in Nat : m <= p /\ q <= n =>
        SubSeq(Piece(f, m, n), p - m + 1, q - m) = Piece(f, p, q)
  BY PieceOfPiece, SMTT(30)
<1>3. SubSeq(Piece(f, 0, Size(f)), p - 0 + 1, q - 0) = Piece(f, p, q)
  BY <1>1, <1>2
<1>4. SubSeq(Piece(f, 0, Size(f)), p + 1, q) = Piece(f, p, q)
  BY <1>3
<1> QED BY <1>4, BytesFact

\* Enough bytes from its beginning tell which frame it is.
LEMMA HeaderFact ==
  ASSUME NEW f \in Frames, NEW n \in Nat, HeaderBytes <= n
  PROVE  Header(Piece(f, 0, n)) = f
<1> DEFINE s == Piece(f, 0, n)
<1>1. s[1][1] = f
  <2>1. 1 \in 1 .. n - 0 /\ 0 \in Nat /\ 0 <= n
    OBVIOUS
  <2>2. \A i \in 1 .. n - 0 : s[i] = <<f, 0 + i>>
    BY <2>1, PieceFact
  <2> QED BY <2>1, <2>2
<1>2. HeaderBytes \in Nat /\ 0 \in Nat /\ 0 <= HeaderBytes /\ HeaderBytes = 0 + HeaderBytes
  OBVIOUS
<1>3. SubSeq(s, 1, HeaderBytes) = Piece(f, 0, HeaderBytes)
  BY <1>2, PieceFront
<1>4. SubSeq(Bytes(f), 1, HeaderBytes) = Piece(f, 0, HeaderBytes)
  <2>1. SubSeq(Bytes(f), 0 + 1, HeaderBytes) = Piece(f, 0, HeaderBytes)
    BY <1>2, SizeFact, BytesPiece
  <2> QED BY <2>1
<1> QED BY <1>1, <1>3, <1>4 DEF Header

\* What receive_frame makes of the first n bytes of a frame.
LEMMA CompleteFact ==
  ASSUME NEW f \in Frames, NEW n \in 0 .. Size(f)
  PROVE  LET bytes == Piece(f, 0, n) IN
           /\ Missing(bytes) = IF n < HeaderBytes THEN HeaderBytes - n ELSE Size(f) - n
           /\ HeaderRefused(bytes) <=> HeaderBytes <= n /\ f.kind = "BadFrame"
           /\ Complete(bytes) <=> n = Size(f) /\ f.kind # "BadFrame"
<1> DEFINE bytes == Piece(f, 0, n)
<1>1. Len(bytes) = n /\ n \in Nat
  <2>1. n \in Nat /\ 0 \in Nat /\ 0 <= n
    BY SizeFact
  <2>2. Len(bytes) = n - 0
    BY <2>1, PieceFact
  <2> QED BY <2>1, <2>2
<1>2. /\ f # None /\ Size(f) \in Nat
      /\ Size(f) >= HeaderBytes /\ Size(f) = HeaderBytes + f.size
  BY SizeFact DEF Frames, Size
<1>3. HeaderBytes <= n => Header(bytes) = f
  BY <1>1, HeaderFact
<1> HIDE DEF bytes
<1>4. Missing(bytes) = IF n < HeaderBytes THEN HeaderBytes - n ELSE Size(f) - n
  BY <1>1, <1>2, <1>3, SizeFact DEF Missing
<1>5. HeaderRefused(bytes) <=> HeaderBytes <= n /\ f.kind = "BadFrame"
  BY <1>1, <1>2, <1>3 DEF HeaderRefused
<1>6. Complete(bytes) <=> n = Size(f) /\ f.kind # "BadFrame"
  BY <1>1, <1>2, <1>4, <1>5 DEF Complete
<1> QED BY <1>4, <1>5, <1>6 DEF bytes

\* How much was received of what a stream carries.
LEMMA CarriesFact ==
  ASSUME NEW f \in Frames, NEW received, NEW stream,
         NEW sent \in Nat, sent <= Size(f),
         Carries(received, stream, f, sent)
  PROVE  \E got \in Nat :
           /\ got <= sent /\ got < Size(f)
           /\ received = Piece(f, 0, got) /\ stream = Piece(f, got, sent)
           /\ received \in Seq(Frames \X Nat) /\ stream \in Seq(Frames \X Nat)
           /\ Len(received) = got /\ Len(stream) = sent - got
<1>1. PICK got \in 0 .. sent : /\ got < Size(f)
                               /\ received = Piece(f, 0, got)
                               /\ stream = Piece(f, got, sent)
  BY DEF Carries
<1>2. got \in Nat /\ got <= sent /\ 0 <= got /\ 0 \in Nat
  OBVIOUS
<1>3. Piece(f, 0, got) \in Seq(Frames \X Nat) /\ Len(Piece(f, 0, got)) = got - 0
  BY <1>2, PieceFact
<1>4. Piece(f, got, sent) \in Seq(Frames \X Nat) /\ Len(Piece(f, got, sent)) = sent - got
  BY <1>2, PieceFact
<1> QED BY <1>1, <1>2, <1>3, <1>4

\* What was received and what was not make up what was sent.
LEMMA CarriesJoined ==
  ASSUME NEW f \in Frames, NEW received, NEW stream,
         NEW sent \in Nat, sent <= Size(f),
         Carries(received, stream, f, sent)
  PROVE  received \o stream = Piece(f, 0, sent)
<1>1. PICK got \in Nat : /\ got <= sent
                         /\ received = Piece(f, 0, got) /\ stream = Piece(f, got, sent)
  BY CarriesFact
<1>2. 0 \in Nat /\ 0 <= got
  OBVIOUS
<1>3. Piece(f, 0, got) \o Piece(f, got, sent) = Piece(f, 0, sent)
  BY <1>1, <1>2, PieceConcat
<1> QED BY <1>1, <1>3

\* Any byte of a frame tells which frame it is.
LEMMA CarriesFirst ==
  ASSUME NEW f \in Frames, NEW received, NEW stream,
         NEW sent \in Nat, 1 <= sent, sent <= Size(f),
         Carries(received, stream, f, sent)
  PROVE  received \o stream # <<>> /\ (received \o stream)[1][1] = f
<1>1. received \o stream = Piece(f, 0, sent)
  BY CarriesJoined
<1>2. 0 \in Nat /\ 0 <= sent /\ 1 \in 1 .. sent - 0 /\ sent - 0 # 0
  OBVIOUS
<1>3. /\ Piece(f, 0, sent) \in Seq(Frames \X Nat) /\ Len(Piece(f, 0, sent)) = sent - 0
      /\ \A i \in 1 .. sent - 0 : Piece(f, 0, sent)[i] = <<f, 0 + i>>
  BY <1>2, PieceFact
<1>4. Piece(f, 0, sent)[1] = <<f, 0 + 1>> /\ Piece(f, 0, sent) # <<>>
  BY <1>2, <1>3, EmptySeq
<1> QED BY <1>1, <1>4

\* An idle stream carries no byte of any frame.
LEMMA CarriesIdle ==
  ASSUME NEW f \in Frames, NEW received, NEW stream, Idle(received, stream)
  PROVE  Carries(received, stream, f, 0)
<1>1. Piece(f, 0, 0) = <<>> /\ 0 < Size(f) /\ 0 \in 0 .. 0
  BY EmptyPiece, SizeFact
<1> QED BY <1>1 DEF Carries, Idle

\* One send continues what a stream carries.
LEMMA CarriesSend ==
  ASSUME NEW f \in Frames, NEW received, NEW stream,
         NEW sent \in Nat, sent <= Size(f),
         Carries(received, stream, f, sent),
         NEW k \in Nat, sent + k <= Size(f)
  PROVE  Carries(received, stream \o SubSeq(Bytes(f), sent + 1, sent + k), f, sent + k)
<1>1. PICK got \in Nat : /\ got <= sent /\ got < Size(f)
                         /\ received = Piece(f, 0, got) /\ stream = Piece(f, got, sent)
  BY CarriesFact
<1> DEFINE now == sent + k
<1>2. now \in Nat /\ sent <= now /\ now <= Size(f) /\ got \in 0 .. now /\ Size(f) \in Nat
  BY <1>1, SizeFact
<1> HIDE DEF now
<1>5. SubSeq(Bytes(f), sent + 1, now) = Piece(f, sent, now)
  BY <1>2, BytesPiece
<1>6. Piece(f, got, sent) \o Piece(f, sent, now) = Piece(f, got, now)
  BY <1>1, <1>2, PieceConcat
<1>7. Carries(received, stream \o SubSeq(Bytes(f), sent + 1, now), f, now)
  BY <1>1, <1>2, <1>5, <1>6 DEF Carries
<1> QED BY <1>7 DEF now

\* A stream cut short carries less of the same frame.
LEMMA CarriesCut ==
  ASSUME NEW f \in Frames, NEW received, NEW stream,
         NEW sent \in Nat, sent <= Size(f),
         Carries(received, stream, f, sent),
         NEW k \in 0 .. Len(stream)
  PROVE  \E less \in Nat :
           less <= Size(f) /\ Carries(received, SubSeq(stream, 1, k), f, less)
<1>1. PICK got \in Nat : /\ got <= sent /\ got < Size(f)
                         /\ received = Piece(f, 0, got) /\ stream = Piece(f, got, sent)
                         /\ Len(stream) = sent - got
  BY CarriesFact
<1> DEFINE less == got + k
<1>2. /\ k \in Nat /\ less \in Nat /\ got <= less /\ less <= sent
      /\ got \in 0 .. less /\ less = got + k
  BY <1>1
<1>3. less <= Size(f)
  BY <1>2, SizeFact
<1> HIDE DEF less
<1>4. SubSeq(Piece(f, got, sent), 1, k) = Piece(f, got, less)
  BY <1>2, PieceFront
<1> QED BY <1>1, <1>2, <1>3, <1>4 DEF Carries

\* What one recv of k bytes makes of the bytes received and of the stream.
More(received, stream, k) == received \o SubSeq(stream, 1, k)
Rest(stream, k) == SubSeq(stream, k + 1, Len(stream))

\* One recv of what a stream carries.
LEMMA CarriesRecv ==
  ASSUME NEW f \in Frames, NEW received, NEW stream,
         NEW sent \in Nat, sent <= Size(f),
         Carries(received, stream, f, sent),
         NEW k \in RecvCounts(received, stream)
  PROVE  LET bytes == More(received, stream, k)
             rest == Rest(stream, k)
         IN /\ bytes \o rest = received \o stream
            /\ rest \in Seq(Frames \X Nat) /\ Len(rest) <= Len(stream)
            /\ ~HeaderRefused(bytes) /\ ~Complete(bytes) => Carries(bytes, rest, f, sent)
            /\ Complete(bytes) => /\ sent = Size(f) /\ rest = <<>>
                                  /\ Header(bytes) = f /\ f.kind # "BadFrame"
<1> DEFINE bytes == More(received, stream, k)
           rest == Rest(stream, k)
<1>1. PICK got \in Nat : /\ got <= sent /\ got < Size(f)
                         /\ received = Piece(f, 0, got) /\ stream = Piece(f, got, sent)
                         /\ Len(stream) = sent - got
  BY CarriesFact
<1>2. Size(f) \in Nat /\ HeaderBytes <= Size(f)
  BY SizeFact
<1>3. Missing(received) \in Nat /\ Missing(received) <= Size(f) - got
  <2>1. got \in 0 .. Size(f)
    BY <1>1, <1>2
  <2>2. Missing(Piece(f, 0, got)) =
          IF got < HeaderBytes THEN HeaderBytes - got ELSE Size(f) - got
    BY <2>1, CompleteFact
  <2> QED BY <2>1, <2>2, <1>1, <1>2
<1>4. k \in Nat /\ 1 <= k /\ k <= sent - got /\ k <= Size(f) - got
  <2>1. k \in 1 .. Lesser(Missing(received), sent - got)
    BY <1>1 DEF RecvCounts
  <2>2. CASE Missing(received) < sent - got
    BY <2>1, <2>2, <1>1, <1>2, <1>3 DEF Lesser
  <2>3. CASE ~(Missing(received) < sent - got)
    BY <2>1, <2>3, <1>1, <1>2, <1>3 DEF Lesser
  <2> QED BY <2>2, <2>3
<1> DEFINE now == got + k
<1>5. /\ now \in Nat /\ got <= now /\ now <= sent /\ now <= Size(f) /\ now \in 0 .. Size(f)
      /\ now = got + k /\ sent - got \in Nat /\ sent - now < sent - got
  BY <1>1, <1>2, <1>4
<1> HIDE DEF now
<1>6. SubSeq(Piece(f, got, sent), 1, k) = Piece(f, got, now)
  BY <1>4, <1>5, PieceFront
<1>7. rest = Piece(f, now, sent)
  <2>1. \A j \in Nat : j = sent - got =>
          SubSeq(Piece(f, got, sent), k + 1, j) = Piece(f, now, sent)
    BY <1>4, <1>5, PieceRear
  <2> QED BY <2>1, <1>1, <1>5 DEF Rest
<1>8. bytes = Piece(f, 0, now)
  <2>1. Piece(f, 0, got) \o Piece(f, got, now) = Piece(f, 0, now)
    <3>1. 0 \in Nat /\ 0 <= got
      OBVIOUS
    <3> QED BY <3>1, <1>1, <1>5, PieceConcat, ZenonT(30)
  <2> QED BY <2>1, <1>1, <1>6 DEF More
<1> HIDE DEF bytes, rest
<1>9. bytes \o rest = Piece(f, 0, sent)
  <2>1. 0 \in Nat /\ 0 <= now
    BY <1>5
  <2>2. Piece(f, 0, now) \o Piece(f, now, sent) = Piece(f, 0, sent)
    BY <2>1, <1>5, PieceConcat
  <2> QED BY <2>2, <1>7, <1>8
<1>10. received \o stream = Piece(f, 0, sent)
  BY CarriesJoined
<1>11. rest \in Seq(Frames \X Nat) /\ Len(rest) = sent - now
  BY <1>5, <1>7, PieceFact
<1>12. Len(rest) <= Len(stream)
  BY <1>1, <1>5, <1>11
<1>13. ASSUME ~HeaderRefused(bytes), ~Complete(bytes)
       PROVE  Carries(bytes, rest, f, sent)
  <2>1. f.kind # "BadFrame" \/ now < HeaderBytes
    BY <1>13, <1>5, <1>8, CompleteFact
  <2>2. now # Size(f)
    BY <1>13, <1>2, <1>5, <1>8, <2>1, CompleteFact
  <2>3. now < Size(f) /\ now \in 0 .. sent
    BY <2>2, <1>2, <1>5
  <2> QED BY <2>3, <1>7, <1>8 DEF Carries
<1>14. ASSUME Complete(bytes)
       PROVE  sent = Size(f) /\ rest = <<>> /\ Header(bytes) = f /\ f.kind # "BadFrame"
  <2>1. now = Size(f) /\ f.kind # "BadFrame"
    BY <1>14, <1>5, <1>8, CompleteFact
  <2>2. sent = now
    BY <2>1, <1>2, <1>5
  <2>3. rest = <<>>
    BY <2>2, <1>5, <1>7, EmptyPiece
  <2>4. Header(bytes) = f
    BY <2>1, <1>2, <1>5, <1>8, HeaderFact
  <2> QED BY <2>1, <2>2, <2>3, <2>4
<1> QED BY <1>9, <1>10, <1>11, <1>12, <1>13, <1>14 DEF bytes, rest

\* Nothing can be received from an idle stream.
LEMMA IdleNothing ==
  ASSUME NEW received, NEW stream, Idle(received, stream)
  PROVE  RecvCounts(received, stream) = {}
<1>1. Len(received) = 0 /\ Len(stream) = 0
  BY EmptySeq DEF Idle
<1>2. Missing(received) = HeaderBytes
  BY <1>1 DEF Missing
<1>3. Lesser(Missing(received), Len(stream)) = 0
  BY <1>1, <1>2 DEF Lesser
<1> QED BY <1>3 DEF RecvCounts

(* The phases of a call. *)
AnswersTo(q) ==
  [kind : {Success(q.kind), "Error"}, id : {q.id}, size : PayloadSizes]

\* A HELLO that can be accepted is on record as soon as it is asked.
HelloKnown(q) == q.kind = "Hello" => greeted

\* No call is under way, or the request is being sent, or it is all sent.
Quiet ==
  /\ cpc = "ready" /\ spc = "receiving"
  /\ Idle(sin, toServer) /\ Idle(cin, toClient)
Asking ==
  /\ cpc = "sending" /\ spc = "receiving"
  /\ csent < Size(request)
  /\ Carries(sin, toServer, request, csent) /\ Idle(cin, toClient)
Asked ==
  /\ cpc = "receiving" /\ spc = "receiving"
  /\ Carries(sin, toServer, request, Size(request)) /\ Idle(cin, toClient)

\* The response is being sent, or it is all sent.
Answering ==
  /\ cpc = "receiving" /\ spc = "sending"
  /\ response \in AnswersTo(request)
  /\ ssent < Size(response)
  /\ Idle(sin, toServer) /\ Carries(cin, toClient, response, ssent)
Replied ==
  /\ cpc = "receiving" /\ spc = "receiving"
  /\ Idle(sin, toServer)
  /\ \E f \in AnswersTo(request) : Carries(cin, toClient, f, Size(f))

\* The client is gone: the server still receives what it wrote, or answers.
Abandoned ==
  /\ cpc = "closed" /\ spc = "receiving"
  /\ \/ Idle(sin, toServer)
     \/ \E q \in Requests, sent \in Nat :
          HelloKnown(q) /\ sent <= Size(q) /\ Carries(sin, toServer, q, sent)
AnsweringNobody ==
  /\ cpc = "closed" /\ spc = "sending"
  /\ ssent < Size(response) /\ Idle(sin, toServer)

\* The server is gone: what it sent is nothing, or a whole response.
CutOff ==
  /\ spc = "accept"
  /\ cpc \in {"ready", "sending"} => Idle(cin, toClient)
  /\ cpc = "sending" => csent < Size(request)
  /\ cpc = "receiving" =>
       \/ Idle(cin, toClient)
       \/ \E f \in AnswersTo(request) : Carries(cin, toClient, f, Size(f))

Phase ==
  \/ Quiet \/ Asking \/ Asked
  \/ Answering \/ Replied
  \/ Abandoned \/ AnsweringNobody
  \/ CutOff

HelloFirst ==
  /\ request # None => HelloKnown(request)
  /\ handshake => greeted
  /\ touched => greeted

StreamsTyped == {toServer, toClient} \subseteq Seq(Frames \X Nat)

NothingLeft == cpc = "closed" => cin = <<>>

ConnectionIInv ==
  ConnectionTypeOK /\ StreamsTyped /\ NothingLeft /\ HelloFirst /\ Phase

\* An answer is a response, and a frame.
LEMMA AnswersFact ==
  ASSUME NEW q \in Requests, NEW f \in AnswersTo(q)
  PROVE  f \in Responses /\ f \in Frames /\ f # None
<1>1. f \in Responses
  BY DEF AnswersTo, Requests, Responses, Success, ResponseKinds, RequestKinds
<1> QED BY <1>1 DEF Frames

\* What handling a request does to the connection.
LEMMA DispatchFact ==
  ASSUME NEW q \in Requests, Dispatch(q), ConnectionTypeOK
  PROVE  /\ response' \in AnswersTo(q)
         /\ {handshake', touched'} \subseteq BOOLEAN
         /\ handshake' => handshake \/ q.kind = "Hello"
         /\ touched' => touched \/ handshake
<1> USE DEF Reply, AnswersTo, Success, ConnectionTypeOK
<1>1. CASE q.kind = "Ping" /\ Reply(q, "Pong") /\ UNCHANGED <<handshake, touched>>
  BY <1>1
<1>2. CASE q.kind = "Hello" /\ Reply(q, "Capabilities") /\ handshake' = TRUE /\ UNCHANGED touched
  BY <1>2
<1>3. CASE /\ q.kind = "LoadTensor" /\ Admits(q.kind)
           /\ \/ Reply(q, "TensorLoaded") /\ touched' = TRUE
              \/ Reply(q, "Error") /\ UNCHANGED touched
           /\ UNCHANGED handshake
  <2>1. response' \in AnswersTo(q)
    BY <1>3
  <2>2. handshake /\ handshake' = handshake /\ (touched' = TRUE \/ touched' = touched)
    BY <1>3 DEF Admits
  <2> QED BY <2>1, <2>2
<1>4. CASE /\ q.kind = "RunLayerRange" /\ Admits(q.kind)
           /\ Reply(q, "LayerRangeResult") \/ Reply(q, "Error")
           /\ touched' = TRUE
           /\ UNCHANGED handshake
  BY <1>4 DEF Admits
<1>5. CASE /\ Reply(q, "Error")
           /\ UNCHANGED <<handshake, touched>>
  BY <1>5
<1> QED BY <1>1, <1>2, <1>3, <1>4, <1>5 DEF Dispatch

\* The connection starts in the invariant: both ends are closed.
LEMMA ConnectionInitInvariant == ConnectionInit => ConnectionIInv
<1> SUFFICES ASSUME ConnectionInit PROVE ConnectionIInv
  OBVIOUS
<1> USE DEF ConnectionInit
<1>1. ConnectionTypeOK
  <2>1. Len(toServer) = 0 /\ Len(toClient) = 0
    BY EmptySeq
  <2>2. nextRequestId \in 1 .. MaxRequests + 1
    OBVIOUS
  <2>3. {handshake, touched, greeted} \subseteq BOOLEAN
    OBVIOUS
  <2> QED BY <2>1, <2>2, <2>3 DEF ConnectionTypeOK
<1>2. StreamsTyped /\ NothingLeft /\ HelloFirst
  BY EmptySeq DEF StreamsTyped, NothingLeft, HelloFirst
<1>3. CutOff
  BY DEF CutOff
<1> QED BY <1>1, <1>2, <1>3 DEF ConnectionIInv, Phase

\* What shows of a call in its phases: nothing, then its response.
LEMMA AnsweredFact ==
  ASSUME request \in Requests
  PROVE  /\ response \in Responses => Answered = response
         /\ response = None /\ Idle(cin, toClient) => Answered = None
         /\ \A f \in Frames, n \in Nat :
              /\ response = None /\ Carries(cin, toClient, f, n)
              /\ 1 <= n /\ n <= Size(f)
              => Answered = f
<1>1. request # None /\ (response \in Responses => response # None)
  OBVIOUS
<1>2. response = None /\ Idle(cin, toClient) => Answered = None
  <2>1. <<>> \o <<>> = <<>>
    BY ConcatEmptySeq, EmptySeq
  <2> QED BY <2>1, <1>1 DEF Answered, Idle
<1>3. ASSUME NEW f \in Frames, NEW n \in Nat, response = None,
             Carries(cin, toClient, f, n), 1 <= n, n <= Size(f)
      PROVE  Answered = f
  <2>1. cin \o toClient # <<>> /\ (cin \o toClient)[1][1] = f
    BY <1>3, CarriesFirst
  <2> QED BY <2>1, <1>1, <1>3 DEF Answered
<1> QED BY <1>1, <1>2, <1>3 DEF Answered

\* Accepting a connection: nothing of the earlier one is left.
LEMMA AcceptStep ==
  ASSUME ConnectionIInv, Accept
  PROVE  ConnectionIInv' /\ UNCHANGED <<request, Answered, returned>>
<1>1. ConnectionTypeOK'
  <2>1. Len(toServer') = 0 /\ Len(toClient') = 0
    BY EmptySeq DEF Accept
  <2>2. {handshake', touched', greeted'} \subseteq BOOLEAN
    BY DEF Accept
  <2> QED BY <2>1, <2>2 DEF ConnectionIInv, Accept, ConnectionTypeOK
<1>2. StreamsTyped'
  BY EmptySeq DEF Accept, StreamsTyped
<1>3. request = None /\ request' = None /\ cin' = <<>>
  BY DEF ConnectionIInv, Accept, ConnectionTypeOK, NothingLeft
<1>4. NothingLeft' /\ HelloFirst' /\ Quiet'
  BY <1>3 DEF Accept, NothingLeft, HelloFirst, Quiet, Idle
<1>5. UNCHANGED <<request, Answered, returned>>
  BY <1>3 DEF Accept, Answered
<1> QED BY <1>1, <1>2, <1>4, <1>5 DEF ConnectionIInv, Phase

\* A call begins on a quiet connection, or on one the server has left.
LEMMA AskStep ==
  ASSUME ConnectionIInv, NEW q \in Requests, Ask(q)
  PROVE  ConnectionIInv' /\ Call!Ask(q)
<1>1. cpc = "ready" /\ cpc' = "sending" /\ request = None /\ request' = q /\ q # None
  BY DEF ConnectionIInv, Ask, ConnectionTypeOK
<1>2. spc # "sending" /\ response = None /\ UNCHANGED <<spc, response>>
  BY <1>1 DEF ConnectionIInv, Ask, Phase, Quiet, Asking, Asked, Answering, Replied,
              Abandoned, AnsweringNobody, CutOff, ConnectionTypeOK, serverVars
<1>3. ConnectionTypeOK'
  <2>1. nextRequestId' \in 1 .. MaxRequests + 1
    BY DEF Ask, RequestIds
  <2>2. {handshake, touched, greeted'} \subseteq BOOLEAN
    BY DEF ConnectionIInv, ConnectionTypeOK, Ask
  <2> QED BY <1>1, <1>2, <2>1, <2>2 DEF ConnectionIInv, Ask, ConnectionTypeOK, serverVars
<1>4. StreamsTyped' /\ NothingLeft' /\ HelloFirst'
  BY <1>1 DEF ConnectionIInv, Ask, StreamsTyped, NothingLeft, HelloFirst, HelloKnown, serverVars
<1>5. q \in Frames /\ 0 < Size(q)
  BY SizeFact DEF Frames
<1>6. ASSUME Quiet PROVE Asking' /\ Idle(cin', toClient')
  <2>1. Idle(sin', toServer') /\ Idle(cin', toClient')
    BY <1>6 DEF Quiet, Idle, Ask, serverVars
  <2>2. Carries(sin', toServer', q, 0) /\ csent' = 0 /\ spc' = "receiving"
    BY <2>1, <1>5, <1>6, CarriesIdle DEF Quiet, Ask, serverVars
  <2> QED BY <2>1, <2>2, <1>1, <1>5 DEF Asking
<1>7. ASSUME CutOff PROVE CutOff' /\ Idle(cin', toClient')
  <2>1. Idle(cin', toClient')
    BY <1>1, <1>7 DEF CutOff, Idle, Ask
  <2> QED BY <2>1, <1>1, <1>5, <1>7 DEF CutOff, Ask, serverVars
<1>8. Phase' /\ Idle(cin', toClient')
  <2>1. Quiet \/ CutOff
    BY <1>1 DEF ConnectionIInv, Phase, Asking, Asked, Answering, Replied,
                Abandoned, AnsweringNobody
  <2> QED BY <2>1, <1>6, <1>7 DEF Phase
<1>9. Answered = None
  BY <1>1 DEF Answered
<1>10. Answered' = None
  <2>1. cin' \o toClient' = <<>>
    BY <1>8, ConcatEmptySeq, EmptySeq DEF Idle
  <2> QED BY <2>1, <1>2 DEF Answered
<1> QED
  BY <1>1, <1>3, <1>4, <1>8, <1>9, <1>10 DEF ConnectionIInv, Ask, Call!Ask

\* What one send does to a stream.
LEMMA SendFact ==
  ASSUME NEW f \in Frames, NEW sent \in Nat, NEW stream \in Seq(Frames \X Nat),
         NEW k \in SendCounts(f, sent, stream), sent <= Size(f), Len(stream) <= BufferBytes
  PROVE  LET more == stream \o SubSeq(Bytes(f), sent + 1, sent + k) IN
           /\ k \in Nat /\ sent + k \in Nat /\ 1 <= k /\ sent + k <= Size(f)
           /\ more \in Seq(Frames \X Nat) /\ Len(more) <= BufferBytes
<1> DEFINE room == BufferBytes - Len(stream)
           left == Size(f) - sent
<1>1. room \in Nat /\ left \in Nat /\ Size(f) \in Nat /\ Len(stream) \in Nat
  BY SizeFact, LenProperties
<1>2. k \in 1 .. Lesser(left, room)
  BY BytesFact DEF SendCounts
<1>3. k \in Nat /\ 1 <= k /\ k <= left /\ k <= room
  <2> HIDE DEF room, left
  <2>1. CASE left < room
    BY <2>1, <1>1, <1>2 DEF Lesser
  <2>2. CASE ~(left < room)
    BY <2>2, <1>1, <1>2 DEF Lesser
  <2> QED BY <2>1, <2>2
<1> DEFINE now == sent + k
<1>4. now \in Nat /\ sent <= now /\ now <= Size(f) /\ now - sent = k
  BY <1>1, <1>3
<1> HIDE DEF now
<1>5. SubSeq(Bytes(f), sent + 1, now) = Piece(f, sent, now)
  BY <1>4, BytesPiece
<1>6. Piece(f, sent, now) \in Seq(Frames \X Nat) /\ Len(Piece(f, sent, now)) = now - sent
  BY <1>4, PieceFact
<1> DEFINE more == stream \o Piece(f, sent, now)
<1>7. more \in Seq(Frames \X Nat) /\ Len(more) = Len(stream) + Len(Piece(f, sent, now))
  BY <1>6, ConcatProperties
<1> HIDE DEF more
<1>8. Len(more) <= BufferBytes
  BY <1>1, <1>3, <1>4, <1>6, <1>7
<1> QED BY <1>1, <1>3, <1>4, <1>5, <1>7, <1>8 DEF now, more

\* What the kernel may leave of a stream.
LEMMA CutFact ==
  ASSUME NEW stream \in Seq(Frames \X Nat), NEW k \in 0 .. Len(stream)
  PROVE  SubSeq(stream, 1, k) \in Seq(Frames \X Nat) /\ Len(SubSeq(stream, 1, k)) = k
<1>1. \A i \in 1 .. k : stream[i] \in Frames \X Nat
  BY LenProperties
<1>2. 1 \in Int /\ k \in Int
  BY LenProperties
<1> QED BY <1>1, <1>2, SubSeqProperties

\* One send of a request: the server gets the next bytes of it, if it is there.
LEMMA ClientSendStep ==
  ASSUME ConnectionIInv, ClientSend
  PROVE  ConnectionIInv' /\ UNCHANGED <<request, Answered, returned>>
<1> USE DEF ConnectionIInv
<1>1. request \in Requests /\ request \in Frames /\ csent \in Nat /\ cpc = "sending"
  BY DEF ClientSend, ConnectionTypeOK, Frames
<1>2. Asking \/ CutOff
  BY <1>1 DEF Phase, Quiet, Asked, Answering, Replied, Abandoned, AnsweringNobody
<1>3. csent < Size(request) /\ csent <= Size(request)
  BY <1>1, <1>2, SizeFact DEF Asking, CutOff
<1>4. PICK k \in SendCounts(request, csent, toServer) :
        /\ toServer' = toServer \o SubSeq(Bytes(request), csent + 1, csent + k)
        /\ csent' = csent + k
        /\ cpc' = IF csent + k = Len(Bytes(request)) THEN "receiving" ELSE "sending"
  BY DEF ClientSend
<1>5. UNCHANGED <<request, cin, nextRequestId, returned, greeted, toClient, serverVars>>
  BY DEF ClientSend
<1>6. toServer \in Seq(Frames \X Nat) /\ Len(toServer) <= BufferBytes
  BY DEF StreamsTyped, ConnectionTypeOK
<1>7. /\ k \in Nat /\ csent' \in Nat /\ csent' <= Size(request)
      /\ toServer' \in Seq(Frames \X Nat) /\ Len(toServer') <= BufferBytes
  BY <1>1, <1>3, <1>4, <1>6, SendFact
<1>8. cpc' = IF csent' = Size(request) THEN "receiving" ELSE "sending"
  BY <1>1, <1>4, BytesFact
<1>9. ConnectionTypeOK'
  BY <1>1, <1>5, <1>7, <1>8 DEF ConnectionTypeOK, serverVars
<1>10. StreamsTyped' /\ NothingLeft' /\ HelloFirst'
  BY <1>5, <1>7, <1>8 DEF StreamsTyped, NothingLeft, HelloFirst, HelloKnown, serverVars
<1>11. csent' # Size(request) => csent' < Size(request)
  BY <1>7, <1>1, SizeFact
<1>12. CASE Asking
  <2>1. Carries(sin', toServer', request', csent')
    BY <1>1, <1>3, <1>4, <1>5, <1>7, <1>12, CarriesSend DEF Asking, serverVars
  <2>2. Idle(cin', toClient') /\ spc' = "receiving"
    BY <1>5, <1>12 DEF Asking, serverVars
  <2>3. Phase'
    BY <1>5, <1>8, <1>11, <2>1, <2>2 DEF Phase, Asking, Asked
  <2>4. UNCHANGED <<request, Answered, returned>>
    BY <1>5 DEF Answered, serverVars
  <2> QED BY <1>9, <1>10, <2>3, <2>4
<1>13. CASE CutOff
  <2>1. Idle(cin', toClient') /\ spc' = "accept"
    BY <1>1, <1>5, <1>13 DEF CutOff, serverVars
  <2>2. Phase'
    BY <1>5, <1>8, <1>11, <2>1 DEF Phase, CutOff
  <2>3. UNCHANGED <<request, Answered, returned>>
    BY <1>5 DEF Answered, serverVars
  <2> QED BY <1>9, <1>10, <2>2, <2>3
<1> QED BY <1>2, <1>12, <1>13

\* The client's end closes: what it wrote may arrive, cut short at any byte.
LEMMA ClientCloseStep ==
  ASSUME ConnectionIInv, ClientClose
  PROVE  ConnectionIInv' /\ Call!Break
<1> USE DEF ConnectionIInv
<1>1. /\ cpc # "closed" /\ cpc' = "closed" /\ request' = None /\ cin' = <<>>
      /\ csent' = 0
      /\ UNCHANGED <<nextRequestId, returned, greeted, toClient, serverVars>>
  BY DEF ClientClose
<1>2. PICK k \in 0 .. Len(toServer) : toServer' = SubSeq(toServer, 1, k)
  BY DEF ClientClose
<1>3. toServer \in Seq(Frames \X Nat) /\ Len(toServer) \in Nat /\ Len(toServer) <= BufferBytes
  BY LenProperties DEF StreamsTyped, ConnectionTypeOK
<1>4. toServer' \in Seq(Frames \X Nat) /\ Len(toServer') = k /\ Len(toServer') <= BufferBytes
  <2>1. toServer' \in Seq(Frames \X Nat) /\ Len(toServer') = k
    BY <1>2, <1>3, CutFact
  <2> QED BY <2>1, <1>3
<1>5. ConnectionTypeOK'
  BY <1>1, <1>4 DEF ConnectionTypeOK, serverVars
<1>6. StreamsTyped' /\ NothingLeft' /\ HelloFirst'
  BY <1>1, <1>4 DEF StreamsTyped, NothingLeft, HelloFirst, serverVars
<1>7. toServer = <<>> => toServer' = <<>>
  BY <1>3, <1>4, EmptySeq
<1>8. ASSUME NEW sent \in Nat, request \in Requests, sent <= Size(request),
             spc = "receiving", Carries(sin, toServer, request, sent)
      PROVE  Abandoned'
  <2>1. PICK q \in Requests : q = request
    BY <1>8
  <2>2. q \in Frames /\ q # None
    BY DEF Frames
  <2>3. q.kind = "Hello" => greeted'
    BY <1>1, <2>1, <2>2 DEF HelloFirst, HelloKnown
  <2>4. sin' = sin /\ spc' = "receiving"
    BY <1>1, <1>8 DEF serverVars
  <2>5. PICK less \in Nat : less <= Size(q) /\ Carries(sin, toServer', q, less)
    BY <1>2, <1>8, <2>1, <2>2, CarriesCut
  <2>6. Carries(sin', toServer', q, less)
    BY <2>4, <2>5
  <2> QED BY <1>1, <2>3, <2>4, <2>5, <2>6 DEF Abandoned, HelloKnown
<1>9. Phase'
  <2>1. CASE Quiet \/ Replied
    <3>1. Idle(sin', toServer') /\ spc' = "receiving"
      BY <1>1, <1>7, <2>1 DEF Quiet, Replied, Idle, serverVars
    <3> QED BY <1>1, <3>1 DEF Abandoned, Phase
  <2>2. CASE Asking
    <3>1. request \in Requests /\ csent \in Nat
      BY <2>2 DEF Asking, ConnectionTypeOK
    <3>2. csent <= Size(request)
      BY <2>2, <3>1, SizeFact DEF Asking, Frames
    <3> QED BY <1>8, <2>2, <3>1, <3>2 DEF Asking, Phase
  <2>3. CASE Asked
    <3>1. request \in Requests
      BY <2>3 DEF Asked, ConnectionTypeOK
    <3>2. Size(request) \in Nat
      BY <3>1, SizeFact DEF Frames
    <3> QED BY <1>8, <2>3, <3>1, <3>2 DEF Asked, Phase
  <2>4. CASE Answering
    <3>1. Idle(sin', toServer') /\ spc' = "sending" /\ ssent' < Size(response')
      BY <1>1, <1>7, <2>4 DEF Answering, Idle, serverVars
    <3> QED BY <1>1, <3>1 DEF AnsweringNobody, Phase
  <2>5. CASE CutOff
    BY <1>1, <2>5 DEF CutOff, Phase, serverVars
  <2> QED BY <1>1, <2>1, <2>2, <2>3, <2>4, <2>5 DEF Phase, Abandoned, AnsweringNobody
<1>10. Call!Break
  BY <1>1 DEF Call!Break, Answered
<1> QED BY <1>5, <1>6, <1>9, <1>10

\* One recv of a response: the call goes on, or returns the response it got.
LEMMA ClientRecvStep ==
  ASSUME ConnectionIInv, ClientRecv
  PROVE  /\ ConnectionIInv'
         /\ UNCHANGED <<request, Answered, returned>> \/ Call!Return
<1> USE DEF ConnectionIInv
<1> DEFINE bytes(k) == More(cin, toClient, k)
           rest(k) == Rest(toClient, k)
<1>1. cpc = "receiving" /\ UNCHANGED <<nextRequestId, greeted, toServer, serverVars>>
  BY DEF ClientRecv
<1>2. PICK k \in RecvCounts(cin, toClient) :
        /\ toClient' = rest(k)
        /\ ~HeaderRefused(bytes(k))
        /\ IF Complete(bytes(k))
             THEN /\ returned' = Header(bytes(k))
                  /\ request' = None /\ cin' = <<>> /\ csent' = 0
                  /\ cpc' = "ready"
             ELSE /\ cin' = bytes(k)
                  /\ UNCHANGED <<cpc, request, csent, returned>>
  BY DEF ClientRecv, More, Rest
<1>3. request \in Requests /\ request # None
  BY <1>1 DEF ConnectionTypeOK
<1>4. PICK f \in AnswersTo(request), sent \in Nat :
        /\ Carries(cin, toClient, f, sent) /\ sent <= Size(f)
        /\ \/ Answering /\ f = response /\ sent = ssent /\ sent < Size(f)
           \/ Replied /\ sent = Size(f)
           \/ CutOff /\ sent = Size(f)
  <2>1. ~Idle(cin, toClient)
    BY <1>2, IdleNothing
  <2>2. \A f \in AnswersTo(request) : Size(f) \in Nat
    BY <1>3, AnswersFact, SizeFact
  <2>3. CASE Answering
    BY <2>2, <2>3 DEF Answering, ConnectionTypeOK
  <2>4. CASE Replied \/ CutOff
    BY <1>1, <2>1, <2>2, <2>4 DEF Replied, CutOff
  <2> QED BY <1>1, <2>1, <2>3, <2>4 DEF Phase, Quiet, Asking, Asked,
                                        Abandoned, AnsweringNobody
<1>5. f \in Frames /\ f \in Responses /\ f # None
  BY <1>3, AnswersFact
<1>6. /\ bytes(k) \o rest(k) = cin \o toClient
      /\ rest(k) \in Seq(Frames \X Nat) /\ Len(rest(k)) <= Len(toClient)
      /\ ~Complete(bytes(k)) => Carries(bytes(k), rest(k), f, sent)
      /\ Complete(bytes(k)) => sent = Size(f) /\ rest(k) = <<>> /\ Header(bytes(k)) = f
  <2>1. Carries(cin, toClient, f, sent) /\ sent <= Size(f) /\ ~HeaderRefused(bytes(k))
    BY <1>2, <1>4
  <2> QED BY <2>1, <1>5, CarriesRecv, SMTT(30)
<1> HIDE DEF bytes, rest
<1>7. toClient' \in Seq(Frames \X Nat) /\ Len(toClient') <= BufferBytes
  BY <1>2, <1>6, LenProperties DEF ConnectionTypeOK, StreamsTyped
<1>8. CASE Complete(bytes(k))
  <2>1. /\ returned' = f /\ request' = None /\ cin' = <<>> /\ csent' = 0
        /\ cpc' = "ready" /\ toClient' = <<>> /\ sent = Size(f)
    BY <1>2, <1>6, <1>8
  <2>2. Replied \/ CutOff
    BY <1>4, <2>1, <1>5, SizeFact
  <2>3. spc # "sending" /\ response = None
    BY <2>2 DEF Replied, CutOff, ConnectionTypeOK
  <2>4. ConnectionTypeOK'
    BY <1>1, <1>5, <1>7, <2>1, <2>3 DEF ConnectionTypeOK, serverVars
  <2>5. StreamsTyped' /\ NothingLeft' /\ HelloFirst'
    BY <1>1, <1>7, <2>1 DEF StreamsTyped, NothingLeft, HelloFirst, serverVars
  <2>6. Idle(cin', toClient')
    BY <2>1 DEF Idle
  <2>7. Phase'
    <3>1. CASE Replied
      <4>1. Idle(sin', toServer') /\ spc' = "receiving"
        BY <1>1, <3>1 DEF Replied, Idle, serverVars
      <4> QED BY <2>1, <2>6, <4>1 DEF Quiet, Phase
    <3>2. CASE CutOff
      BY <1>1, <2>1, <2>6, <3>2 DEF CutOff, Phase, serverVars
    <3> QED BY <2>2, <3>1, <3>2
  <2>8. Answered = f
    <3>1. 1 <= sent
      BY <1>5, <2>1, SizeFact
    <3> QED BY <1>3, <1>4, <1>5, <2>3, <3>1, AnsweredFact
  <2>9. Answered' = None
    BY <2>1 DEF Answered
  <2>10. Call!Return
    BY <1>5, <2>1, <2>8, <2>9 DEF Call!Return
  <2> QED BY <2>4, <2>5, <2>7, <2>10
<1>9. CASE ~Complete(bytes(k))
  <2>1. /\ cin' = bytes(k) /\ UNCHANGED <<cpc, request, csent, returned>>
        /\ Carries(cin', toClient', f, sent)
    BY <1>2, <1>6, <1>9
  <2>2. ConnectionTypeOK'
    BY <1>1, <1>7, <2>1 DEF ConnectionTypeOK, serverVars
  <2>3. StreamsTyped' /\ NothingLeft' /\ HelloFirst'
    BY <1>1, <1>7, <2>1 DEF StreamsTyped, NothingLeft, HelloFirst, HelloKnown, serverVars
  <2>4. f \in AnswersTo(request')
    BY <1>4, <2>1
  <2>5. Phase'
    <3>1. CASE Answering /\ f = response /\ sent = ssent
      <4>1. Idle(sin', toServer') /\ spc' = "sending" /\ response' = f /\ ssent' = ssent
        BY <1>1, <3>1 DEF Answering, Idle, serverVars
      <4>2. Carries(cin', toClient', response, ssent)
        BY <2>1, <3>1
      <4> QED BY <2>1, <2>4, <3>1, <4>1, <4>2 DEF Answering, Phase
    <3>2. CASE Replied /\ sent = Size(f)
      <4>1. Idle(sin', toServer') /\ spc' = "receiving"
        BY <1>1, <3>2 DEF Replied, Idle, serverVars
      <4> QED BY <1>1, <2>1, <2>4, <3>2, <4>1 DEF Replied, Phase
    <3>3. CASE CutOff /\ sent = Size(f)
      <4>1. spc' = "accept"
        BY <1>1, <3>3 DEF CutOff, serverVars
      <4> QED BY <1>1, <2>1, <2>4, <3>3, <4>1 DEF CutOff, Phase
    <3> QED BY <1>4, <3>1, <3>2, <3>3
  <2>6. UNCHANGED <<request, Answered, returned>>
    BY <1>1, <1>2, <1>6, <2>1 DEF Answered, serverVars
  <2> QED BY <2>2, <2>3, <2>5, <2>6
<1> QED BY <1>8, <1>9

\* One recv of a request: the server goes on receiving, or handles the very
\* request that was sent.
LEMMA ServerRecvStep ==
  ASSUME ConnectionIInv, ServerRecv
  PROVE  /\ ConnectionIInv'
         /\ UNCHANGED <<request, Answered, returned>> \/ Call!Handle
<1> USE DEF ConnectionIInv
<1> DEFINE bytes(k) == More(sin, toServer, k)
           rest(k) == Rest(toServer, k)
<1>1. spc = "receiving" /\ UNCHANGED <<clientVars, toClient>>
  BY DEF ServerRecv
<1>2. PICK k \in RecvCounts(sin, toServer) :
        /\ toServer' = rest(k)
        /\ ~HeaderRefused(bytes(k))
        /\ IF Complete(bytes(k))
             THEN /\ Dispatch(Header(bytes(k)))
                  /\ sin' = <<>> /\ ssent' = 0
                  /\ spc' = "sending"
             ELSE /\ sin' = bytes(k)
                  /\ UNCHANGED <<spc, response, ssent, handshake, touched>>
  BY DEF ServerRecv, More, Rest
<1>3. ~Idle(sin, toServer) /\ response = None
  BY <1>1, <1>2, IdleNothing DEF ConnectionTypeOK
<1>4. PICK q \in Requests, sent \in Nat :
        /\ Carries(sin, toServer, q, sent) /\ sent <= Size(q) /\ HelloKnown(q)
        /\ \/ Asking /\ q = request /\ sent = csent /\ sent < Size(q)
           \/ Asked /\ q = request /\ sent = Size(q)
           \/ Abandoned
  <2>1. \A q \in Requests : Size(q) \in Nat
    BY SizeFact DEF Frames
  <2>2. CASE Asking \/ Asked
    <3>1. request \in Requests /\ csent \in Nat /\ HelloKnown(request)
      BY <2>2 DEF Asking, Asked, ConnectionTypeOK, HelloFirst
    <3> QED BY <2>1, <2>2, <3>1 DEF Asking, Asked
  <2>3. CASE Abandoned
    BY <1>3, <2>3 DEF Abandoned
  <2> QED BY <1>1, <1>3, <2>2, <2>3 DEF Phase, Quiet, Answering, Replied,
                                        AnsweringNobody, CutOff
<1>5. q \in Frames
  BY DEF Frames
<1>6. /\ rest(k) \in Seq(Frames \X Nat) /\ Len(rest(k)) <= Len(toServer)
      /\ ~Complete(bytes(k)) => Carries(bytes(k), rest(k), q, sent)
      /\ Complete(bytes(k)) => sent = Size(q) /\ rest(k) = <<>> /\ Header(bytes(k)) = q
  <2>1. Carries(sin, toServer, q, sent) /\ sent <= Size(q) /\ ~HeaderRefused(bytes(k))
    BY <1>2, <1>4
  <2> QED BY <2>1, <1>5, CarriesRecv
<1> HIDE DEF bytes, rest
<1>7. toServer' \in Seq(Frames \X Nat) /\ Len(toServer') <= BufferBytes
  BY <1>2, <1>6, LenProperties DEF ConnectionTypeOK, StreamsTyped
<1>8. CASE Complete(bytes(k))
  <2>1. /\ Dispatch(q) /\ sin' = <<>> /\ ssent' = 0 /\ spc' = "sending"
        /\ toServer' = <<>> /\ sent = Size(q)
    BY <1>2, <1>6, <1>8
  <2>2. /\ response' \in AnswersTo(q) /\ response' \in Responses /\ response' # None
        /\ response' \in Frames /\ 0 < Size(response')
    BY <2>1, DispatchFact, AnswersFact, SizeFact
  <2>3. ConnectionTypeOK'
    <3>1. {handshake', touched', greeted'} \subseteq BOOLEAN
      BY <1>1, <2>1, DispatchFact DEF ConnectionTypeOK, clientVars
    <3> QED BY <1>1, <1>7, <2>1, <2>2, <3>1 DEF ConnectionTypeOK, clientVars
  <2>4. HelloFirst'
    <3>1. (handshake' => handshake \/ q.kind = "Hello") /\ (touched' => touched \/ handshake)
      BY <2>1, DispatchFact
    <3>2. UNCHANGED <<request, greeted>>
      BY <1>1 DEF clientVars
    <3> QED BY <1>4, <3>1, <3>2 DEF HelloFirst, HelloKnown
  <2>5. StreamsTyped' /\ NothingLeft'
    BY <1>1, <1>7 DEF StreamsTyped, NothingLeft, clientVars
  <2>6. Idle(sin', toServer')
    BY <2>1 DEF Idle
  <2>7. Asked \/ Abandoned
    BY <1>4, <2>1, <1>5, SizeFact
  <2>8. CASE Asked
    <3>1. q = request /\ cpc' = "receiving" /\ request' = request /\ returned' = returned
      BY <1>1, <1>4, <2>8 DEF Asking, Asked, Abandoned, clientVars
    <3>2. Idle(cin', toClient') /\ Idle(cin, toClient)
      BY <1>1, <2>8 DEF Asked, Idle, clientVars
    <3>3. Carries(cin', toClient', response', ssent')
      BY <2>1, <2>2, <3>2, CarriesIdle
    <3>4. Answering'
      BY <2>1, <2>2, <2>6, <3>1, <3>3 DEF Answering
    <3>5. Answered = None
      BY <1>3, <3>1, <3>2, AnsweredFact
    <3>6. Answered' = response'
      BY <2>2, <3>1 DEF Answered, ConnectionTypeOK
    <3>7. Call!Handle
      BY <2>2, <3>1, <3>5, <3>6 DEF Call!Handle, AnswersTo
    <3> QED BY <2>3, <2>4, <2>5, <3>4, <3>7 DEF Phase
  <2>9. CASE Abandoned
    <3>1. AnsweringNobody'
      BY <1>1, <2>1, <2>2, <2>6, <2>9 DEF Abandoned, AnsweringNobody, clientVars
    <3>2. request = None /\ UNCHANGED <<request, returned>>
      BY <1>1, <2>9 DEF Abandoned, ConnectionTypeOK, clientVars
    <3>3. UNCHANGED Answered
      BY <3>2 DEF Answered
    <3> QED BY <2>3, <2>4, <2>5, <3>1, <3>2, <3>3 DEF Phase
  <2> QED BY <2>7, <2>8, <2>9
<1>9. CASE ~Complete(bytes(k))
  <2>1. /\ sin' = bytes(k) /\ UNCHANGED <<spc, response, ssent, handshake, touched>>
        /\ Carries(sin', toServer', q, sent)
    BY <1>2, <1>6, <1>9
  <2>2. ConnectionTypeOK'
    BY <1>1, <1>7, <2>1 DEF ConnectionTypeOK, clientVars
  <2>3. StreamsTyped' /\ NothingLeft' /\ HelloFirst'
    BY <1>1, <1>7, <2>1 DEF StreamsTyped, NothingLeft, HelloFirst, HelloKnown, clientVars
  <2>4. Phase'
    <3>1. CASE Asking /\ q = request /\ sent = csent
      <4>1. Idle(cin', toClient') /\ Carries(sin', toServer', request', csent')
        BY <1>1, <2>1, <3>1 DEF Asking, Idle, clientVars
      <4> QED BY <1>1, <2>1, <3>1, <4>1 DEF Asking, Phase, clientVars
    <3>2. CASE Asked /\ q = request /\ sent = Size(q)
      <4>1. Idle(cin', toClient') /\ Carries(sin', toServer', request', Size(request'))
        BY <1>1, <2>1, <3>2 DEF Asked, Idle, clientVars
      <4> QED BY <1>1, <2>1, <3>2, <4>1 DEF Asked, Phase, clientVars
    <3>3. CASE Abandoned
      <4>1. HelloKnown(q)' /\ cpc' = "closed" /\ spc' = "receiving"
        BY <1>1, <1>4, <2>1, <3>3 DEF Abandoned, HelloKnown, clientVars
      <4> QED BY <1>4, <2>1, <4>1 DEF Abandoned, Phase
    <3> QED BY <1>4, <3>1, <3>2, <3>3
  <2>5. UNCHANGED <<request, Answered, returned>>
    BY <1>1, <2>1 DEF Answered, clientVars
  <2> QED BY <2>2, <2>3, <2>4, <2>5
<1> QED BY <1>8, <1>9

\* One send of a response, to the client or to nobody.
LEMMA ServerSendStep ==
  ASSUME ConnectionIInv, ServerSend
  PROVE  ConnectionIInv' /\ UNCHANGED <<request, Answered, returned>>
<1> USE DEF ConnectionIInv
<1>1. spc = "sending" /\ UNCHANGED <<clientVars, toServer, sin, handshake, touched>>
  BY DEF ServerSend
<1>2. response \in Responses /\ response \in Frames /\ response # None /\ ssent \in Nat
  BY <1>1 DEF ConnectionTypeOK, Frames
<1>3. Answering \/ AnsweringNobody
  BY <1>1 DEF Phase, Quiet, Asking, Asked, Replied, Abandoned, CutOff
<1>4. ssent <= Size(response) /\ Size(response) \in Nat /\ 1 <= Size(response)
  BY <1>2, <1>3, SizeFact DEF Answering, AnsweringNobody
<1>5. PICK k \in SendCounts(response, ssent, toClient) :
        /\ toClient' = toClient \o SubSeq(Bytes(response), ssent + 1, ssent + k)
        /\ IF SentAll(k)
             THEN spc' = "receiving" /\ response' = None /\ ssent' = 0
             ELSE ssent' = ssent + k /\ UNCHANGED <<spc, response>>
  BY DEF ServerSend
<1>6. toClient \in Seq(Frames \X Nat) /\ Len(toClient) <= BufferBytes
  BY DEF StreamsTyped, ConnectionTypeOK
<1>7. /\ k \in Nat /\ ssent + k \in Nat /\ ssent + k <= Size(response)
      /\ toClient' \in Seq(Frames \X Nat) /\ Len(toClient') <= BufferBytes
  BY <1>2, <1>4, <1>5, <1>6, SendFact
<1>8. SentAll(k) <=> ssent + k = Size(response)
  BY <1>2, BytesFact DEF SentAll
<1>9. ConnectionTypeOK'
  BY <1>1, <1>2, <1>5, <1>7 DEF ConnectionTypeOK, clientVars
<1>10. StreamsTyped' /\ NothingLeft' /\ HelloFirst'
  BY <1>1, <1>7 DEF StreamsTyped, NothingLeft, HelloFirst, HelloKnown, clientVars
<1>11. CASE Answering
  <2>1. Carries(cin', toClient', response, ssent + k)
    BY <1>1, <1>2, <1>4, <1>5, <1>7, <1>11, CarriesSend DEF Answering, clientVars
  <2>2. /\ Idle(sin', toServer') /\ cpc' = "receiving" /\ request' = request
        /\ response \in AnswersTo(request')
    BY <1>1, <1>11 DEF Answering, Idle, clientVars
  <2>3. request \in Requests /\ Answered = response /\ returned' = returned
    BY <1>1, <1>2, <1>11, AnsweredFact DEF Answering, ConnectionTypeOK, clientVars
  <2>4. CASE SentAll(k)
    <3>1. spc' = "receiving" /\ response' = None /\ ssent + k = Size(response)
      BY <1>5, <1>8, <2>4
    <3>2. Replied'
      BY <2>1, <2>2, <3>1 DEF Replied
    <3>3. Answered' = response
      <4>1. cin' \o toClient' # <<>> /\ (cin' \o toClient')[1][1] = response
        BY <1>2, <1>4, <2>1, <3>1, CarriesFirst
      <4>2. request' # None
        BY <2>2, <2>3
      <4> QED BY <3>1, <4>1, <4>2 DEF Answered
    <3> QED BY <1>9, <1>10, <2>2, <2>3, <3>2, <3>3 DEF Phase
  <2>5. CASE ~SentAll(k)
    <3>1. /\ ssent' = ssent + k /\ spc' = "sending" /\ response' = response
          /\ ssent' < Size(response)
      BY <1>1, <1>4, <1>5, <1>7, <1>8, <2>5
    <3>2. Answering'
      BY <2>1, <2>2, <3>1 DEF Answering
    <3>3. Answered' = response
      BY <1>2, <2>2, <2>3, <3>1 DEF Answered
    <3> QED BY <1>9, <1>10, <2>2, <2>3, <3>2, <3>3 DEF Phase
  <2> QED BY <2>4, <2>5
<1>12. CASE AnsweringNobody
  <2>1. Idle(sin', toServer') /\ cpc' = "closed" /\ request' = None /\ request = None
    BY <1>1, <1>12 DEF AnsweringNobody, Idle, ConnectionTypeOK, clientVars
  <2>2. UNCHANGED <<request, Answered, returned>>
    BY <1>1, <2>1 DEF Answered, clientVars
  <2>3. Phase'
    <3>1. CASE SentAll(k)
      BY <1>5, <2>1, <3>1 DEF Abandoned, Phase
    <3>2. CASE ~SentAll(k)
      <4>1. ssent' = ssent + k /\ spc' = "sending" /\ ssent' < Size(response')
        BY <1>1, <1>4, <1>5, <1>7, <1>8, <3>2
      <4> QED BY <2>1, <4>1 DEF AnsweringNobody, Phase
    <3> QED BY <3>1, <3>2
  <2> QED BY <1>9, <1>10, <2>2, <2>3
<1> QED BY <1>3, <1>11, <1>12

\* The server's end closes: never while a client waits for a response of which
\* it has a part.
LEMMA ServerCloseStep ==
  ASSUME ConnectionIInv, ServerClose
  PROVE  ConnectionIInv' /\ UNCHANGED <<request, Answered, returned>>
<1> USE DEF ConnectionIInv
<1>1. /\ spc' = "accept" /\ response' = None /\ sin' = <<>> /\ ssent' = 0
      /\ toServer' = <<>>
      /\ UNCHANGED <<clientVars, toClient, handshake, touched>>
  BY DEF ServerClose
<1>2. spc = "sending" => cpc = "closed"
  BY DEF ServerClose, ServingEnds
<1>3. ConnectionTypeOK'
  <2>1. Len(toServer') = 0
    BY <1>1, EmptySeq
  <2> QED BY <1>1, <2>1 DEF ConnectionTypeOK, clientVars
<1>4. StreamsTyped' /\ NothingLeft' /\ HelloFirst'
  BY <1>1, EmptySeq DEF StreamsTyped, NothingLeft, HelloFirst, HelloKnown, clientVars
<1>5. CutOff'
  <2>1. cpc \in {"ready", "sending"} => Idle(cin, toClient)
    BY DEF Phase, Quiet, Asking, Asked, Answering, Replied,
           Abandoned, AnsweringNobody, CutOff
  <2>2. cpc = "sending" => csent < Size(request)
    BY DEF Phase, Quiet, Asking, Asked, Answering, Replied,
           Abandoned, AnsweringNobody, CutOff
  <2>3. cpc = "receiving" =>
          \/ Idle(cin, toClient)
          \/ \E f \in AnswersTo(request) : Carries(cin, toClient, f, Size(f))
    BY <1>2 DEF Phase, Quiet, Asking, Asked, Answering, Replied,
                Abandoned, AnsweringNobody, CutOff
  <2> QED BY <1>1, <2>1, <2>2, <2>3 DEF CutOff, clientVars
<1>6. UNCHANGED <<request, Answered, returned>>
  <2>1. request = None \/ response = None
    BY <1>2 DEF ConnectionTypeOK
  <2> QED BY <1>1, <2>1 DEF Answered, clientVars
<1> QED BY <1>3, <1>4, <1>5, <1>6 DEF Phase

\* Every step preserves the invariant and is a step of a call, or none of it.
LEMMA ConnectionStep ==
  ASSUME ConnectionIInv, [ConnectionNext]_connectionVars
  PROVE  ConnectionIInv' /\ [Call!Next]_<<request, Answered, returned>>
<1>1. CASE UNCHANGED connectionVars
  BY <1>1 DEF connectionVars, clientVars, serverVars, Answered, ConnectionIInv,
              ConnectionTypeOK, StreamsTyped, NothingLeft, HelloFirst, HelloKnown,
              Phase, Quiet, Asking, Asked, Answering, Replied, Abandoned,
              AnsweringNobody, CutOff, Idle
<1>2. ASSUME NEW q \in Requests, Ask(q)
      PROVE  ConnectionIInv' /\ Call!Next
  BY <1>2, AskStep DEF Call!Next
<1>3. CASE Accept
  BY <1>3, AcceptStep
<1>4. CASE ClientSend
  BY <1>4, ClientSendStep
<1>5. CASE ClientRecv
  BY <1>5, ClientRecvStep DEF Call!Next
<1>6. CASE ClientClose
  BY <1>6, ClientCloseStep DEF Call!Next
<1>7. CASE ServerRecv
  BY <1>7, ServerRecvStep DEF Call!Next
<1>8. CASE ServerSend
  BY <1>8, ServerSendStep
<1>9. CASE ServerClose
  BY <1>9, ServerCloseStep
<1> QED
  BY <1>1, <1>2, <1>3, <1>4, <1>5, <1>6, <1>7, <1>8, <1>9 DEF ConnectionNext, ServerStep

\* The invariant holds of every connection.
LEMMA ConnectionInvariant == ConnectionSpec => []ConnectionIInv
<1>1. ConnectionIInv /\ [ConnectionNext]_connectionVars => ConnectionIInv'
  BY ConnectionStep
<1> QED BY <1>1, ConnectionInitInvariant, PTL DEF ConnectionSpec

\* Both ends are well typed: in particular neither direction of the stream
\* ever holds more than a socket takes.
THEOREM ConnectionTypeCorrect == ConnectionSpec => []ConnectionTypeOK
<1>1. ConnectionIInv => ConnectionTypeOK
  BY DEF ConnectionIInv
<1> QED BY <1>1, ConnectionInvariant, PTL

\* Nothing is stored or computed for a connection on which no acceptable HELLO
\* was sent.
THEOREM NothingBeforeHello == ConnectionSpec => []GreetedFirst
<1>1. ConnectionIInv => GreetedFirst
  BY DEF ConnectionIInv, HelloFirst, GreetedFirst
<1> QED BY <1>1, ConnectionInvariant, PTL

\* However the stream cuts and joins bytes, a connection implements calls: each
\* is handled once, on the frame sent, and returns the response to it.
THEOREM CallsImplemented == ConnectionSpec => ImplementsCalls
<1>1. ConnectionInit => Call!Init
  BY DEF ConnectionInit, Call!Init, Answered
<1>2. ConnectionIInv /\ [ConnectionNext]_connectionVars =>
        [Call!Next]_<<request, Answered, returned>>
  BY ConnectionStep
<1>3. <<request, Answered, returned>> = Call!callVars
  BY DEF Call!callVars
<1> QED
  BY <1>1, <1>2, ConnectionInvariant, PTL
     DEF ConnectionSpec, ImplementsCalls, Call!Spec, Call!callVars

-------------------------------------------------------------------------------
(* The tensor registry. *)

(***************************************************************************)
(* Why no id is given twice although the counter wraps: until it reaches 0 *)
(* every id in use lies below it, and at 0 no id is ever given again.      *)
(***************************************************************************)
BelowCounter ==
  nextId # 0 =>
    /\ \A n \in Names : Known(n) => nameId[n] < nextId
    /\ \A i \in Ids : tensors[i] # NoTensor => i < nextId

\* A stored tensor is the one its own name leads to.
OwnName == \A i \in Ids : tensors[i] # NoTensor => nameId[tensors[i].name] = i

IInv == TypeOK /\ BelowCounter /\ OwnName /\ IndexSound /\ AnswerHeld

USE IdSpaceAssumption, ContentAssumption, NoTensorAssumption

\* Incrementing the counter either reaches a larger id or wraps to 0.
LEMMA SuccessorFact ==
  ASSUME NEW i \in Ids
  PROVE  Successor(i) \in Ids /\ (Successor(i) = 0 \/ Successor(i) = i + 1)
<1>1. CASE i + 1 = IdSpace
  BY <1>1 DEF Ids, Successor
<1>2. CASE i + 1 < IdSpace
  BY <1>2 DEF Ids, Successor
<1> QED BY <1>1, <1>2 DEF Ids

\* The registry starts in the invariant: no name, no tensor.
LEMMA InitInvariant == Init => IInv
<1> SUFFICES ASSUME Init PROVE IInv
  OBVIOUS
<1> USE DEF Init
<1>1. TypeOK
  BY DEF TypeOK, Ids, FirstId, Answers, Nothing
<1>2. AnswerHeld
  BY DEF AnswerHeld, Nothing
<1>3. BelowCounter /\ OwnName /\ IndexSound
  BY DEF BelowCounter, OwnName, IndexSound, Known, Indexed, NoId, Ids
<1> QED BY <1>1, <1>2, <1>3 DEF IInv

\* The calls that answer without touching the maps or the counter.
LEMMA QuietStep ==
  ASSUME IInv, UNCHANGED <<nameId, tensors, nextId>>,
         answer' = answer \/ answer' = Refused
  PROVE  IInv'
<1> USE DEF IInv
<1>1. TypeOK'
  BY DEF TypeOK, Answers
<1>2. BelowCounter' /\ OwnName' /\ IndexSound'
  BY DEF BelowCounter, OwnName, IndexSound, Known, Indexed
<1>3. AnswerHeld'
  BY DEF AnswerHeld, Refused
<1> QED BY <1>1, <1>2, <1>3

\* A repeated upload answers with the tensor the name leads to.
LEMMA ReloadStep ==
  ASSUME IInv, NEW n \in Names, NEW c \in Contents, Reload(n, c)
  PROVE  IInv'
<1> USE DEF IInv, Reload
<1>1. CASE ~(Indexed(n) /\ SameMeta(n, c))
  BY <1>1, QuietStep
<1>2. CASE Indexed(n) /\ SameMeta(n, c)
  <2> DEFINE t == tensors[nameId[n]]
  <2>1. nameId[n] \in Ids /\ t \in Tensors /\ t.name = n
    BY <1>2 DEF TypeOK, IndexSound, Indexed, Known, NoId
  <2>2. t = [name |-> n, content |-> t.content] /\ t.content \in Contents
    BY <2>1 DEF Tensors
  <2>3. answer' = Loaded(n, c, t.content, nameId[n])
    BY <1>2
  <2>7. t.content = c
    BY <1>2, <2>2, HashAssumption DEF SameMeta
  <2>4. TypeOK'
    BY <2>1, <2>2, <2>3 DEF TypeOK, Answers
  <2>5. BelowCounter' /\ OwnName' /\ IndexSound'
    BY DEF BelowCounter, OwnName, IndexSound, Known, Indexed
  <2>6. AnswerHeld'
    BY <2>2, <2>3, <2>7 DEF AnswerHeld, Loaded
  <2> QED BY <2>4, <2>5, <2>6
<1> QED BY <1>1, <1>2

\* A fresh upload takes the next id, whatever becomes of the tensor.
LEMMA FreshStep ==
  ASSUME IInv, NEW n \in Names, NEW c \in Contents,
         IdLost(n, c) \/ TensorLost(n, c) \/ Store(n, c)
  PROVE  IInv'
<1> USE DEF IInv
<1>1. Fresh(n, c) /\ nextId' = Successor(nextId)
  BY DEF IdLost, TensorLost, Store
<1>2. nextId # 0 /\ ~Known(n) /\ nextId \in Ids /\ nextId' \in Ids
  BY <1>1, SuccessorFact DEF Fresh, Exhausted, TypeOK
<1>3. nextId' = 0 \/ nextId' = nextId + 1
  BY <1>1, SuccessorFact DEF TypeOK
<1>4. nextId # NoId
  BY <1>2 DEF Ids, NoId
<1>5. tensors[nextId] = NoTensor
  BY <1>2 DEF BelowCounter, Ids
<1>6. \A m \in Names : Known(m) => nameId[m] # nextId
  BY <1>2 DEF BelowCounter, TypeOK, Ids, NoId, Known
<1>7. \A i \in Ids : tensors[i] # NoTensor => tensors[i].name # n
  BY <1>2 DEF OwnName, Known, Ids, NoId
<1>8. CASE IdLost(n, c)
  <2>1. UNCHANGED <<nameId, tensors>> /\ answer' = Refused
    BY <1>8 DEF IdLost
  <2>2. TypeOK'
    BY <2>1, <1>2 DEF TypeOK, Answers
  <2>3. BelowCounter'
    BY <2>1, <1>2, <1>3 DEF BelowCounter, TypeOK, Known, Ids, NoId
  <2>4. OwnName' /\ IndexSound' /\ AnswerHeld'
    BY <2>1 DEF OwnName, IndexSound, AnswerHeld, Known, Indexed, Refused
  <2> QED BY <2>2, <2>3, <2>4
<1>9. CASE TensorLost(n, c)
  <2>1. /\ nameId' = [nameId EXCEPT ![n] = nextId]
        /\ tensors' = tensors
        /\ answer' = Refused
    BY <1>9 DEF TensorLost
  <2>2. TypeOK'
    BY <2>1, <1>2 DEF TypeOK, Answers
  <2>3. BelowCounter'
    BY <2>1, <1>2, <1>3 DEF BelowCounter, TypeOK, Known, Ids, NoId
  <2>4. OwnName'
    BY <2>1, <1>7 DEF OwnName, TypeOK, Tensors
  <2>5. IndexSound'
    BY <2>1, <1>2, <1>4, <1>5, <1>6 DEF IndexSound, TypeOK, Known, Indexed
  <2>6. AnswerHeld'
    BY <2>1 DEF AnswerHeld, Refused
  <2> QED BY <2>2, <2>3, <2>4, <2>5, <2>6
<1>10. CASE Store(n, c)
  <2> DEFINE t == [name |-> n, content |-> c]
  <2>1. /\ nameId' = [nameId EXCEPT ![n] = nextId]
        /\ tensors' = [tensors EXCEPT ![nextId] = t]
        /\ answer' = Loaded(n, c, c, nextId)
    BY <1>10, <1>5 DEF Store, Emplaced
  <2>2. t \in Tensors /\ t # NoTensor /\ t.name = n
    BY DEF Tensors
  <2>3. TypeOK'
    BY <2>1, <2>2, <1>2 DEF TypeOK, Answers
  <2>4. BelowCounter'
    BY <2>1, <1>2, <1>3 DEF BelowCounter, TypeOK, Known, Ids, NoId
  <2>5. OwnName'
    BY <2>1, <2>2, <1>2, <1>7 DEF OwnName, TypeOK, Tensors
  <2>6. IndexSound'
    BY <2>1, <2>2, <1>2, <1>4, <1>6 DEF IndexSound, TypeOK, Known, Indexed
  <2>7. AnswerHeld'
    BY <2>1, <1>2 DEF AnswerHeld, Loaded, TypeOK
  <2> QED BY <2>3, <2>4, <2>5, <2>6, <2>7
<1> QED BY <1>8, <1>9, <1>10

\* Every call of store_tensor preserves the invariant.
LEMMA NextInvariant == IInv /\ [Next]_vars => IInv'
<1> SUFFICES ASSUME IInv, [Next]_vars PROVE IInv'
  OBVIOUS
<1>1. CASE UNCHANGED vars
  BY <1>1, QuietStep DEF vars
<1>2. ASSUME NEW n \in Names, NEW c \in Contents, StoreTensor(n, c)
      PROVE  IInv'
  <2>1. CASE RefuseContent(n, c) \/ RefuseExhausted(n, c) \/ DeviceAllocationFails(n, c)
    BY <2>1, QuietStep DEF RefuseContent, RefuseExhausted, DeviceAllocationFails
  <2>2. CASE Reload(n, c)
    BY <2>2, ReloadStep
  <2>3. CASE IdLost(n, c) \/ TensorLost(n, c) \/ Store(n, c)
    BY <2>3, FreshStep
  <2> QED BY <1>2, <2>1, <2>2, <2>3 DEF StoreTensor
<1> QED BY <1>1, <1>2 DEF Next

LEMMA Invariant == Spec => []IInv
<1> QED BY InitInvariant, NextInvariant, PTL DEF Spec

\* The registry is well typed: in particular the counter stays a u32.
THEOREM TypeCorrect == Spec => []TypeOK
<1>1. IInv => TypeOK
  BY DEF IInv
<1> QED BY <1>1, Invariant, PTL

\* Names never share an id and a tensor is filed under its own name's id.
THEOREM IndexIsSound == Spec => []IndexSound
<1>1. IInv => IndexSound
  BY DEF IInv
<1> QED BY <1>1, Invariant, PTL

\* A TENSOR_LOADED answer describes what the registry holds.
THEOREM AnswersAreHeld == Spec => []AnswerHeld
<1>1. IInv => AnswerHeld
  BY DEF IInv
<1> QED BY <1>1, Invariant, PTL

\* What a fresh call relies on: the next id is unused in both maps.
LEMMA NextIdUnused ==
  ASSUME IInv, NEW n \in Names, NEW c \in Contents, Fresh(n, c)
  PROVE  /\ nextId \in Ids /\ nextId # NoId
         /\ tensors[nextId] = NoTensor
         /\ \A m \in Names : nameId[m] # nextId
<1>1. nextId # 0 /\ nextId \in Ids
  BY DEF Fresh, Exhausted, IInv, TypeOK
<1>2. nextId # NoId
  BY <1>1 DEF Ids, NoId
<1>3. tensors[nextId] = NoTensor
  BY <1>1 DEF IInv, BelowCounter, Ids
<1>4. \A m \in Names : nameId[m] # nextId
  BY <1>1, <1>2 DEF IInv, BelowCounter, TypeOK, Ids, NoId, Known
<1> QED BY <1>1, <1>2, <1>3, <1>4

\* One call never replaces a tensor, rebinds a name or reuses an id.
LEMMA NeverReassignedStep ==
  ASSUME IInv, [Next]_vars
  PROVE  /\ \A i \in Ids : tensors[i] # NoTensor => tensors'[i] = tensors[i]
         /\ \A m \in Names : Known(m) => nameId'[m] = nameId[m]
         /\ \A m \in Names : nameId'[m] # nameId[m] =>
              \A k \in Names : nameId[k] # nameId'[m]
<1>1. CASE UNCHANGED <<nameId, tensors>>
  BY <1>1
<1>2. ASSUME NEW n \in Names, NEW c \in Contents, TensorLost(n, c) \/ Store(n, c)
      PROVE  /\ \A i \in Ids : tensors[i] # NoTensor => tensors'[i] = tensors[i]
             /\ \A m \in Names : Known(m) => nameId'[m] = nameId[m]
             /\ \A m \in Names : nameId'[m] # nameId[m] =>
                  \A k \in Names : nameId[k] # nameId'[m]
  <2>1. Fresh(n, c) /\ nameId' = [nameId EXCEPT ![n] = nextId]
    BY <1>2 DEF TensorLost, Store
  <2>2. \A i \in Ids : tensors[i] # NoTensor => tensors'[i] = tensors[i]
    BY <1>2, <2>1, NextIdUnused DEF TensorLost, Store, Emplaced, IInv, TypeOK
  <2>3. ~Known(n)
    BY <2>1 DEF Fresh
  <2>4. \A m \in Names : m # n => nameId'[m] = nameId[m]
    BY <2>1 DEF IInv, TypeOK
  <2>5. nameId'[n] = nextId
    BY <2>1 DEF IInv, TypeOK
  <2> QED BY <2>1, <2>2, <2>3, <2>4, <2>5, NextIdUnused
<1> QED
  BY <1>1, <1>2 DEF Next, vars, StoreTensor, RefuseContent, Reload,
                    RefuseExhausted, DeviceAllocationFails, IdLost

\* Ids and bindings are permanent, whatever the width of the counter.
THEOREM NothingReassigned == Spec => NeverReassigned
<1>1. IInv /\ [Next]_vars =>
        [/\ \A i \in Ids : tensors[i] # NoTensor => tensors'[i] = tensors[i]
         /\ \A n \in Names : Known(n) => nameId'[n] = nameId[n]
         /\ \A n \in Names : nameId'[n] # nameId[n] =>
              \A m \in Names : nameId[m] # nameId'[n]]_vars
  BY NeverReassignedStep
<1> QED BY <1>1, Invariant, PTL DEF Spec, NeverReassigned

\* A registered name loses its tensor in no step, and only TensorLost registers
\* one without it.
LEMMA IndexKeptStep ==
  ASSUME IInv, [Next]_vars, IndexComplete
  PROVE  IndexComplete' \/ \E n \in Names, c \in Contents : TensorLost(n, c)
<1>1. CASE UNCHANGED <<nameId, tensors>>
  BY <1>1 DEF IndexComplete, Indexed, Known
<1>2. ASSUME NEW n \in Names, NEW c \in Contents, Store(n, c)
      PROVE  IndexComplete'
  <2> DEFINE t == [name |-> n, content |-> c]
  <2>1. Fresh(n, c) /\ nameId' = [nameId EXCEPT ![n] = nextId]
    BY <1>2 DEF Store
  <2>2. tensors' = [tensors EXCEPT ![nextId] = t]
    BY <1>2, <2>1, NextIdUnused DEF Store, Emplaced
  <2>3. t # NoTensor
    BY DEF Tensors
  <2>4. nameId'[n] = nextId /\ tensors'[nextId] = t
    BY <2>1, <2>2, NextIdUnused DEF IInv, TypeOK
  <2>5. SUFFICES ASSUME NEW m \in Names, nameId'[m] # NoId
                 PROVE  tensors'[nameId'[m]] # NoTensor
    BY DEF IndexComplete, Indexed, Known
  <2>6. CASE m = n
    BY <2>3, <2>4, <2>6
  <2>7. CASE m # n
    <3>1. nameId'[m] = nameId[m] /\ nameId[m] # nextId
      BY <2>1, <2>7, NextIdUnused DEF IInv, TypeOK
    <3>2. tensors[nameId[m]] # NoTensor
      BY <2>5, <3>1 DEF IndexComplete, Indexed, Known
    <3>3. nameId[m] \in Ids
      BY <2>5, <3>1 DEF IInv, TypeOK
    <3> QED BY <2>2, <3>1, <3>2, <3>3 DEF IInv, TypeOK
  <2> QED BY <2>6, <2>7
<1> QED
  BY <1>1, <1>2 DEF Next, vars, StoreTensor, RefuseContent, Reload,
                    RefuseExhausted, DeviceAllocationFails, IdLost

\* Running out of host memory between the two maps is the only way to a name
\* without its tensor.
THEOREM OnlyLostTensorsAreMissing == Spec => IndexKept
<1>1. IInv /\ [Next]_vars =>
        [IndexComplete => IndexComplete' \/ \E n \in Names, c \in Contents : TensorLost(n, c)]_vars
  BY IndexKeptStep
<1> QED BY <1>1, Invariant, PTL DEF Spec, IndexKept

(***************************************************************************)
(* The registry implements the write-once store: only Store shows in the   *)
(* binding, as one Bind; a lost tensor leaves its name unbound.            *)
(***************************************************************************)
LEMMA BindingInit == Init => Abstract!Init
<1> QED BY DEF Init, Abstract!Init, Binding, Indexed, Known

LEMMA BindingStep ==
  ASSUME IInv, [Next]_vars
  PROVE  [Abstract!Next]_Binding
<1>1. CASE UNCHANGED <<nameId, tensors>>
  BY <1>1 DEF Binding, Indexed, Known
<1>2. ASSUME NEW n \in Names, NEW c \in Contents, TensorLost(n, c)
      PROVE  Binding' = Binding
  <2>1. /\ Fresh(n, c)
        /\ nameId' = [nameId EXCEPT ![n] = nextId]
        /\ tensors' = tensors
    BY <1>2 DEF TensorLost
  <2>2. ~Indexed(n) /\ ~Indexed(n)'
    BY <2>1, NextIdUnused DEF Fresh, Indexed, IInv, TypeOK
  <2>3. \A m \in Names : m # n => nameId'[m] = nameId[m]
    BY <2>1 DEF IInv, TypeOK
  <2> QED BY <2>1, <2>2, <2>3 DEF Binding, Indexed, Known
<1>3. ASSUME NEW n \in Names, NEW c \in Contents, Store(n, c)
      PROVE  Abstract!Next
  <2> DEFINE t == [name |-> n, content |-> c]
  <2>1. Fresh(n, c) /\ nameId' = [nameId EXCEPT ![n] = nextId]
    BY <1>3 DEF Store
  <2>2. tensors' = [tensors EXCEPT ![nextId] = t]
    BY <1>3, <2>1, NextIdUnused DEF Store, Emplaced
  <2>3. t # NoTensor
    BY DEF Tensors
  <2>4. ~Indexed(n) /\ nameId'[n] = nextId /\ tensors'[nextId] = t
    BY <2>1, <2>2, NextIdUnused DEF Fresh, Indexed, IInv, TypeOK
  <2>5. \A m \in Names : m # n => /\ nameId'[m] = nameId[m]
                                  /\ nameId[m] # nextId
    BY <2>1, NextIdUnused DEF IInv, TypeOK
  <2>6. \A m \in Names : m # n => Indexed(m)' = Indexed(m)
    BY <2>2, <2>5 DEF Indexed, Known, IInv, TypeOK
  <2>7. \A m \in Names : m # n => Binding'[m] = Binding[m]
    <3> SUFFICES ASSUME NEW m \in Names, m # n PROVE Binding'[m] = Binding[m]
      OBVIOUS
    <3>1. Indexed(m) => tensors'[nameId[m]] = tensors[nameId[m]]
      BY <2>2, <2>5 DEF Indexed, Known, IInv, TypeOK
    <3> QED BY <3>1, <2>5, <2>6 DEF Binding
  <2>8. Binding[n] = NoContent /\ Binding'[n] = c
    BY <2>3, <2>4, NextIdUnused, <2>1 DEF Binding, Indexed, Known
  <2>9. Binding' = [Binding EXCEPT ![n] = c]
    BY <2>7, <2>8 DEF Binding
  <2> QED BY <2>8, <2>9 DEF Abstract!Next, Abstract!Bind, Abstract!MayBind
<1> QED
  BY <1>1, <1>2, <1>3 DEF Next, vars, StoreTensor, RefuseContent, Reload,
                          RefuseExhausted, DeviceAllocationFails, IdLost

\* store_tensor implements the write-once store of tensor contents.
THEOREM Implementation == Spec => ImplementsStore
<1>1. Init => Abstract!Init
  BY BindingInit
<1>2. IInv /\ [Next]_vars => [Abstract!Next]_Binding
  BY BindingStep
<1> QED BY <1>1, <1>2, Invariant, PTL DEF Spec, ImplementsStore, Abstract!Spec

===============================================================================
