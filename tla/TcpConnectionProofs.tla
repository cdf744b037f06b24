------------------------ MODULE TcpConnectionProofs ------------------------
(***************************************************************************)
(* What TcpConnection keeps for any number of threads and any payloads     *)
(* whose length fits a frame's header: types, a clean close, no stranded   *)
(* frame, the order of the frames, and the payloads at the other end.      *)
(***************************************************************************)
EXTENDS TcpConnection, SequenceTheorems, TLAPS

(***************************************************************************)
(* The bytes: what onRead cuts out of the stream is what drainWriteQueue   *)
(* put in, for every payload whose length fits the four bytes of the       *)
(* header.                                                                 *)
(***************************************************************************)

(* The four bytes of a size are bytes, and give the size again.            *)
LEMMA HeaderBytes ==
    ASSUME NEW n \in Nat, n < 4294967296
    PROVE  /\ Header(n) \in Seq(Byte) /\ Len(Header(n)) = 4
           /\ n = Header(n)[1] * 16777216 + Header(n)[2] * 65536 + Header(n)[3] * 256 + Header(n)[4]
<1> DEFINE q1 == n \div 16777216
           q2 == n \div 65536
           q3 == n \div 256
<1>2. /\ q1 \in Nat /\ q2 \in Nat /\ q3 \in Nat
      /\ q1 = q2 \div 256 /\ q2 = q3 \div 256
      /\ q1 <= 255
  BY SMT
<1>3. /\ n = 256 * q3 + (n % 256) /\ n % 256 \in Byte
      /\ q3 = 256 * q2 + (q3 % 256) /\ q3 % 256 \in Byte
      /\ q2 = 256 * q1 + (q2 % 256) /\ q2 % 256 \in Byte
      /\ q1 % 256 = q1 /\ q1 % 256 \in Byte
  <2> HIDE DEF q1, q2
  <2>1. n = 256 * q3 + (n % 256) /\ n % 256 \in Byte
    BY SMT DEF Byte
  <2> HIDE DEF q3
  <2> QED BY <1>2, <2>1, SMT DEF Byte
<1>4. Header(n) = <<q1 % 256, q2 % 256, q3 % 256, n % 256>>
  BY SMT DEF Header
<1> HIDE DEF q1, q2, q3
<1> DEFINE b1 == q1 % 256
           b2 == q2 % 256
           b3 == q3 % 256
           b4 == n % 256
<1>5. n = b1 * 16777216 + b2 * 65536 + b3 * 256 + b4
  BY <1>2, <1>3, SMT DEF Byte
<1>6. /\ b1 \in Byte /\ b2 \in Byte /\ b3 \in Byte /\ b4 \in Byte
      /\ Header(n) = <<b1, b2, b3, b4>>
  BY <1>3, <1>4
<1> HIDE DEF b1, b2, b3, b4
<1>7. Header(n) \in Seq(Byte) /\ Len(Header(n)) = 4
  BY <1>6, SMT
<1>8. Header(n)[1] = b1 /\ Header(n)[2] = b2 /\ Header(n)[3] = b3 /\ Header(n)[4] = b4
  BY <1>6, SMT
<1> QED BY <1>5, <1>7, <1>8, SMT

(* A buffer that begins with the header of a payload announces its size.   *)
LEMMA AnnouncedSize ==
    ASSUME NEW p \in Seq(Byte), Fits(p), NEW buf, \A j \in 1 .. 4 : buf[j] = Header(Len(p))[j]
    PROVE  Announced(buf) = Len(p)
<1>1. /\ buf[1] = Header(Len(p))[1] /\ buf[2] = Header(Len(p))[2]
      /\ buf[3] = Header(Len(p))[3] /\ buf[4] = Header(Len(p))[4]
  BY SMT
<1>2. Len(p) \in Nat /\ Len(p) < 4294967296
  BY SMT DEF Fits
<1> QED BY <1>1, <1>2, HeaderBytes, SMT DEF Announced

(* A concatenation, byte by byte.                                          *)
LEMMA ConcatAt ==
    ASSUME NEW s \in Seq(Byte), NEW t \in Seq(Byte)
    PROVE  /\ s \o t \in Seq(Byte) /\ Len(s \o t) = Len(s) + Len(t)
           /\ \A i \in 1 .. Len(s) : (s \o t)[i] = s[i]
           /\ \A i \in 1 .. Len(t) : (s \o t)[Len(s) + i] = t[i]
<1>1. s \o t \in Seq(Byte)
  OBVIOUS
<1>2. Len(s \o t) = Len(s) + Len(t)
  OBVIOUS
<1>3. \A i \in 1 .. Len(s) : (s \o t)[i] = s[i]
  OBVIOUS
<1>4. \A i \in 1 .. Len(t) : (s \o t)[Len(s) + i] = t[i]
  OBVIOUS
<1> QED BY <1>1, <1>2, <1>3, <1>4

(* A framed payload is the header and the payload.                         *)
LEMMA FramedBytes ==
    ASSUME NEW p \in Seq(Byte), Fits(p)
    PROVE  /\ Framed(p) \in Seq(Byte) /\ Len(Framed(p)) = 4 + Len(p)
           /\ \A j \in 1 .. 4 : Framed(p)[j] = Header(Len(p))[j]
           /\ \A j \in 1 .. Len(p) : Framed(p)[4 + j] = p[j]
<1> DEFINE h == Header(Len(p))
<1>1. h \in Seq(Byte) /\ Len(h) = 4
  BY HeaderBytes, SMT DEF Fits
<1>2. Framed(p) = h \o p
  BY DEF Framed
<1> HIDE DEF h
<1>3. /\ h \o p \in Seq(Byte) /\ Len(h \o p) = Len(h) + Len(p)
      /\ \A i \in 1 .. Len(h) : (h \o p)[i] = h[i]
      /\ \A i \in 1 .. Len(p) : (h \o p)[Len(h) + i] = p[i]
  BY <1>1, ConcatAt, Zenon
<1> QED BY <1>1, <1>2, <1>3, Zenon DEF h

(* A buffer that begins with a framed payload has this frame.              *)
THEOREM FrameIsRead ==
    ASSUME NEW p \in Seq(Byte), Fits(p), NEW buf \in Seq(Byte),
           Len(buf) >= 4 + Len(p), \A j \in 1 .. 4 + Len(p) : buf[j] = Framed(p)[j]
    PROVE  /\ Announced(buf) = Len(p)
           /\ HasFrame(buf)
           /\ FirstFrame(buf) = p
<1>1. Announced(buf) = Len(p)
  <2>1. \A j \in 1 .. 4 : buf[j] = Header(Len(p))[j]
    <3>1. \A j \in 1 .. 4 : j \in 1 .. 4 + Len(p)
      OBVIOUS
    <3> QED BY <3>1, FramedBytes, Zenon
  <2> QED BY <2>1, AnnouncedSize
<1>2. HasFrame(buf)
  BY <1>1 DEF HasFrame, HasHeader
<1>3. FirstFrame(buf) = SubSeq(buf, 5, 4 + Len(p))
  BY <1>1 DEF FirstFrame
<1>4. \A i \in 5 .. 4 + Len(p) : buf[i] \in Byte
  BY ElementOfSeq
<1>5. /\ SubSeq(buf, 5, 4 + Len(p)) \in Seq(Byte)
      /\ Len(SubSeq(buf, 5, 4 + Len(p))) = Len(p)
      /\ \A i \in 1 .. Len(p) : SubSeq(buf, 5, 4 + Len(p))[i] = buf[4 + i]
  BY <1>4
<1>6. \A i \in 1 .. Len(p) : SubSeq(buf, 5, 4 + Len(p))[i] = p[i]
  BY <1>5, FramedBytes
<1>7. SubSeq(buf, 5, 4 + Len(p)) = p
  BY <1>5, <1>6, SeqEqual
<1> QED BY <1>1, <1>2, <1>3, <1>7

(* Reading undoes framing: of a frame and whatever follows it, onRead takes *)
(* the payload and leaves what follows, or refuses a payload above the      *)
(* limit.                                                                   *)
THEOREM RoundTrip ==
    ASSUME NEW p \in Seq(Byte), Fits(p), NEW rest \in Seq(Byte)
    PROVE  /\ TooLarge(Framed(p) \o rest) <=> Len(p) > MaxFrame
           /\ HasFrame(Framed(p) \o rest)
           /\ FirstFrame(Framed(p) \o rest) = p
           /\ AfterFrame(Framed(p) \o rest) = rest
<1> DEFINE buf == Framed(p) \o rest
<1>1. /\ buf \in Seq(Byte)
      /\ Len(buf) = 4 + Len(p) + Len(rest)
      /\ \A i \in 1 .. 4 + Len(p) : buf[i] = Framed(p)[i]
      /\ \A i \in 1 .. Len(rest) : buf[4 + Len(p) + i] = rest[i]
  <2>1. Framed(p) \in Seq(Byte) /\ Len(Framed(p)) = 4 + Len(p)
    BY FramedBytes
  <2>2. /\ buf \in Seq(Byte) /\ Len(buf) = Len(Framed(p)) + Len(rest)
        /\ \A i \in 1 .. Len(Framed(p)) : buf[i] = Framed(p)[i]
        /\ \A i \in 1 .. Len(rest) : buf[Len(Framed(p)) + i] = rest[i]
    BY <2>1, ConcatAt, Zenon
  <2> QED BY <2>1, <2>2, Zenon
<1> HIDE DEF buf
<1>2. \A j \in 1 .. 4 + Len(p) : buf[j] = Framed(p)[j]
  BY <1>1
<1>3. Announced(buf) = Len(p) /\ HasFrame(buf) /\ FirstFrame(buf) = p
  BY <1>1, <1>2, FrameIsRead
<1>4. TooLarge(buf) <=> Len(p) > MaxFrame
  BY <1>1, <1>3 DEF TooLarge, HasHeader
<1>5. AfterFrame(buf) = SubSeq(buf, 5 + Len(p), Len(buf))
  BY <1>3 DEF AfterFrame
<1>6. \A i \in 5 + Len(p) .. Len(buf) : buf[i] \in Byte
  BY <1>1, ElementOfSeq
<1>7. /\ SubSeq(buf, 5 + Len(p), Len(buf)) \in Seq(Byte)
      /\ Len(SubSeq(buf, 5 + Len(p), Len(buf))) = Len(rest)
      /\ \A i \in 1 .. Len(rest) : SubSeq(buf, 5 + Len(p), Len(buf))[i] = buf[4 + Len(p) + i]
  BY <1>1, <1>6
<1>8. \A i \in 1 .. Len(rest) : SubSeq(buf, 5 + Len(p), Len(buf))[i] = rest[i]
  BY <1>1, <1>7
<1>9. AfterFrame(buf) = rest
  BY <1>5, <1>7, <1>8, SeqEqual
<1> QED BY <1>3, <1>4, <1>9 DEF buf
-----------------------------------------------------------------------------
(* A stream cut into frames.  A fact about all bytes of a stream would call *)
(* for induction over the payloads; the places where it is cut, as a        *)
(* witness, take its part.                                                  *)

\* pos[i] is the number of bytes up to the end of frame i, from frame k + 1 on.
IsCut(bytes, written, k, pos) ==
    /\ pos \in [k .. Len(written) -> Nat]
    /\ pos[k] = 0 /\ pos[Len(written)] = Len(bytes)
    /\ \A i, j \in k .. Len(written) : i <= j => pos[i] <= pos[j]
    /\ \A i \in k + 1 .. Len(written) :
          /\ pos[i] = pos[i - 1] + 4 + Len(written[i])
          /\ \A j \in 1 .. 4 + Len(written[i]) : bytes[pos[i - 1] + j] = Framed(written[i])[j]

\* The bytes are the frames of the payloads after the first k.
FramesOf(bytes, written, k) ==
    k \in 0 .. Len(written) /\ \E pos : IsCut(bytes, written, k, pos)

Payloads == {p \in Seq(Byte) : Fits(p)}

(* Before the first payload there is no byte.                              *)
LEMMA NoFrameYet ==
    ASSUME NEW bytes \in Seq(Byte), NEW written \in Seq(Payloads), Len(bytes) = 0, Len(written) = 0
    PROVE  FramesOf(bytes, written, 0)
<1> DEFINE pos == [i \in 0 .. 0 |-> 0]
<1>1. IsCut(bytes, written, 0, pos)
  BY DEF IsCut
<1> QED BY <1>1 DEF FramesOf

(* No frame left, no byte left.                                            *)
LEMMA NoFrameLeft ==
    ASSUME NEW bytes \in Seq(Byte), NEW written \in Seq(Payloads),
           FramesOf(bytes, written, Len(written))
    PROVE  Len(bytes) = 0
BY DEF FramesOf, IsCut

(* The stream begins with the next frame ...                               *)
LEMMA NextFrame ==
    ASSUME NEW bytes \in Seq(Byte), NEW written \in Seq(Payloads), NEW k \in Nat,
           FramesOf(bytes, written, k), k < Len(written)
    PROVE  /\ Len(bytes) >= 4 + Len(written[k + 1])
           /\ \A j \in 1 .. 4 + Len(written[k + 1]) : bytes[j] = Framed(written[k + 1])[j]
<1>1. PICK pos : IsCut(bytes, written, k, pos)
  BY DEF FramesOf
<1>2. Len(written) \in Nat /\ k + 1 \in k + 1 .. Len(written)
  OBVIOUS
<1>3. /\ pos[k + 1] = pos[k] + 4 + Len(written[k + 1])
      /\ \A j \in 1 .. 4 + Len(written[k + 1]) : bytes[pos[k] + j] = Framed(written[k + 1])[j]
  <2>1. /\ pos[k + 1] = pos[(k + 1) - 1] + 4 + Len(written[k + 1])
        /\ \A j \in 1 .. 4 + Len(written[k + 1]) :
              bytes[pos[(k + 1) - 1] + j] = Framed(written[k + 1])[j]
    BY <1>1, <1>2, Zenon DEF IsCut
  <2>2. (k + 1) - 1 = k
    OBVIOUS
  <2> QED BY <2>1, <2>2
<1>4. pos[k] = 0 /\ pos[k + 1] <= pos[Len(written)] /\ pos[Len(written)] = Len(bytes)
  BY <1>1, <1>2 DEF IsCut
<1>5. Len(written[k + 1]) \in Nat
  BY <1>2, ElementOfSeq DEF Payloads
<1>6. ASSUME NEW j \in 1 .. 4 + Len(written[k + 1])
      PROVE  bytes[j] = Framed(written[k + 1])[j]
  <2>1. pos[k] + j = j
    BY <1>4, <1>5
  <2> QED BY <1>3, <2>1, Zenon
<1>7. Len(bytes) >= 4 + Len(written[k + 1])
  <2> DEFINE m == Len(written[k + 1])
             next == pos[k + 1]
             first == pos[k]
             last == pos[Len(written)]
             size == Len(bytes)
  <2>1. next = first + 4 + m /\ first = 0 /\ next <= last /\ last = size /\ m \in Nat
    BY <1>3, <1>4, <1>5, Zenon
  <2>2. size \in Nat
    OBVIOUS
  <2> HIDE DEF m, next, first, last, size
  <2>3. size >= 4 + m
    BY <2>1, <2>2
  <2> QED BY <2>3 DEF size, m
<1> QED BY <1>6, <1>7

(* ... and goes on with the others.                                        *)
LEMMA FrameTaken ==
    ASSUME NEW bytes \in Seq(Byte), NEW written \in Seq(Payloads), NEW k \in Nat,
           FramesOf(bytes, written, k), k < Len(written),
           NEW rest \in Seq(Byte), Len(rest) = Len(bytes) - (4 + Len(written[k + 1])),
           \A j \in 1 .. Len(rest) : rest[j] = bytes[4 + Len(written[k + 1]) + j]
    PROVE  FramesOf(rest, written, k + 1)
<1> DEFINE n == Len(written)
           d == 4 + Len(written[k + 1])
<1>1. PICK pos : IsCut(bytes, written, k, pos)
  BY DEF FramesOf
<1>2. n \in Nat /\ k + 1 \in k + 1 .. n
  OBVIOUS
<1>3. \A i \in 1 .. n : Len(written[i]) \in Nat
  BY ElementOfSeq DEF Payloads
<1>3a. pos \in [k .. n -> Nat] /\ pos[k] = 0 /\ pos[n] = Len(bytes)
  BY <1>1, Zenon DEF IsCut
<1>3b. \A i, j \in k .. n : i <= j => pos[i] <= pos[j]
  BY <1>1, Zenon DEF IsCut
<1>4. \A i \in k + 1 .. n :
          /\ pos[i] = pos[i - 1] + 4 + Len(written[i])
          /\ \A j \in 1 .. 4 + Len(written[i]) : bytes[pos[i - 1] + j] = Framed(written[i])[j]
  BY <1>1, Zenon DEF IsCut
<1>5. d \in Nat /\ Len(rest) = Len(bytes) - d /\ Len(bytes) \in Nat
  BY <1>2, <1>3
<1>6. pos[k + 1] = d
  <2>1. (k + 1) - 1 = k
    OBVIOUS
  <2>2. pos[k + 1] = pos[(k + 1) - 1] + 4 + Len(written[k + 1])
    BY <1>2, <1>4, Zenon
  <2> QED BY <1>3a, <1>3, <1>2, <2>1, <2>2
<1> HIDE DEF n, d
<1> DEFINE new == [i \in k + 1 .. n |-> pos[i] - d]
<1>7. ASSUME NEW i \in k + 1 .. n
      PROVE  pos[i] \in Nat /\ pos[i] >= d /\ pos[i] <= Len(bytes) /\ new[i] = pos[i] - d
  <2>1. i \in k .. n /\ k + 1 \in k .. n /\ n \in k .. n /\ k + 1 <= i /\ i <= n
    BY <1>2
  <2> QED BY <1>3a, <1>3b, <1>5, <1>6, <2>1
<1>8. /\ new \in [k + 1 .. n -> Nat]
      /\ new[k + 1] = 0 /\ new[n] = Len(rest)
  <2>1. n \in k + 1 .. n /\ k + 1 \in k + 1 .. n
    BY <1>2
  <2>2. \A i \in k + 1 .. n : pos[i] - d \in Nat
    BY <1>5, <1>7
  <2>3. new[k + 1] = pos[k + 1] - d /\ new[n] = pos[n] - d
    BY <1>7, <2>1
  <2>4. new \in [k + 1 .. n -> Nat]
    BY <2>2
  <2> HIDE DEF new
  <2>5. new[n] = Len(rest)
    BY <1>3a, <1>5, <2>3, Zenon
  <2>6. new[k + 1] = d - d
    BY <1>6, <2>3, Zenon
  <2>7. d - d = 0
    BY <1>5
  <2> QED BY <2>4, <2>5, <2>6, <2>7, Zenon
<1>9. ASSUME NEW i \in k + 1 .. n, NEW j \in k + 1 .. n, i <= j
      PROVE  new[i] <= new[j]
  <2>1. i \in k .. n /\ j \in k .. n
    BY <1>2
  <2>2. pos[i] <= pos[j]
    BY <1>3b, <1>9, <2>1
  <2> QED BY <1>5, <1>7, <2>2
<1> HIDE DEF new
<1>10. ASSUME NEW i \in (k + 1) + 1 .. n
       PROVE  /\ new[i] = new[i - 1] + 4 + Len(written[i])
              /\ \A j \in 1 .. 4 + Len(written[i]) : rest[new[i - 1] + j] = Framed(written[i])[j]
  <2>1. i \in k + 1 .. n /\ i - 1 \in k + 1 .. n /\ Len(written[i]) \in Nat
    BY <1>2, <1>3
  <2>2. pos[i] = pos[i - 1] + 4 + Len(written[i])
    BY <1>4, <2>1
  <2>3. /\ new[i] = pos[i] - d /\ pos[i] \in Nat /\ pos[i] <= Len(bytes)
        /\ new[i - 1] = pos[i - 1] - d /\ pos[i - 1] \in Nat /\ pos[i - 1] >= d
    BY <1>7, <2>1
  <2>4. ASSUME NEW j \in 1 .. 4 + Len(written[i])
        PROVE  rest[new[i - 1] + j] = Framed(written[i])[j]
    <3> DEFINE before == pos[i - 1]
               after == pos[i]
               cut == new[i - 1]
               m == Len(written[i])
               size == Len(bytes)
               left == Len(rest)
    <3>1. cut + j \in 1 .. left /\ d + (cut + j) = before + j
      <4>1. /\ after = before + 4 + m /\ after \in Nat /\ after <= size
            /\ cut = before - d /\ before \in Nat /\ before >= d
            /\ m \in Nat /\ j \in 1 .. 4 + m
            /\ d \in Nat /\ left = size - d /\ size \in Nat
        BY <1>5, <2>1, <2>2, <2>3, <2>4, Zenon
      <4> HIDE DEF before, after, cut, m, size, left
      <4> QED BY <4>1
    <3>3. bytes[pos[i - 1] + j] = Framed(written[i])[j]
      BY <1>4, <2>1
    <3>4. rest[new[i - 1] + j] = bytes[d + (new[i - 1] + j)]
      BY <3>1, Zenon DEF d
    <3> QED BY <3>1, <3>3, <3>4, Zenon
  <2>5. new[i] = new[i - 1] + 4 + Len(written[i])
    <3> DEFINE before == pos[i - 1]
               after == pos[i]
               cut == new[i - 1]
               next == new[i]
               m == Len(written[i])
    <3>1. /\ after = before + 4 + m /\ next = after - d /\ after \in Nat
          /\ cut = before - d /\ before \in Nat /\ m \in Nat /\ d \in Nat
      BY <1>5, <2>1, <2>2, <2>3, Zenon
    <3> HIDE DEF before, after, cut, next, m
    <3>2. next = cut + 4 + m
      BY <3>1
    <3> QED BY <3>2 DEF next, cut, m
  <2> QED BY <2>4, <2>5
<1>11. IsCut(rest, written, k + 1, new)
  BY <1>8, <1>9, <1>10, Zenon DEF IsCut, n
<1> QED BY <1>2, <1>11 DEF FramesOf, n

(* One more payload written, its frame is at the end.                      *)
LEMMA FrameAdded ==
    ASSUME NEW bytes \in Seq(Byte), NEW written \in Seq(Payloads), NEW k \in Nat,
           FramesOf(bytes, written, k), NEW p \in Payloads
    PROVE  FramesOf(bytes \o Framed(p), Append(written, p), k)
<1> DEFINE n == Len(written)
           more == Append(written, p)
           f == Framed(p)
           all == bytes \o f
<1>1. PICK pos : IsCut(bytes, written, k, pos)
  BY DEF FramesOf
<1>2. n \in Nat /\ k \in Nat /\ k <= n /\ Len(more) = n + 1
  BY DEF FramesOf
<1>3. /\ \A i \in 1 .. n : more[i] = written[i] /\ Len(written[i]) \in Nat
      /\ more[n + 1] = p
  BY ElementOfSeq DEF Payloads
<1>4. f \in Seq(Byte) /\ Len(f) = 4 + Len(p) /\ Len(p) \in Nat
  BY FramedBytes DEF Payloads
<1> HIDE DEF f
<1>5. /\ Len(all) = Len(bytes) + Len(f) /\ Len(bytes) \in Nat
      /\ \A i \in 1 .. Len(bytes) : all[i] = bytes[i]
      /\ \A i \in 1 .. Len(f) : all[Len(bytes) + i] = f[i]
  <2>1. Len(bytes) \in Nat
    OBVIOUS
  <2> QED BY <1>4, <2>1, ConcatAt, Zenon
<1> HIDE DEF all, more
<1>6. pos \in [k .. n -> Nat] /\ pos[k] = 0 /\ pos[n] = Len(bytes)
  BY <1>1, Zenon DEF IsCut
<1>7. \A i, j \in k .. n : i <= j => pos[i] <= pos[j]
  BY <1>1, Zenon DEF IsCut
<1>8. \A i \in k + 1 .. n :
          /\ pos[i] = pos[i - 1] + 4 + Len(written[i])
          /\ \A j \in 1 .. 4 + Len(written[i]) : bytes[pos[i - 1] + j] = Framed(written[i])[j]
  BY <1>1, Zenon DEF IsCut
<1> HIDE DEF n
<1> DEFINE new == [i \in k .. n + 1 |-> IF i <= n THEN pos[i] ELSE Len(bytes) + Len(f)]
<1>9. /\ \A i \in k .. n : new[i] = pos[i]
      /\ new[n + 1] = Len(bytes) + Len(f)
  BY <1>2
<1>10. \A i \in k .. n : pos[i] \in Nat /\ pos[i] <= Len(bytes)
  <2>1. \A i \in k .. n : pos[i] <= pos[n]
    BY <1>2, <1>7
  <2> QED BY <1>6, <2>1
<1>11. new \in [k .. n + 1 -> Nat]
  <2>1. \A i \in k .. n + 1 : i <= n => i \in k .. n
    BY <1>2
  <2>2. Len(bytes) + Len(f) \in Nat
    BY <1>4, <1>5
  <2> QED BY <1>10, <2>1, <2>2
<1> HIDE DEF new
<1>12. new[k] = 0 /\ new[n] = Len(bytes)
  BY <1>2, <1>6, <1>9
<1>13. ASSUME NEW i \in k .. n + 1, NEW j \in k .. n + 1, i <= j
       PROVE  new[i] <= new[j]
  <2>1. CASE j <= n
    <3>1. i \in k .. n /\ j \in k .. n
      BY <1>2, <1>13, <2>1
    <3> QED BY <1>7, <1>9, <1>13, <3>1
  <2>2. CASE j = n + 1 /\ i = n + 1
    BY <1>4, <1>5, <1>9, <2>2
  <2>3. CASE j = n + 1 /\ i <= n
    <3>1. i \in k .. n
      BY <1>2, <2>3
    <3> QED BY <1>4, <1>5, <1>9, <1>10, <2>3, <3>1
  <2> QED BY <1>2, <2>1, <2>2, <2>3
<1>14. ASSUME NEW i \in k + 1 .. n + 1
       PROVE  /\ new[i] = new[i - 1] + 4 + Len(more[i])
              /\ \A j \in 1 .. 4 + Len(more[i]) : all[new[i - 1] + j] = Framed(more[i])[j]
  <2>1. CASE i = n + 1
    <3>1. i - 1 = n /\ more[i] = p
      BY <1>2, <1>3, <2>1
    <3>2. new[i] = new[i - 1] + 4 + Len(p)
      <4>1. new[i] = Len(bytes) + Len(f) /\ new[i - 1] = Len(bytes)
        BY <1>9, <1>12, <2>1, <3>1, Zenon
      <4> QED BY <1>4, <1>5, <4>1
    <3>3. \A j \in 1 .. 4 + Len(p) : all[new[i - 1] + j] = f[j]
      BY <1>4, <1>5, <1>12, <3>1
    <3> QED BY <3>1, <3>2, <3>3 DEF f
  <2>2. CASE i <= n
    <3>1. i \in k + 1 .. n /\ i \in k .. n /\ i - 1 \in k .. n /\ i \in 1 .. n
      BY <1>2, <2>2
    <3>2. new[i] = pos[i] /\ new[i - 1] = pos[i - 1] /\ more[i] = written[i]
      BY <1>3, <1>9, <3>1
    <3>3. pos[i] = pos[i - 1] + 4 + Len(written[i])
      BY <1>8, <3>1
    <3>4. ASSUME NEW j \in 1 .. 4 + Len(written[i])
          PROVE  all[pos[i - 1] + j] = Framed(written[i])[j]
      <4> DEFINE before == pos[i - 1]
                 after == pos[i]
                 m == Len(written[i])
                 size == Len(bytes)
      <4>1. before + j \in 1 .. size
        <5>1. /\ after = before + 4 + m /\ after \in Nat /\ after <= size
              /\ before \in Nat /\ m \in Nat /\ j \in 1 .. 4 + m /\ size \in Nat
          BY <1>3, <1>5, <1>10, <3>1, <3>3, <3>4, Zenon
        <5> HIDE DEF before, after, m, size
        <5> QED BY <5>1
      <4>2. all[before + j] = bytes[before + j]
        BY <1>5, <4>1, Zenon
      <4> QED BY <1>8, <3>1, <4>2, Zenon
    <3> QED BY <3>2, <3>3, <3>4, Zenon
  <2> QED BY <1>2, <2>1, <2>2
<1>15. IsCut(all, more, k, new)
  <2>1. new[Len(more)] = Len(all)
    BY <1>2, <1>5, <1>9
  <2>2. new \in [k .. Len(more) -> Nat]
    BY <1>2, <1>11, Zenon
  <2>3. \A i, j \in k .. Len(more) : i <= j => new[i] <= new[j]
    BY <1>2, <1>13, Zenon
  <2>4. \A i \in k + 1 .. Len(more) :
            /\ new[i] = new[i - 1] + 4 + Len(more[i])
            /\ \A j \in 1 .. 4 + Len(more[i]) : all[new[i - 1] + j] = Framed(more[i])[j]
    BY <1>2, <1>14, Zenon
  <2> QED BY <1>12, <2>1, <2>2, <2>3, <2>4, Zenon DEF IsCut
<1> QED BY <1>2, <1>15 DEF FramesOf, all, more, f

-----------------------------------------------------------------------------
(***************************************************************************)
(* The connection.                                                         *)
(***************************************************************************)

(* A frame stands for one of the payloads.                                 *)
LEMMA FramePayload ==
    ASSUME NEW f \in Frame
    PROVE  PayloadOf(f) \in Payloads
<1>1. PICK w \in Writers : f \in {w} \X (1 .. Len(Payload[w]))
  BY DEF Frame
<1>2. f[1] = w /\ f[2] \in 1 .. Len(Payload[w])
  BY <1>1
<1>3. Payload[w] \in Seq(Seq(Byte))
  BY PayloadType
<1>4. f[2] \in DOMAIN Payload[w]
  BY <1>2, <1>3
<1>5. Payload[w][f[2]] \in Seq(Byte)
  BY <1>2, <1>3, ElementOfSeq
<1> QED BY <1>2, <1>4, <1>5, PayloadsFit DEF PayloadOf, Payloads

(* The pair that WritePush queues is a frame.                              *)
LEMMA FramePair ==
    ASSUME NEW w \in Writers, NEW i \in 1 .. Len(Payload[w])
    PROVE  <<w, i>> \in Frame
BY DEF Frame

(* Bytes in three pieces.                                                  *)
LEMMA BytesAssociative ==
    ASSUME NEW a \in Seq(Byte), NEW b \in Seq(Byte), NEW c \in Seq(Byte)
    PROVE  (a \o b) \o c = a \o (b \o c)
BY ConcatAssociative

(* One byte or more read: the stream is the same.                          *)
LEMMA BytesMoved ==
    ASSUME NEW a \in Seq(Byte), NEW b \in Seq(Byte), NEW n \in 1 .. Len(b)
    PROVE  /\ a \o SubSeq(b, 1, n) \in Seq(Byte) /\ SubSeq(b, n + 1, Len(b)) \in Seq(Byte)
           /\ (a \o SubSeq(b, 1, n)) \o SubSeq(b, n + 1, Len(b)) = a \o b
<1> DEFINE c == SubSeq(b, 1, n)
           d == SubSeq(b, n + 1, Len(b))
<1>1. /\ c \in Seq(Byte) /\ Len(c) = n
      /\ \A i \in 1 .. n : c[i] = b[i]
  BY ElementOfSeq
<1>2. /\ d \in Seq(Byte) /\ Len(d) = Len(b) - n
      /\ \A i \in 1 .. Len(b) - n : d[i] = b[n + i]
  BY ElementOfSeq
<1> HIDE DEF c, d
<1>3. c \o d = b
  <2> DEFINE m == Len(b)
  <2>1. m \in Nat /\ n \in 1 .. m
    OBVIOUS
  <2>2. /\ c \o d \in Seq(Byte) /\ Len(c \o d) = Len(c) + Len(d)
        /\ \A i \in 1 .. Len(c) : (c \o d)[i] = c[i]
        /\ \A i \in 1 .. Len(d) : (c \o d)[Len(c) + i] = d[i]
    BY <1>1, <1>2, ConcatAt, Zenon
  <2>3. Len(c) = n /\ Len(d) = m - n
    BY <1>1, <1>2
  <2> DEFINE cd == c \o d
  <2>4. /\ \A i \in 1 .. n : cd[i] = b[i]
        /\ \A i \in 1 .. m - n : cd[n + i] = b[n + i]
    BY <1>1, <1>2, <2>2, <2>3, Zenon DEF m
  <2>5. cd \in Seq(Byte) /\ Len(cd) = n + (m - n)
    BY <2>2, <2>3, Zenon
  <2> HIDE DEF m, cd
  <2>6. n + (m - n) = m
    BY <2>1
  <2>7. ASSUME NEW i \in 1 .. m
        PROVE  cd[i] = b[i]
    <3>1. CASE i <= n
      BY <2>1, <2>4, <3>1
    <3>2. CASE i > n
      <4>1. i - n \in 1 .. m - n /\ n + (i - n) = i
        BY <2>1, <3>2
      <4> QED BY <2>4, <4>1, Zenon
    <3> QED BY <2>1, <3>1, <3>2
  <2> QED BY <2>5, <2>6, <2>7, SeqEqual, Zenon DEF m, cd
<1>4. a \o c \in Seq(Byte) /\ (a \o c) \o d = a \o (c \o d)
  <2>1. a \in Seq(Byte) /\ c \in Seq(Byte) /\ d \in Seq(Byte)
    BY <1>1, <1>2, Zenon
  <2>2. a \o c \in Seq(Byte)
    BY <2>1
  <2>3. (a \o c) \o d = a \o (c \o d)
    BY <2>1, BytesAssociative, Zenon
  <2> QED BY <2>2, <2>3
<1> QED BY <1>2, <1>3, <1>4 DEF c, d

(* A whole frame and what follows it are bytes.                            *)
LEMMA FrameBytes ==
    ASSUME NEW buf \in Seq(Byte), HasFrame(buf)
    PROVE  /\ Announced(buf) \in Nat /\ Len(buf) >= 4 + Announced(buf)
           /\ FirstFrame(buf) \in Seq(Byte)
           /\ AfterFrame(buf) \in Seq(Byte)
           /\ Len(AfterFrame(buf)) = Len(buf) - (4 + Announced(buf))
           /\ \A j \in 1 .. Len(AfterFrame(buf)) : AfterFrame(buf)[j] = buf[4 + Announced(buf) + j]
<1>1. Len(buf) >= 4 + Announced(buf) /\ Len(buf) >= 4 /\ Len(buf) \in Nat
  BY DEF HasFrame, HasHeader
<1>2. buf[1] \in Nat /\ buf[2] \in Nat /\ buf[3] \in Nat /\ buf[4] \in Nat
  <2>1. 1 \in 1 .. Len(buf) /\ 2 \in 1 .. Len(buf) /\ 3 \in 1 .. Len(buf) /\ 4 \in 1 .. Len(buf)
    BY <1>1
  <2>2. buf[1] \in Byte /\ buf[2] \in Byte /\ buf[3] \in Byte /\ buf[4] \in Byte
    BY <2>1, ElementOfSeq
  <2>3. \A b \in Byte : b \in Nat
    BY DEF Byte
  <2> QED BY <2>2, <2>3, Zenon
<1>3. Announced(buf) \in Nat
  <2> DEFINE b1 == buf[1]
             b2 == buf[2]
             b3 == buf[3]
             b4 == buf[4]
  <2>1. b1 \in Nat /\ b2 \in Nat /\ b3 \in Nat /\ b4 \in Nat
    BY <1>2
  <2>2. Announced(buf) = b1 * 16777216 + b2 * 65536 + b3 * 256 + b4
    BY DEF Announced
  <2> HIDE DEF b1, b2, b3, b4
  <2> QED BY <2>1, <2>2, SMT
<1> DEFINE n == Announced(buf)
<1>4. n \in Nat /\ Len(buf) >= 4 + n
  BY <1>1, <1>3
<1>5. FirstFrame(buf) = SubSeq(buf, 5, 4 + n) /\ AfterFrame(buf) = SubSeq(buf, 5 + n, Len(buf))
  BY DEF FirstFrame, AfterFrame
<1> HIDE DEF n
<1>6. SubSeq(buf, 5, 4 + n) \in Seq(Byte)
  BY <1>4, ElementOfSeq
<1>7. SubSeq(buf, 5 + n, Len(buf)) \in Seq(Byte)
  BY <1>4, ElementOfSeq
<1>8. /\ Len(SubSeq(buf, 5 + n, Len(buf))) = Len(buf) - (4 + n)
      /\ \A j \in 1 .. Len(buf) - (4 + n) : SubSeq(buf, 5 + n, Len(buf))[j] = buf[4 + n + j]
  BY <1>1, <1>4
<1> QED BY <1>4, <1>5, <1>6, <1>7, <1>8, Zenon DEF n
-----------------------------------------------------------------------------
(* Types, in two parts for the two provers.  A call that has begun has a    *)
(* frame to write, and an onRead that goes on has something to do with the  *)
(* bytes it holds.                                                          *)
Flags ==
    /\ timer \in BOOLEAN /\ connectReq \in BOOLEAN /\ closeReq \in BOOLEAN
    /\ isClosing \in BOOLEAN /\ writePending \in BOOLEAN
    /\ ioSignal \in BOOLEAN /\ freed \in BOOLEAN /\ parsing \in BOOLEAN
Handles == {"new", "idle", "connecting", "failed", "open", "closing", "closed"}
Writing == {<<>>} \cup {<<f>> : f \in Frame}
Progress == [Threads -> {"idle", "checked", "pushed", "won"}]
OwnData ==
    /\ handle \in Handles
    /\ queue \in Seq(Frame) /\ inFlight \in Writing
    /\ io \in {"open", "closing", "closed"}
    /\ wire \in Seq(Frame) /\ accepted \in Seq(Frame)
PeerData ==
    /\ arriving \in Seq(Byte) /\ recv \in Seq(Byte)
    /\ peer \in {"reading", "refusing", "asked", "closed"}
    /\ delivered \in Seq(Seq(Byte))
Begun ==
    /\ pc \in Progress
    /\ sent \in [Writers -> Nat] /\ \A w \in Writers : sent[w] <= Len(Payload[w])
    /\ \A w \in Writers : pc[w] # "idle" => sent[w] >= 1
Parsing == parsing => TooLarge(recv) \/ HasFrame(recv)

TypeInv == Flags /\ OwnData /\ PeerData /\ Begun /\ Parsing

(* A step that leaves the bytes alone leaves what there is to do with them. *)
LEMMA ParsingKept ==
    ASSUME Parsing, UNCHANGED <<parsing, recv>>
    PROVE  Parsing'
BY SMT DEF Parsing, TooLarge, HasFrame, HasHeader, Announced

(* Every step writes a Boolean into a flag.                                *)
LEMMA FlagsStep ==
    ASSUME Flags, [Next]_vars
    PROVE  Flags'
<1> USE Zenon DEF Flags, flagVars, lifeVars, threadVars, historyVars, peerVars, ownVars
<1>1. CASE UNCHANGED vars
  BY <1>1 DEF vars
<1>2. CASE Connect \/ OnIoAsync
  BY <1>2 DEF Connect, OnIoAsync, DoClose, WorkAsync, DoConnect, Drain, TakeNext
<1>3. CASE OnTimeout \/ OnConnect \/ PeerGone
  BY <1>3 DEF OnTimeout, OnConnect, PeerGone, LoopClose
<1>4. CASE OnClose \/ OnAsyncClosed \/ Free
  BY <1>4 DEF OnClose, OnAsyncClosed, Free
<1>5. CASE OnWrite
  BY <1>5 DEF OnWrite, LoopClose, Drain, TakeNext
<1>6. ASSUME NEW w \in Writers, WriteCheck(w) \/ WritePush(w) \/ WriteCAS(w)
      PROVE  Flags'
  BY <1>6 DEF WriteCheck, WritePush, WriteCAS
<1>7. ASSUME NEW k, CloseCAS(k) \/ AsyncSend(k)
      PROVE  Flags'
  BY <1>7 DEF CloseCAS, AsyncSend
<1>8. ASSUME NEW n, ReadBytes(n) \/ RefuseFrame \/ DispatchFrame
      PROVE  Flags'
  BY <1>8 DEF ReadBytes, RefuseFrame, DispatchFrame
<1>9. CASE PeerAsked \/ PeerDoClose
  BY <1>9 DEF PeerAsked, PeerDoClose
<1> QED BY <1>1, <1>2, <1>3, <1>4, <1>5, <1>6, <1>7, <1>8, <1>9
        DEF Next, LoopStep, WriteStep, ReadStep

(* Whatever drainWriteQueue does, a frame of the queue is being written.   *)
LEMMA Taken ==
    ASSUME queue \in Seq(Frame), NEW writing \in Writing, NEW failed \in BOOLEAN,
           Drain(writing, failed)
    PROVE  queue' \in Seq(Frame) /\ inFlight' \in Writing
<1>1. CASE queue = <<>>
  BY <1>1 DEF Drain, TakeNext, Writing
<1>2. CASE queue # <<>>
  <2>1. Head(queue) \in Frame /\ Tail(queue) \in Seq(Frame)
    BY <1>2
  <2> QED BY <1>2, <2>1 DEF Drain, TakeNext, Writing
<1> QED BY <1>1, <1>2

(* What onIoAsync leaves when the connection is not to be closed: no connect *)
(* that waits, and a frame taken only from an open connection.              *)
LEMMA Worked ==
    ASSUME NEW refused \in BOOLEAN, NEW failed \in BOOLEAN, WorkAsync(refused, failed)
    PROVE  /\ ~connectReq'
           /\ \/ UNCHANGED <<handle, timer>>
              \/ connectReq /\ handle' = "connecting" /\ timer' \in BOOLEAN
           /\ inFlight' \in {inFlight, <<>>} \/ handle = "open"
<1>1. /\ ~connectReq'
      /\ \/ UNCHANGED <<handle, timer>>
         \/ connectReq /\ handle' = "connecting" /\ timer' \in BOOLEAN
  BY Zenon DEF WorkAsync, DoConnect
<1>2. inFlight' \in {inFlight, <<>>} \/ handle = "open"
  BY Zenon DEF WorkAsync, Drain, TakeNext
<1> QED BY <1>1, <1>2

(* The queue, the frame being written and the histories hold frames.        *)
LEMMA OwnStep ==
    ASSUME OwnData, Begun, [Next]_vars
    PROVE  OwnData'
<1> USE DEF flagVars, lifeVars, threadVars, historyVars, peerVars, ownVars
<1>1. CASE UNCHANGED vars
  BY <1>1 DEF OwnData, vars
<1>2. CASE Connect \/ OnTimeout \/ OnConnect \/ PeerGone \/ OnClose \/ OnAsyncClosed \/ Free
  <2>1. <<>> \in Seq(Frame)
    OBVIOUS
  <2> QED BY <1>2, <2>1, Zenon DEF OwnData, Connect, OnTimeout, OnConnect, PeerGone, OnClose,
             OnAsyncClosed, Free, Handles
<1>3. CASE OnIoAsync
  <2>1. CASE closeReq
    BY <1>3, <2>1 DEF OwnData, OnIoAsync, DoClose, Handles
  <2>2. CASE ~closeReq
    <3>1. PICK refused \in BOOLEAN, failed \in BOOLEAN : WorkAsync(refused, failed)
      BY <1>3, <2>2, Zenon DEF OnIoAsync
    <3>2. queue' \in Seq(Frame) /\ inFlight' \in Writing
      <4>1. UNCHANGED <<queue, inFlight>> \/ Drain(inFlight, failed)
        BY <3>1, Zenon DEF WorkAsync
      <4> QED BY <4>1, Taken DEF OwnData
    <3>3. handle' \in Handles
      BY <3>1, Worked DEF OwnData, Handles
    <3>4. UNCHANGED <<io, wire, accepted>>
      BY <1>3, Zenon DEF OnIoAsync
    <3> QED BY <3>2, <3>3, <3>4, Zenon DEF OwnData
  <2> QED BY <2>1, <2>2
<1>4. CASE OnWrite
  <2>1. queue' \in Seq(Frame) /\ inFlight' \in Writing
    <3>1. \/ Drain(<<>>, FALSE) \/ Drain(<<>>, TRUE)
          \/ inFlight' = <<>> /\ UNCHANGED queue
      BY <1>4, Zenon DEF OnWrite
    <3>2. <<>> \in Writing
      BY DEF Writing
    <3> QED BY <3>1, <3>2, Taken DEF OwnData
  <2>2. inFlight \in Seq(Frame)
    <3>1. <<>> \in Seq(Frame) /\ \A f \in Frame : <<f>> \in Seq(Frame)
      OBVIOUS
    <3> QED BY <3>1, Zenon DEF OwnData, Writing
  <2>3. wire' = wire \/ wire' = wire \o inFlight
    BY <1>4 DEF OnWrite
  <2>4. wire' \in Seq(Frame)
    <3>1. wire \in Seq(Frame) /\ wire \o inFlight \in Seq(Frame)
      BY <2>2 DEF OwnData
    <3> QED BY <2>3, <3>1, Zenon
  <2> QED BY <1>4, <2>1, <2>4 DEF OwnData, OnWrite
<1>5. ASSUME NEW w \in Writers, WritePush(w)
      PROVE  OwnData'
  <2>1. sent[w] \in 1 .. Len(Payload[w])
    BY <1>5, PayloadType DEF Begun, WritePush
  <2>2. <<w, sent[w]>> \in Frame
    BY <2>1, FramePair
  <2> QED BY <1>5, <2>2 DEF OwnData, WritePush
<1>6. ASSUME NEW t, WriteCheck(t) \/ WriteCAS(t) \/ CloseCAS(t) \/ AsyncSend(t)
      PROVE  OwnData'
  BY <1>6 DEF OwnData, WriteCheck, WriteCAS, CloseCAS, AsyncSend
<1>7. ASSUME NEW n, ReadBytes(n) \/ RefuseFrame \/ DispatchFrame \/ PeerAsked \/ PeerDoClose
      PROVE  OwnData'
  BY <1>7 DEF OwnData, ReadBytes, RefuseFrame, DispatchFrame, PeerAsked, PeerDoClose
<1> QED BY <1>1, <1>2, <1>3, <1>4, <1>5, <1>6, <1>7 DEF Next, LoopStep, WriteStep, ReadStep

(* A writer begins a call only while it has a payload left.                *)
LEMMA BegunStep ==
    ASSUME Begun, [Next]_vars
    PROVE  Begun'
<1> USE DEF flagVars, lifeVars, threadVars, historyVars, peerVars, ownVars
<1>1. CASE UNCHANGED threadVars
  BY <1>1 DEF Begun
<1>2. ASSUME NEW w \in Writers, WriteCheck(w)
      PROVE  Begun'
  <2>1. sent' \in [Writers -> Nat] /\ pc' \in Progress
    BY <1>2 DEF Begun, WriteCheck, Threads, Progress
  <2>2. \A v \in Writers : sent'[v] <= Len(Payload[v])
    <3>1. Len(Payload[w]) \in Nat
      BY PayloadType
    <3> QED BY <1>2, <3>1 DEF Begun, WriteCheck
  <2>3. \A v \in Writers : pc'[v] # "idle" => sent'[v] >= 1
    BY <1>2 DEF Begun, WriteCheck, Threads, Progress
  <2> QED BY <2>1, <2>2, <2>3 DEF Begun
<1>3. ASSUME NEW w \in Writers, WritePush(w) \/ WriteCAS(w) \/ AsyncSend(w)
      PROVE  Begun'
  <2>1. /\ pc' \in Progress /\ UNCHANGED sent
        /\ \A v \in Writers : pc'[v] # "idle" => pc[v] # "idle"
    BY <1>3 DEF Begun, WritePush, WriteCAS, AsyncSend, Threads, Progress
  <2> QED BY <2>1 DEF Begun
<1>4. ASSUME NEW k \in Closers, CloseCAS(k) \/ AsyncSend(k)
      PROVE  Begun'
  <2>1. k \in Threads /\ k \notin Writers
    BY ThreadsFinite DEF Threads
  <2>2. /\ pc' \in Progress /\ UNCHANGED sent
        /\ \A v \in Writers : pc'[v] = pc[v]
    BY <1>4, <2>1 DEF Begun, CloseCAS, AsyncSend, Threads, Progress
  <2> QED BY <2>2 DEF Begun
<1>5. ASSUME NEW n, ReadBytes(n) \/ RefuseFrame \/ DispatchFrame
      PROVE  UNCHANGED threadVars
  BY <1>5 DEF ReadBytes, RefuseFrame, DispatchFrame
<1>6. CASE Connect \/ LoopStep \/ PeerAsked \/ PeerDoClose
  BY <1>1, <1>6, Zenon DEF Connect, LoopStep, OnIoAsync, OnTimeout, OnConnect, PeerGone, OnWrite, OnClose,
                    OnAsyncClosed, Free, PeerAsked, PeerDoClose
<1> QED BY <1>1, <1>2, <1>3, <1>4, <1>5, <1>6 DEF Next, WriteStep, ReadStep, vars

(* The other end holds bytes, and onRead goes on only with a whole frame or *)
(* a length that is too large.                                             *)
LEMMA PeerStep ==
    ASSUME OwnData, PeerData, Parsing, [Next]_vars
    PROVE  PeerData' /\ Parsing'
<1> USE DEF flagVars, lifeVars, threadVars, historyVars, peerVars
<1>1. ASSUME UNCHANGED peerVars
      PROVE  PeerData' /\ Parsing'
  BY <1>1, ParsingKept DEF PeerData
<1>2. CASE OnWrite
  <2>1. UNCHANGED <<recv, parsing, peer, delivered>>
    BY <1>2 DEF OnWrite
  <2>2. arriving' \in Seq(Byte)
    <3>1. PICK f \in Frame : inFlight = <<f>>
      BY <1>2 DEF OwnData, OnWrite, Writing
    <3>2. Framed(PayloadOf(inFlight[1])) \in Seq(Byte)
      BY <3>1, FramePayload, FramedBytes DEF Payloads
    <3>3. /\ arriving \in Seq(Byte)
          /\ arriving \o Framed(PayloadOf(inFlight[1])) \in Seq(Byte)
      BY <3>2 DEF PeerData
    <3> QED BY <1>2, <3>3, Zenon DEF OnWrite
  <2> QED BY <2>1, <2>2, ParsingKept DEF PeerData
<1>3. ASSUME NEW n \in 1 .. Len(arriving), ReadBytes(n)
      PROVE  PeerData' /\ Parsing'
  <2>1. recv' \in Seq(Byte) /\ arriving' \in Seq(Byte)
    BY <1>3, BytesMoved DEF PeerData, ReadBytes
  <2>2. Parsing'
    BY <1>3, Zenon DEF ReadBytes, Parsing
  <2> QED BY <1>3, <2>1, <2>2 DEF PeerData, ReadBytes
<1>4. CASE RefuseFrame
  BY <1>4 DEF PeerData, RefuseFrame, Parsing
<1>5. CASE DispatchFrame
  <2>1. HasFrame(recv)
    BY <1>5 DEF DispatchFrame, Parsing
  <2>2. FirstFrame(recv) \in Seq(Byte) /\ AfterFrame(recv) \in Seq(Byte)
    BY <2>1, FrameBytes DEF PeerData
  <2>3. recv' \in Seq(Byte) /\ delivered' \in Seq(Seq(Byte))
    BY <1>5, <2>2 DEF PeerData, DispatchFrame
  <2>4. Parsing'
    BY <1>5, Zenon DEF DispatchFrame, Parsing
  <2> QED BY <1>5, <2>3, <2>4 DEF PeerData, DispatchFrame
<1>6. CASE PeerAsked \/ PeerDoClose
  BY <1>6, ParsingKept DEF PeerData, PeerAsked, PeerDoClose
<1>7. ASSUME NEW t, WriteCheck(t) \/ WriteStep(t) \/ CloseCAS(t) \/ AsyncSend(t)
      PROVE  UNCHANGED peerVars
  BY <1>7 DEF WriteCheck, WriteStep, WritePush, WriteCAS, CloseCAS, AsyncSend
<1>8. ASSUME \/ Connect \/ OnIoAsync \/ OnTimeout \/ OnConnect \/ PeerGone
             \/ OnClose \/ OnAsyncClosed \/ Free
      PROVE  UNCHANGED peerVars
  BY <1>8, Zenon DEF Connect, OnIoAsync, OnTimeout, OnConnect, PeerGone, OnClose, OnAsyncClosed, Free
<1> QED BY <1>1, <1>2, <1>3, <1>4, <1>5, <1>6, <1>7, <1>8 DEF Next, LoopStep, ReadStep, vars

(* The typing invariant is inductive.                                      *)
LEMMA TypeInvariant == Spec => []TypeInv
<1>1. Init => TypeInv
  <2>1. Init => Flags
    BY Zenon DEF Init, Flags
  <2>2. Init => OwnData /\ PeerData
    BY DEF Init, OwnData, PeerData, Handles, Writing
  <2>3. Init => Begun
    <3>1. \A w \in Writers : w \in Threads /\ Len(Payload[w]) \in Nat
      BY PayloadType DEF Threads
    <3> QED BY <3>1 DEF Init, Begun, Progress
  <2>4. Init => Parsing
    BY Zenon DEF Init, Parsing
  <2> QED BY <2>1, <2>2, <2>3, <2>4 DEF TypeInv
<1>2. TypeInv /\ [Next]_vars => TypeInv'
  BY FlagsStep, OwnStep, BegunStep, PeerStep DEF TypeInv
<1> QED BY <1>1, <1>2, PTL DEF Spec

\* Every variable keeps its type: frames are frames, bytes are bytes, and no
\* more frames are begun than there are payloads.
THEOREM TypeCorrect == Spec => []TypeOK
<1>1. TypeInv => TypeOK
  BY DEF TypeInv, TypeOK, Flags, OwnData, PeerData, Begun, Handles, Writing, Progress
<1> QED BY <1>1, TypeInvariant, PTL
-----------------------------------------------------------------------------
(* The flags.  What is closed stays closed, and leaves nothing in the loop. *)
Closing ==
    /\ isClosing => closeReq
    /\ isClosing <=> handle \in {"closing", "closed"}
    /\ io # "open" => handle = "closed"
    /\ (connectReq /\ ~closeReq) => handle = "idle"
    /\ timer => handle = "connecting"
    /\ handle = "closed" => io # "open"

(* libuv takes a frame only from an open connection, and gives it back       *)
(* before the close callback.                                              *)
Carried == inFlight # <<>> => handle \in {"open", "closing"}

(* A write_pending_ that is up brings the loop to the queue, and a queue    *)
(* whose flag is down has a writer who is about to put it up.               *)
Drained ==
    (writePending /\ ~closeReq) =>
        \/ inFlight # <<>> \/ ioSignal
        \/ \E w \in Writers : pc[w] = "won"
Pushed ==
    (queue # <<>> /\ ~closeReq /\ ~writePending) => \E w \in Writers : pc[w] = "pushed"

FlagInv == Closing /\ Carried /\ Drained /\ Pushed

(* A step of one thread is a step of no other.                             *)
LEMMA ThreadMoves ==
    ASSUME Begun, NEW t \in Threads, NEW v, pc' = [pc EXCEPT ![t] = v]
    PROVE  pc'[t] = v /\ \A u \in Threads : u # t => pc'[u] = pc[u]
BY DEF Begun, Progress

(* Every step keeps the agreement of the flags: the steps that lower one    *)
(* (the loop clearing ioSignal, drainWriteQueue clearing write_pending_)     *)
(* find nothing to do, or take over what there is.                          *)
LEMMA FlagStep ==
    ASSUME Begun, FlagInv, [Next]_vars
    PROVE  FlagInv'
<1> USE DEF FlagInv, Closing, Carried, Drained, Pushed, flagVars, lifeVars, threadVars, historyVars
<1>0. Writers \subseteq Threads /\ Closers \subseteq Threads /\ \A k \in Closers : k \notin Writers
  BY ThreadsFinite DEF Threads
<1>1. CASE UNCHANGED <<handle, timer, flagVars, queue, inFlight, ioSignal, lifeVars, threadVars>>
  BY <1>1, Zenon
<1>2. CASE Connect
  BY <1>2, Zenon DEF Connect
<1>3. CASE OnIoAsync
  <2>1. CASE closeReq /\ ~isClosing /\ DoClose /\ ioSignal' = FALSE
    BY <1>3, <2>1, Zenon DEF OnIoAsync, DoClose
  <2>2. CASE closeReq /\ isClosing /\ UNCHANGED <<handle, timer, flagVars, queue, inFlight>>
    BY <1>3, <2>2, Zenon DEF OnIoAsync
  <2>3. CASE ~closeReq
    <3>1. PICK refused \in BOOLEAN, failed \in BOOLEAN :
             /\ WorkAsync(refused, failed)
             /\ closeReq' = (refused \/ failed) /\ ioSignal' = (refused \/ failed)
      BY <1>3, <2>3, Zenon DEF OnIoAsync
    <3>2. UNCHANGED <<isClosing, lifeVars, pc>> /\ ~isClosing /\ io = "open"
      BY <1>3, <2>3, Zenon DEF OnIoAsync
    <3>3. /\ ~connectReq'
          /\ \/ UNCHANGED <<handle, timer>>
             \/ connectReq /\ handle' = "connecting" /\ timer' \in BOOLEAN
          /\ inFlight' \in {inFlight, <<>>} \/ handle = "open"
      BY <3>1, Worked, Zenon
    <3>4. connectReq => handle = "idle"
      BY <2>3, Zenon
    <3>5. handle' # "closing" /\ handle' # "closed" /\ (timer' => handle' = "connecting")
      <4>1. handle # "closing" /\ handle # "closed" /\ (timer => handle = "connecting")
        BY <3>2, Zenon
      <4>2. CASE UNCHANGED <<handle, timer>>
        BY <4>1, <4>2, Zenon
      <4>3. CASE handle' = "connecting"
        BY <4>3
      <4> QED BY <3>3, <4>2, <4>3
    <3>6. Closing'
      BY <3>2, <3>3, <3>5, Zenon
    <3>7. Carried'
      <4>1. handle = "open" => handle' = "open"
        BY <3>3, <3>4
      <4>2. CASE handle = "open"
        BY <4>1, <4>2, Zenon
      <4>3. CASE handle # "open"
        BY <3>2, <3>3, <4>3, Zenon
      <4> QED BY <4>2, <4>3
    <3>8. CASE closeReq'
      BY <3>6, <3>7, <3>8, Zenon
    <3>9. CASE ~closeReq'
      <4>1. ~failed
        BY <3>1, <3>9, Zenon
      <4>2. CASE ~writePending
        <5>1. UNCHANGED <<queue, writePending>>
          BY <3>1, <4>2, Zenon DEF WorkAsync
        <5> QED BY <2>3, <3>2, <3>6, <3>7, <4>2, <5>1, Zenon
      <4>3. CASE writePending /\ inFlight # <<>>
        <5>1. UNCHANGED <<queue, inFlight, writePending>>
          BY <3>1, <3>2, <4>1, <4>3, Zenon DEF WorkAsync, Drain
        <5> QED BY <3>6, <3>7, <4>3, <5>1, Zenon
      <4>4. CASE writePending /\ inFlight = <<>>
        <5>1. TakeNext
          BY <3>1, <3>2, <4>1, <4>4, Zenon DEF WorkAsync, Drain
        <5>2. CASE queue = <<>>
          BY <3>6, <3>7, <5>1, <5>2, Zenon DEF TakeNext
        <5>3. CASE queue # <<>>
          <6>1. inFlight' = <<Head(queue)>> /\ inFlight' # <<>> /\ UNCHANGED writePending
            BY <5>1, <5>3 DEF TakeNext
          <6> QED BY <3>6, <3>7, <4>4, <6>1, Zenon
        <5> QED BY <5>2, <5>3
      <4> QED BY <4>2, <4>3, <4>4
    <3> QED BY <3>8, <3>9
  <2> QED BY <1>3, <2>1, <2>2, <2>3, Zenon DEF OnIoAsync
<1>4. CASE OnTimeout \/ OnConnect \/ PeerGone
  <2>1. CASE OnTimeout
    <3>1. Closing'
      BY <2>1, Zenon DEF OnTimeout, LoopClose
    <3>2. Carried'
      BY <2>1, Zenon DEF OnTimeout, LoopClose
    <3>3. Drained' /\ Pushed'
      BY <2>1, Zenon DEF OnTimeout, LoopClose
    <3> QED BY <3>1, <3>2, <3>3
  <2>2. CASE OnConnect
    <3>1. Closing'
      BY <2>2, Zenon DEF OnConnect, LoopClose
    <3>2. Carried'
      BY <2>2, Zenon DEF OnConnect, LoopClose
    <3>3. Drained' /\ Pushed'
      BY <2>2, Zenon DEF OnConnect, LoopClose
    <3> QED BY <3>1, <3>2, <3>3
  <2>3. CASE PeerGone
    <3>1. Closing'
      BY <2>3, Zenon DEF PeerGone, LoopClose
    <3>2. Carried'
      BY <2>3, Zenon DEF PeerGone, LoopClose
    <3>3. Drained' /\ Pushed'
      BY <2>3, Zenon DEF PeerGone, LoopClose
    <3> QED BY <3>1, <3>2, <3>3
  <2> QED BY <1>4, <2>1, <2>2, <2>3
<1>5. CASE OnWrite
  <2>1. inFlight # <<>> /\ handle # "closed"
    BY <1>5, Zenon DEF OnWrite
  <2>2. UNCHANGED <<handle, timer, connectReq, isClosing, lifeVars, threadVars>>
    BY <1>5, Zenon DEF OnWrite
  <2>3. Closing'
    <3>1. closeReq' \/ UNCHANGED closeReq
      BY <1>5, Zenon DEF OnWrite, LoopClose
    <3>2. closeReq => closeReq'
      BY <1>5, Zenon DEF OnWrite, LoopClose
    <3> QED BY <2>1, <2>2, <3>1, <3>2, Zenon
  <2>4. Carried'
    BY <2>1, <2>2, Zenon
  <2>5. CASE closeReq'
    BY <2>3, <2>4, <2>5, Zenon
  <2>6. CASE ~closeReq'
    <3>1. ~closeReq /\ ~isClosing /\ TakeNext
      <4>1. ~LoopClose
        BY <2>6, Zenon DEF LoopClose
      <4>2. Drain(<<>>, FALSE) /\ closeReq' = closeReq
        BY <1>5, <4>1, Zenon DEF OnWrite
      <4>3. ~closeReq /\ ~isClosing
        BY <2>6, <4>2, Zenon
      <4> QED BY <4>2, <4>3, Zenon DEF Drain
    <3>2. CASE queue = <<>>
      BY <2>3, <2>4, <3>1, <3>2, Zenon DEF TakeNext
    <3>3. CASE queue # <<>>
      <4>1. inFlight' = <<Head(queue)>> /\ inFlight' # <<>> /\ UNCHANGED writePending
        BY <3>1, <3>3 DEF TakeNext
      <4>2. UNCHANGED pc
        BY <2>2
      <4>3. Drained'
        BY <4>1, Zenon
      <4> QED BY <2>2, <2>3, <2>4, <3>1, <3>3, <4>1, <4>2, <4>3, Zenon
    <3> QED BY <3>2, <3>3
  <2> QED BY <2>5, <2>6
<1>6. CASE OnClose \/ OnAsyncClosed \/ Free
  <2>1. CASE OnClose
    <3>1. Closing'
      BY <2>1, Zenon DEF OnClose
    <3>2. Carried'
      BY <2>1, Zenon DEF OnClose
    <3>3. Drained' /\ Pushed'
      BY <2>1, Zenon DEF OnClose
    <3> QED BY <3>1, <3>2, <3>3
  <2>2. CASE OnAsyncClosed
    <3>1. Closing'
      BY <2>2, Zenon DEF OnAsyncClosed
    <3>2. Carried'
      BY <2>2, Zenon DEF OnAsyncClosed
    <3>3. Drained' /\ Pushed'
      BY <2>2, Zenon DEF OnAsyncClosed
    <3> QED BY <3>1, <3>2, <3>3
  <2>3. CASE Free
    <3>1. Closing'
      BY <2>3, Zenon DEF Free
    <3>2. Carried'
      BY <2>3, Zenon DEF Free
    <3>3. Drained' /\ Pushed'
      BY <2>3, Zenon DEF Free
    <3> QED BY <3>1, <3>2, <3>3
  <2> QED BY <1>6, <2>1, <2>2, <2>3
<1>7. ASSUME NEW w \in Writers, WriteCheck(w)
      PROVE  FlagInv'
  <2>1. pc' = [pc EXCEPT ![w] = pc'[w]] /\ pc'[w] \in {"idle", "checked"}
    BY <1>7 DEF WriteCheck, Begun, Progress, Threads
  <2>2. pc[w] = "idle" /\ \A u \in Writers : u # w => pc'[u] = pc[u]
    BY <1>0, <1>7, <2>1, ThreadMoves, Zenon DEF WriteCheck
  <2> QED BY <1>7, <2>2, Zenon DEF WriteCheck
<1>8. ASSUME NEW w \in Writers, WritePush(w)
      PROVE  FlagInv'
  <2>1. pc'[w] = "pushed" /\ pc[w] = "checked" /\ \A u \in Writers : u # w => pc'[u] = pc[u]
    BY <1>0, <1>8, ThreadMoves, Zenon DEF WritePush
  <2> QED BY <1>8, <2>1, Zenon DEF WritePush
<1>9. ASSUME NEW w \in Writers, WriteCAS(w)
      PROVE  FlagInv'
  <2>1. /\ pc'[w] = IF writePending THEN "idle" ELSE "won"
        /\ pc[w] = "pushed" /\ \A u \in Writers : u # w => pc'[u] = pc[u]
    BY <1>0, <1>9, ThreadMoves, Zenon DEF WriteCAS
  <2> QED BY <1>9, <2>1, Zenon DEF WriteCAS
<1>10. ASSUME NEW w \in Writers, AsyncSend(w)
       PROVE  FlagInv'
  <2>1. pc'[w] = "idle" /\ pc[w] = "won" /\ \A u \in Writers : u # w => pc'[u] = pc[u]
    BY <1>0, <1>10, ThreadMoves, Zenon DEF AsyncSend
  <2> QED BY <1>10, <2>1, Zenon DEF AsyncSend
<1>11. ASSUME NEW k \in Closers, CloseCAS(k) \/ AsyncSend(k)
       PROVE  FlagInv'
  <2>1. \A u \in Writers : pc'[u] = pc[u]
    BY <1>0, <1>11, ThreadMoves, Zenon DEF CloseCAS, AsyncSend
  <2>2. CASE CloseCAS(k)
    BY <2>1, <2>2, Zenon DEF CloseCAS
  <2>3. CASE AsyncSend(k)
    BY <2>1, <2>3, Zenon DEF AsyncSend
  <2> QED BY <1>11, <2>2, <2>3
<1>12. ASSUME NEW n, ReadBytes(n) \/ RefuseFrame \/ DispatchFrame \/ PeerAsked \/ PeerDoClose
       PROVE  UNCHANGED ownVars
  BY <1>12, Zenon DEF ReadBytes, RefuseFrame, DispatchFrame, PeerAsked, PeerDoClose
<1> QED BY <1>1, <1>2, <1>3, <1>4, <1>5, <1>6, <1>7, <1>8, <1>9, <1>10, <1>11, <1>12
        DEF Next, LoopStep, WriteStep, ReadStep, vars, ownVars

(* FlagInv is inductive relative to the types.                             *)
LEMMA FlagInvariant == Spec => []FlagInv
<1>1. Init => FlagInv
  BY Zenon DEF Init, FlagInv, Closing, Carried, Drained, Pushed, Threads
<1>2. Begun /\ FlagInv /\ [Next]_vars => FlagInv'
  BY FlagStep
<1>3. TypeInv => Begun
  BY DEF TypeInv
<1> QED BY <1>1, <1>2, <1>3, TypeInvariant, PTL DEF Spec

\* However calls of write interleave with the loop, a queued frame has somebody
\* who will drain it.
THEOREM NothingStranded == Spec => []NoStrandedFrame
<1>1. FlagInv => NoStrandedFrame
  BY Zenon DEF FlagInv, Drained, Pushed, NoStrandedFrame
<1> QED BY <1>1, FlagInvariant, PTL

\* The close callback has left neither timer nor request nor async handle open.
THEOREM ClosesClean == Spec => []ClosedClean
<1>1. FlagInv => ClosedClean
  BY DEF FlagInv, Closing, Carried, ClosedClean
<1> QED BY <1>1, FlagInvariant, PTL
-----------------------------------------------------------------------------
(* The order of the frames.                                                *)

\* s begins with t.
StartsWith(s, t) == Len(t) <= Len(s) /\ \A i \in 1 .. Len(t) : s[i] = t[i]

(* A frame appended to what waits is appended to the whole.                *)
LEMMA FramesAppended ==
    ASSUME NEW s \in Seq(Frame), NEW q \in Seq(Frame), NEW f \in Frame
    PROVE  s \o Append(q, f) = Append(s \o q, f)
OBVIOUS

(* Taking the first of what waits leaves the whole as it was.              *)
LEMMA HeadMoved ==
    ASSUME NEW s \in Seq(Frame), NEW q \in Seq(Frame), q # <<>>
    PROVE  s \o q = (s \o <<Head(q)>>) \o Tail(q)
OBVIOUS

(* Appending keeps the beginning.                                          *)
LEMMA PrefixGrows ==
    ASSUME NEW a \in Seq(Frame), NEW s \in Seq(Frame), NEW f \in Frame, StartsWith(a, s)
    PROVE  StartsWith(Append(a, f), s)
BY DEF StartsWith

(* What has left is the beginning of what has left or is leaving.          *)
LEMMA PrefixOfPrefix ==
    ASSUME NEW a \in Seq(Frame), NEW s \in Seq(Frame), NEW t \in Seq(Frame),
           StartsWith(a, s \o t)
    PROVE  Len(s) <= Len(a) /\ StartsWith(a, s) /\ SubSeq(a, 1, Len(s)) = s
<1>1. Len(s) <= Len(a) /\ \A i \in 1 .. Len(s) : a[i] = s[i]
  BY DEF StartsWith
<1>2. StartsWith(a, s)
  BY <1>1 DEF StartsWith
<1> DEFINE b == SubSeq(a, 1, Len(s))
<1>3. b \in Seq(Frame) /\ Len(b) = Len(s)
  BY <1>1
<1>4. \A i \in 1 .. Len(s) : b[i] = s[i]
  BY <1>1
<1> HIDE DEF b
<1>5. b = s
  BY <1>3, <1>4, SeqEqual
<1> QED BY <1>1, <1>2, <1>5 DEF b

(* Until the connection is being closed, or the write of a frame fails, what *)
(* was accepted is what has left, what is leaving and what waits.  After     *)
(* that it still begins with what has left.                                  *)
Whole == accepted = (wire \o inFlight) \o queue
Ordered ==
    /\ (~closeReq \/ (inFlight # <<>> /\ ~isClosing)) => Whole
    /\ StartsWith(accepted, wire \o inFlight)

(* Every step keeps the order.                                             *)
LEMMA OrderedStep ==
    ASSUME OwnData, OwnData', Begun, Closing, Ordered, [Next]_vars
    PROVE  Ordered'
<1> USE DEF flagVars, lifeVars, threadVars, historyVars, peerVars, ownVars
<1>1. ASSUME UNCHANGED <<inFlight, queue, wire, accepted>>,
             closeReq => closeReq', isClosing => isClosing'
      PROVE  Ordered'
  BY <1>1, Zenon DEF Ordered, Whole, StartsWith
<1>2. /\ wire \in Seq(Frame) /\ accepted \in Seq(Frame) /\ queue \in Seq(Frame)
      /\ inFlight \in Seq(Frame) /\ inFlight \in Writing
  <2>1. <<>> \in Seq(Frame) /\ \A f \in Frame : <<f>> \in Seq(Frame)
    OBVIOUS
  <2> QED BY <2>1, Zenon DEF OwnData, Writing
<1>3. wire \o inFlight \in Seq(Frame)
  BY <1>2
<1>4. ASSUME TakeNext, wire' = wire \o inFlight, UNCHANGED accepted, Whole
      PROVE  Whole' /\ StartsWith(accepted', wire' \o inFlight')
  <2> DEFINE s == wire \o inFlight
  <2>1. s \in Seq(Frame) /\ accepted = s \o queue /\ wire' = s /\ accepted' = accepted
    BY <1>3, <1>4 DEF Whole
  <2> HIDE DEF s
  <2>2. CASE queue = <<>>
    <3>1. inFlight' = <<>> /\ queue' = <<>> /\ s \o <<>> = s /\ StartsWith(s, s)
      BY <1>4, <2>1, <2>2 DEF TakeNext, StartsWith
    <3> QED BY <2>1, <2>2, <3>1, Zenon DEF Whole
  <2>3. CASE queue # <<>>
    <3>1. inFlight' = <<Head(queue)>> /\ queue' = Tail(queue)
      BY <1>4, <2>3 DEF TakeNext
    <3>2. s \o queue = (s \o <<Head(queue)>>) \o Tail(queue)
      BY <1>2, <2>1, <2>3, HeadMoved
    <3>3. s \o <<Head(queue)>> \in Seq(Frame) /\ Tail(queue) \in Seq(Frame)
      BY <1>2, <2>1, <2>3
    <3>4. StartsWith((s \o <<Head(queue)>>) \o Tail(queue), s \o <<Head(queue)>>)
      BY <3>3 DEF StartsWith
    <3> QED BY <2>1, <3>1, <3>2, <3>4, Zenon DEF Whole
  <2> QED BY <2>2, <2>3
<1>5. CASE OnIoAsync
  <2>1. UNCHANGED <<wire, accepted>>
    BY <1>5 DEF OnIoAsync
  <2>2. CASE DoClose
    BY <1>1, <2>1, <2>2, Zenon DEF DoClose
  <2>3. CASE UNCHANGED <<queue, inFlight>> /\ UNCHANGED isClosing
    <3>1. closeReq => closeReq'
      BY <1>5, <2>3, Zenon DEF OnIoAsync, DoClose
    <3> QED BY <1>1, <2>1, <2>3, <3>1, Zenon
  <2>4. CASE ~closeReq /\ inFlight = <<>> /\ TakeNext
    <3>1. Whole /\ wire' = wire \o inFlight
      BY <1>2, <2>1, <2>4 DEF Ordered
    <3> QED BY <1>4, <2>1, <2>4, <3>1, Zenon DEF Ordered
  <2>5. CASE inFlight = <<>> /\ inFlight' = <<>> /\ closeReq' = TRUE
    BY <2>1, <2>5, Zenon DEF Ordered
  <2>6. CASE closeReq
    BY <1>5, <2>2, <2>3, <2>6, Zenon DEF OnIoAsync
  <2>7. CASE ~closeReq
    <3>1. PICK refused \in BOOLEAN, failed \in BOOLEAN :
             WorkAsync(refused, failed) /\ closeReq' = (refused \/ failed) /\ UNCHANGED isClosing
      BY <1>5, <2>7, Zenon DEF OnIoAsync
    <3> QED BY <2>3, <2>4, <2>5, <2>7, <3>1, Zenon DEF WorkAsync, Drain
  <2> QED BY <2>6, <2>7
<1>6. CASE OnWrite
  <2>1. inFlight # <<>> /\ UNCHANGED <<accepted, isClosing>>
    BY <1>6, Zenon DEF OnWrite
  <2>2. StartsWith(accepted, wire)
    BY <1>2, PrefixOfPrefix DEF Ordered
  <2>3. CASE wire' = wire \o inFlight /\ ~closeReq' /\ TakeNext
    <3>1. closeReq => closeReq'
      BY <1>6, Zenon DEF OnWrite, LoopClose
    <3>2. Whole
      BY <2>3, <3>1, Zenon DEF Ordered
    <3> QED BY <1>4, <2>1, <2>3, <3>2, Zenon DEF Ordered
  <2>4. CASE wire' = wire \o inFlight /\ ~isClosing /\ TakeNext
    <3>1. Whole
      BY <2>1, <2>4, Zenon DEF Ordered
    <3> QED BY <1>4, <2>1, <2>4, <3>1, Zenon DEF Ordered
  <2>5. CASE wire' = wire \o inFlight /\ inFlight' = <<>> /\ closeReq'
    <3>1. wire' \o <<>> = wire'
      BY <1>3, <2>5
    <3> QED BY <2>1, <2>5, <3>1, Zenon DEF Ordered
  <2>6. CASE wire' = wire /\ inFlight' = <<>> /\ closeReq'
    <3>1. wire' \o <<>> = wire'
      BY <1>2, <2>6
    <3> QED BY <2>1, <2>2, <2>6, <3>1, Zenon DEF Ordered
  <2>7. (isClosing /\ UNCHANGED closeReq) => closeReq'
    BY DEF Closing
  <2> QED BY <1>6, <2>4, <2>5, <2>6, <2>7, Zenon DEF OnWrite, Drain, LoopClose
<1>7. CASE OnClose
  <2>1. closeReq' /\ inFlight' = inFlight /\ inFlight = <<>> /\ UNCHANGED <<wire, accepted>>
    BY <1>7, Zenon DEF OnClose, Closing
  <2> QED BY <2>1, Zenon DEF Ordered
<1>8. ASSUME NEW w \in Writers, WritePush(w)
      PROVE  Ordered'
  <2>1. <<w, sent[w]>> \in Frame
    <3>1. sent[w] \in 1 .. Len(Payload[w])
      BY <1>8, PayloadType DEF Begun, WritePush
    <3> QED BY <3>1, FramePair
  <2>2. /\ UNCHANGED <<wire, inFlight, closeReq, isClosing>>
        /\ accepted' = Append(accepted, <<w, sent[w]>>) /\ queue' = Append(queue, <<w, sent[w]>>)
    BY <1>8 DEF WritePush
  <2>3. StartsWith(accepted', wire' \o inFlight')
    BY <1>2, <1>3, <2>1, <2>2, PrefixGrows DEF Ordered
  <2>4. Whole => Whole'
    <3> DEFINE s == wire \o inFlight
               f == <<w, sent[w]>>
    <3>1. s \in Seq(Frame) /\ f \in Frame /\ wire' \o inFlight' = s
      BY <1>3, <2>1, <2>2
    <3>2. accepted' = Append(accepted, f) /\ queue' = Append(queue, f)
      BY <2>2
    <3> HIDE DEF s, f
    <3>3. s \o Append(queue, f) = Append(s \o queue, f)
      BY <1>2, <3>1, FramesAppended
    <3> QED BY <3>1, <3>2, <3>3, Zenon DEF Whole, s
  <2> QED BY <2>2, <2>3, <2>4, Zenon DEF Ordered
<1>9. CASE Connect \/ OnTimeout \/ OnConnect \/ PeerGone \/ OnAsyncClosed \/ Free
  BY <1>1, <1>9, Zenon DEF Connect, OnTimeout, OnConnect, PeerGone, LoopClose, OnAsyncClosed, Free
<1>10. ASSUME NEW t, WriteCheck(t) \/ WriteCAS(t) \/ CloseCAS(t) \/ AsyncSend(t)
       PROVE  Ordered'
  BY <1>1, <1>10, Zenon DEF WriteCheck, WriteCAS, CloseCAS, AsyncSend
<1>11. ASSUME NEW n, ReadBytes(n) \/ RefuseFrame \/ DispatchFrame \/ PeerAsked \/ PeerDoClose
       PROVE  Ordered'
  BY <1>1, <1>11, Zenon DEF ReadBytes, RefuseFrame, DispatchFrame, PeerAsked, PeerDoClose
<1>12. CASE UNCHANGED vars
  BY <1>1, <1>12, Zenon DEF vars
<1> QED BY <1>5, <1>6, <1>7, <1>8, <1>9, <1>10, <1>11, <1>12
        DEF Next, LoopStep, WriteStep, ReadStep

(* Ordered is inductive relative to the types and the flags.               *)
LEMMA OrderedInvariant == Spec => []Ordered
<1>1. Init => Ordered
  BY DEF Init, Ordered, Whole, StartsWith
<1>2. OwnData /\ OwnData' /\ Begun /\ Closing /\ Ordered /\ [Next]_vars => Ordered'
  BY OrderedStep
<1>3. TypeInv => OwnData /\ Begun
  BY DEF TypeInv
<1>4. FlagInv => Closing
  BY DEF FlagInv
<1> QED BY <1>1, <1>2, <1>3, <1>4, TypeInvariant, FlagInvariant, PTL DEF Spec

\* Frames leave in the order they were accepted, and before the close none is
\* lost or doubled.
THEOREM FramesInOrder == Spec => []InOrder
<1>1. ASSUME OwnData, Ordered
      PROVE  InOrder
  <2>1. wire \in Seq(Frame) /\ accepted \in Seq(Frame) /\ queue \in Seq(Frame)
    BY <1>1 DEF OwnData
  <2>2. inFlight \in Seq(Frame)
    <3>1. <<>> \in Seq(Frame) /\ \A f \in Frame : <<f>> \in Seq(Frame)
      OBVIOUS
    <3> QED BY <1>1, <3>1, Zenon DEF OwnData, Writing
  <2>3. Len(wire) <= Len(accepted) /\ SubSeq(accepted, 1, Len(wire)) = wire
    BY <1>1, <2>1, <2>2, PrefixOfPrefix DEF Ordered
  <2>4. ~closeReq => accepted = wire \o inFlight \o queue
    BY <1>1, <2>1, <2>2 DEF Ordered, Whole
  <2> QED BY <2>3, <2>4 DEF InOrder
<1>2. TypeInv => OwnData
  BY DEF TypeInv
<1> QED BY <1>1, <1>2, OrderedInvariant, TypeInvariant, PTL
-----------------------------------------------------------------------------
(* The bytes.  Those the other end holds and those that are on their way    *)
(* are the frames of the payloads that have left and are not yet delivered. *)
Written == [i \in 1 .. Len(wire) |-> PayloadOf(wire[i])]

Rebuilt ==
    /\ FramesOf(recv \o arriving, Written, Len(delivered))
    /\ \A k \in 1 .. Len(delivered) :
          delivered[k] = PayloadOf(wire[k]) /\ Len(delivered[k]) <= MaxFrame
    /\ peer = "refusing" => TooLarge(recv)
    /\ (peer = "reading" /\ ~parsing) => ~TooLarge(recv) /\ ~HasFrame(recv)

(* The payloads that have left, one for each frame.                        *)
LEMMA WrittenFacts ==
    ASSUME OwnData
    PROVE  /\ Written \in Seq(Payloads) /\ Len(Written) = Len(wire)
           /\ \A i \in 1 .. Len(wire) : Written[i] = PayloadOf(wire[i])
<1>1. Len(wire) \in Nat /\ \A i \in 1 .. Len(wire) : PayloadOf(wire[i]) \in Payloads
  BY FramePayload, ElementOfSeq DEF OwnData
<1> QED BY <1>1 DEF Written

(* One more frame leaves, one more payload.                                *)
LEMMA WrittenGrows ==
    ASSUME OwnData, OwnData', NEW f \in Frame, wire' = wire \o <<f>>
    PROVE  Written' = Append(Written, PayloadOf(f))
<1> DEFINE w == Written
           p == PayloadOf(f)
           new == Append(w, p)
<1>1. p \in Payloads
  BY FramePayload
<1>2. w \in Seq(Payloads) /\ Len(w) = Len(wire) /\ Len(wire) \in Nat
  BY WrittenFacts DEF OwnData
<1>3. /\ Len(wire') = Len(wire) + 1 /\ wire'[Len(wire) + 1] = f
      /\ \A i \in 1 .. Len(wire) : wire'[i] = wire[i]
  BY DEF OwnData
<1>4. \A i \in 1 .. Len(wire) : w[i] = PayloadOf(wire[i])
  BY WrittenFacts, Zenon
<1>5. Written' = [i \in 1 .. Len(wire) + 1 |-> PayloadOf(wire'[i])]
  BY <1>3, Zenon DEF Written, PayloadOf
<1> HIDE DEF w, p
<1>6. /\ new \in Seq(Payloads) /\ Len(new) = Len(wire) + 1 /\ new[Len(wire) + 1] = p
      /\ \A i \in 1 .. Len(wire) : new[i] = w[i]
  BY <1>1, <1>2
<1> HIDE DEF new
<1>7. ASSUME NEW i \in 1 .. Len(wire) + 1
      PROVE  new[i] = PayloadOf(wire'[i])
  <2>1. CASE i = Len(wire) + 1
    BY <1>3, <1>6, <2>1, Zenon DEF p
  <2>2. CASE i \in 1 .. Len(wire)
    BY <1>3, <1>4, <1>6, <2>2, Zenon
  <2> QED BY <1>2, <2>1, <2>2
<1>8. [i \in 1 .. Len(wire) + 1 |-> PayloadOf(wire'[i])] = new
  <2>1. new = [i \in 1 .. Len(wire) + 1 |-> new[i]]
    BY <1>6
  <2> QED BY <1>7, <2>1, Zenon
<1> QED BY <1>5, <1>8 DEF new, w, p

(* Once the other end holds a header, it is that of the next payload.      *)
LEMMA NextPayload ==
    ASSUME OwnData, PeerData, HasHeader(recv),
           FramesOf(recv \o arriving, Written, Len(delivered))
    PROVE  /\ Len(delivered) + 1 \in 1 .. Len(wire)
           /\ PayloadOf(wire[Len(delivered) + 1]) \in Payloads
           /\ Announced(recv) = Len(PayloadOf(wire[Len(delivered) + 1]))
           /\ HasFrame(recv) => FirstFrame(recv) = PayloadOf(wire[Len(delivered) + 1])
<1> DEFINE k == Len(delivered)
           n == Len(wire)
           w == Written
           bytes == recv \o arriving
           p == PayloadOf(wire[k + 1])
<1>1. /\ w \in Seq(Payloads) /\ Len(w) = n /\ n \in Nat /\ k \in Nat
      /\ recv \in Seq(Byte) /\ arriving \in Seq(Byte) /\ Len(recv) \in Nat /\ Len(recv) >= 4
  BY WrittenFacts DEF OwnData, PeerData, HasHeader
<1>2. /\ bytes \in Seq(Byte) /\ Len(bytes) = Len(recv) + Len(arriving)
      /\ \A j \in 1 .. Len(recv) : bytes[j] = recv[j]
  BY <1>1, ConcatAt, Zenon
<1>3. FramesOf(bytes, w, k)
  OBVIOUS
<1>4. k < n
  <2>1. Len(bytes) # 0
    BY <1>1, <1>2
  <2>2. k # n
    BY <1>1, <1>2, <1>3, <2>1, NoFrameLeft, Zenon
  <2>3. k \in 0 .. n
    BY <1>1, <1>3, Zenon DEF FramesOf
  <2> QED BY <1>1, <2>2, <2>3
<1>5. k + 1 \in 1 .. n /\ w[k + 1] = p /\ p \in Payloads
  <2>1. k + 1 \in 1 .. n
    BY <1>1, <1>4
  <2>2. wire[k + 1] \in Frame
    BY <2>1, ElementOfSeq DEF OwnData
  <2> QED BY <2>1, <2>2, WrittenFacts, FramePayload, Zenon
<1> HIDE DEF k, n, w, bytes, p
<1>6. \A j \in 1 .. 4 + Len(p) : bytes[j] = Framed(p)[j]
  <2>1. \A j \in 1 .. 4 + Len(w[k + 1]) : bytes[j] = Framed(w[k + 1])[j]
    BY <1>1, <1>2, <1>3, <1>4, NextFrame, Zenon
  <2> QED BY <1>5, <2>1, Zenon
<1>7. p \in Seq(Byte) /\ Fits(p) /\ Len(p) \in Nat
  BY <1>5 DEF Payloads
<1>8. Announced(recv) = Len(p)
  <2>1. \A j \in 1 .. 4 : j \in 1 .. 4 + Len(p) /\ j \in 1 .. Len(recv)
    BY <1>1, <1>7
  <2>2. \A j \in 1 .. 4 : recv[j] = Header(Len(p))[j]
    BY <1>2, <1>6, <1>7, <2>1, FramedBytes, Zenon
  <2> QED BY <1>7, <2>2, AnnouncedSize, Zenon
<1>9. HasFrame(recv) => FirstFrame(recv) = p
  <2>1. HasFrame(recv) => Len(recv) >= 4 + Len(p)
    BY <1>8, Zenon DEF HasFrame
  <2>2. Len(recv) >= 4 + Len(p) => \A j \in 1 .. 4 + Len(p) : recv[j] = Framed(p)[j]
    <3>1. Len(recv) >= 4 + Len(p) => \A j \in 1 .. 4 + Len(p) : j \in 1 .. Len(recv)
      BY <1>1, <1>7
    <3> QED BY <1>2, <1>6, <3>1, Zenon
  <2> QED BY <1>1, <1>7, <2>1, <2>2, FrameIsRead, Zenon
<1> QED BY <1>5, <1>8, <1>9 DEF k, n, p

(* A header stays what it is while bytes come in behind it.                *)
LEMMA HeaderStays ==
    ASSUME NEW buf \in Seq(Byte), NEW more \in Seq(Byte), TooLarge(buf)
    PROVE  TooLarge(buf \o more)
<1> DEFINE all == buf \o more
<1>1. /\ Len(all) >= 4 /\ all[1] = buf[1] /\ all[2] = buf[2] /\ all[3] = buf[3] /\ all[4] = buf[4]
  BY DEF TooLarge, HasHeader
<1> HIDE DEF all
<1>2. Announced(all) = Announced(buf)
  BY <1>1, SMT DEF Announced
<1>3. TooLarge(all)
  BY <1>1, <1>2, Zenon DEF TooLarge, HasHeader
<1> QED BY <1>3 DEF all

(* Every step keeps the bytes whole: onWrite adds a frame behind them, a     *)
(* read moves some, and a dispatched frame goes from their front.            *)
LEMMA RebuiltStep ==
    ASSUME OwnData, OwnData', PeerData, PeerData', Parsing, Rebuilt, [Next]_vars
    PROVE  Rebuilt'
<1> USE DEF flagVars, lifeVars, threadVars, historyVars, peerVars, ownVars
<1> DEFINE k == Len(delivered)
           p == PayloadOf(wire[k + 1])
<1>0. /\ recv \in Seq(Byte) /\ arriving \in Seq(Byte) /\ delivered \in Seq(Seq(Byte)) /\ k \in Nat
      /\ recv \o arriving \in Seq(Byte)
      /\ Written \in Seq(Payloads) /\ Len(Written) = Len(wire) /\ Len(wire) \in Nat
      /\ k <= Len(wire)
  <2>1. /\ recv \in Seq(Byte) /\ arriving \in Seq(Byte) /\ delivered \in Seq(Seq(Byte)) /\ k \in Nat
        /\ recv \o arriving \in Seq(Byte)
    BY DEF PeerData
  <2>2. Written \in Seq(Payloads) /\ Len(Written) = Len(wire) /\ Len(wire) \in Nat
    BY WrittenFacts DEF OwnData
  <2>3. k \in 0 .. Len(Written)
    BY Zenon DEF Rebuilt, FramesOf
  <2> QED BY <2>1, <2>2, <2>3
<1>1. ASSUME UNCHANGED <<wire, arriving, recv, delivered, parsing>>,
             peer' = peer \/ peer' \in {"asked", "closed"}
      PROVE  Rebuilt'
  <2>1. FramesOf(recv' \o arriving', Written', Len(delivered'))
    BY <1>1, Zenon DEF Rebuilt, Written
  <2>2. \A i \in 1 .. Len(delivered') :
           delivered'[i] = PayloadOf(wire'[i]) /\ Len(delivered'[i]) <= MaxFrame
    BY <1>1, Zenon DEF Rebuilt
  <2>3. /\ peer' = "refusing" => TooLarge(recv')
        /\ (peer' = "reading" /\ ~parsing') => ~TooLarge(recv') /\ ~HasFrame(recv')
    BY <1>1, Zenon DEF Rebuilt
  <2> QED BY <2>1, <2>2, <2>3, Zenon DEF Rebuilt
<1>2. CASE OnWrite
  <2>1. UNCHANGED <<recv, delivered, parsing, peer>>
    BY <1>2, Zenon DEF OnWrite
  <2>2. CASE UNCHANGED <<wire, arriving>>
    BY <1>1, <2>1, <2>2, Zenon
  <2>3. CASE wire' = wire \o inFlight /\ arriving' = arriving \o Framed(PayloadOf(inFlight[1]))
    <3>1. PICK f \in Frame : inFlight = <<f>>
      BY <1>2 DEF OwnData, OnWrite, Writing
    <3> DEFINE q == PayloadOf(f)
    <3>2. inFlight[1] = f /\ q \in Payloads /\ q \in Seq(Byte) /\ Fits(q)
      BY <3>1, FramePayload DEF Payloads
    <3>3. wire' = wire \o <<f>> /\ arriving' = arriving \o Framed(q)
      BY <2>3, <3>1, <3>2, Zenon
    <3>4. Written' = Append(Written, q)
      BY <3>3, WrittenGrows, Zenon
    <3> HIDE DEF q
    <3>5. Framed(q) \in Seq(Byte)
      BY <3>2, FramedBytes, Zenon
    <3>6. recv' \o arriving' = (recv \o arriving) \o Framed(q)
      BY <1>0, <2>1, <3>3, <3>5, BytesAssociative, Zenon
    <3>7. FramesOf((recv \o arriving) \o Framed(q), Append(Written, q), k)
      <4>1. FramesOf(recv \o arriving, Written, k)
        BY Zenon DEF Rebuilt
      <4> HIDE DEF k
      <4> QED BY <1>0, <3>2, <4>1, FrameAdded, Zenon
    <3>8. FramesOf(recv' \o arriving', Written', Len(delivered'))
      BY <2>1, <3>4, <3>6, <3>7, Zenon
    <3>9. ASSUME NEW i \in 1 .. Len(delivered')
          PROVE  delivered'[i] = PayloadOf(wire'[i]) /\ Len(delivered'[i]) <= MaxFrame
      <4>1. i \in 1 .. Len(delivered) /\ i \in 1 .. Len(wire)
        BY <1>0, <2>1
      <4>2. wire'[i] = wire[i]
        BY <3>3, <4>1 DEF OwnData
      <4> QED BY <2>1, <4>1, <4>2, Zenon DEF Rebuilt
    <3>10. /\ peer' = "refusing" => TooLarge(recv')
           /\ (peer' = "reading" /\ ~parsing') => ~TooLarge(recv') /\ ~HasFrame(recv')
      BY <2>1, Zenon DEF Rebuilt
    <3> QED BY <3>8, <3>9, <3>10, Zenon DEF Rebuilt
  <2> QED BY <1>2, <2>2, <2>3, Zenon DEF OnWrite
<1>3. ASSUME NEW n \in 1 .. Len(arriving), ReadBytes(n)
      PROVE  Rebuilt'
  <2>1. UNCHANGED <<wire, delivered, peer>>
    BY <1>3, Zenon DEF ReadBytes
  <2>2. recv' \o arriving' = recv \o arriving
    BY <1>0, <1>3, BytesMoved, Zenon DEF ReadBytes
  <2>3. FramesOf(recv' \o arriving', Written', Len(delivered'))
    BY <2>1, <2>2, Zenon DEF Rebuilt, Written
  <2>4. \A i \in 1 .. Len(delivered') :
           delivered'[i] = PayloadOf(wire'[i]) /\ Len(delivered'[i]) <= MaxFrame
    BY <2>1, Zenon DEF Rebuilt
  <2>5. peer' = "refusing" => TooLarge(recv')
    <3>1. recv' = recv \o SubSeq(arriving, 1, n) /\ SubSeq(arriving, 1, n) \in Seq(Byte)
      BY <1>3, ElementOfSeq DEF ReadBytes, PeerData
    <3> QED BY <1>0, <2>1, <3>1, HeaderStays, Zenon DEF Rebuilt
  <2>6. ~parsing' => ~TooLarge(recv') /\ ~HasFrame(recv')
    BY <1>3, Zenon DEF ReadBytes
  <2> QED BY <2>3, <2>4, <2>5, <2>6, Zenon DEF Rebuilt
<1>4. CASE RefuseFrame
  <2>1. UNCHANGED <<wire, arriving, recv, delivered>> /\ TooLarge(recv) /\ peer' # "reading"
    BY <1>4, Zenon DEF RefuseFrame
  <2>2. FramesOf(recv' \o arriving', Written', Len(delivered'))
    BY <2>1, Zenon DEF Rebuilt, Written
  <2>3. \A i \in 1 .. Len(delivered') :
           delivered'[i] = PayloadOf(wire'[i]) /\ Len(delivered'[i]) <= MaxFrame
    BY <2>1, Zenon DEF Rebuilt
  <2>4. TooLarge(recv')
    BY <2>1, Zenon
  <2> QED BY <2>1, <2>2, <2>3, <2>4, Zenon DEF Rebuilt
<1>5. CASE DispatchFrame
  <2>1. HasFrame(recv) /\ ~TooLarge(recv) /\ HasHeader(recv)
    BY <1>5, Zenon DEF DispatchFrame, Parsing, HasFrame
  <2>2. /\ k + 1 \in 1 .. Len(wire) /\ p \in Payloads
        /\ Announced(recv) = Len(p) /\ FirstFrame(recv) = p
    BY <2>1, NextPayload, Zenon DEF Rebuilt
  <2>3. /\ UNCHANGED <<wire, arriving, peer>>
        /\ delivered' = Append(delivered, p) /\ recv' = AfterFrame(recv)
        /\ parsing' = (peer = "reading" /\ (TooLarge(recv') \/ HasFrame(recv')))
    BY <1>5, <2>2, Zenon DEF DispatchFrame
  <2>4. /\ AfterFrame(recv) \in Seq(Byte) /\ Len(recv) >= 4 + Len(p)
        /\ Len(AfterFrame(recv)) = Len(recv) - (4 + Len(p))
        /\ \A j \in 1 .. Len(AfterFrame(recv)) : AfterFrame(recv)[j] = recv[4 + Len(p) + j]
    <3>1. /\ AfterFrame(recv) \in Seq(Byte) /\ Len(recv) >= 4 + Announced(recv)
          /\ Len(AfterFrame(recv)) = Len(recv) - (4 + Announced(recv))
          /\ \A j \in 1 .. Len(AfterFrame(recv)) :
                AfterFrame(recv)[j] = recv[4 + Announced(recv) + j]
      BY <1>0, <2>1, FrameBytes, Zenon
    <3> HIDE DEF p
    <3> QED BY <2>2, <3>1, Zenon
  <2>5. p \in Seq(Byte) /\ Len(p) \in Nat /\ Len(p) <= MaxFrame
    <3>1. p \in Seq(Byte) /\ Len(p) \in Nat
      BY <2>2 DEF Payloads
    <3>2. ~(Len(p) > MaxFrame)
      BY <2>1, <2>2, Zenon DEF TooLarge
    <3>3. MaxFrame \in Nat
      BY MaxFrameFits, SMT
    <3> QED BY <3>1, <3>2, <3>3
  <2>6. Len(delivered') = k + 1 /\ delivered'[k + 1] = p
        /\ \A i \in 1 .. k : delivered'[i] = delivered[i]
    BY <1>0, <2>3, <2>5
  <2>7. FramesOf(recv' \o arriving', Written', k + 1)
    <3>1. Written[k + 1] = p /\ Written' = Written
      BY <2>2, <2>3, WrittenFacts, Zenon DEF Written
    <3> DEFINE bytes == recv \o arriving
               after == AfterFrame(recv)
               rest == after \o arriving
    <3>2. /\ bytes \in Seq(Byte) /\ Len(bytes) = Len(recv) + Len(arriving)
          /\ \A j \in 1 .. Len(recv) : bytes[j] = recv[j]
          /\ \A j \in 1 .. Len(arriving) : bytes[Len(recv) + j] = arriving[j]
      BY <1>0, ConcatAt, Zenon
    <3>3. /\ rest \in Seq(Byte) /\ Len(rest) = Len(after) + Len(arriving)
          /\ \A j \in 1 .. Len(after) : rest[j] = after[j]
          /\ \A j \in 1 .. Len(arriving) : rest[Len(after) + j] = arriving[j]
      BY <1>0, <2>4, ConcatAt, Zenon
    <3>4. FramesOf(bytes, Written, k) /\ k < Len(Written)
      <4>1. FramesOf(bytes, Written, k)
        BY Zenon DEF Rebuilt
      <4> QED BY <1>0, <2>2, <4>1
    <3> DEFINE d == 4 + Len(p)
               m == Len(recv)
               l == Len(after)
               e == Len(arriving)
    <3>5. d \in Nat /\ m \in Nat /\ l = m - d /\ m >= d /\ e \in Nat
      BY <1>0, <2>4, <2>5
    <3>6. /\ \A j \in 1 .. l : after[j] = recv[d + j]
          /\ \A j \in 1 .. m : bytes[j] = recv[j]
          /\ \A j \in 1 .. e : bytes[m + j] = arriving[j]
          /\ \A j \in 1 .. l : rest[j] = after[j]
          /\ \A j \in 1 .. e : rest[l + j] = arriving[j]
          /\ Len(bytes) = m + e /\ Len(rest) = l + e
      BY <2>4, <3>2, <3>3, Zenon
    <3> HIDE DEF bytes, after, rest, d, m, l, e
    <3>7. ASSUME NEW j \in 1 .. l + e
          PROVE  rest[j] = bytes[d + j]
      <4>1. CASE j <= l
        <5>1. j \in 1 .. l /\ d + j \in 1 .. m
          BY <3>5, <4>1
        <5> QED BY <3>6, <5>1, Zenon
      <4>2. CASE j > l
        <5> DEFINE i == j - l
        <5>1. i \in 1 .. e /\ l + i = j /\ m + i = d + j
          BY <3>5, <4>2
        <5> HIDE DEF i
        <5>2. rest[l + i] = arriving[i] /\ bytes[m + i] = arriving[i]
          BY <3>6, <5>1, Zenon
        <5> QED BY <5>1, <5>2, Zenon
      <4> QED BY <3>5, <4>1, <4>2
    <3>8. Len(rest) = Len(bytes) - d
      BY <3>5, <3>6
    <3>9. FramesOf(rest, Written, k + 1)
      <4>1. /\ Len(rest) = Len(bytes) - (4 + Len(Written[k + 1]))
            /\ \A j \in 1 .. Len(rest) : rest[j] = bytes[4 + Len(Written[k + 1]) + j]
        BY <3>1, <3>6, <3>7, <3>8, Zenon DEF d
      <4> HIDE DEF k
      <4> QED BY <1>0, <3>2, <3>3, <3>4, <4>1, FrameTaken, Zenon
    <3> QED BY <2>3, <3>1, <3>9, Zenon DEF rest, after
  <2>8. ASSUME NEW i \in 1 .. k + 1
        PROVE  delivered'[i] = PayloadOf(wire'[i]) /\ Len(delivered'[i]) <= MaxFrame
    <3>1. CASE i = k + 1
      BY <2>3, <2>5, <2>6, <3>1, Zenon
    <3>2. CASE i \in 1 .. k
      BY <2>3, <2>6, <3>2, Zenon DEF Rebuilt
    <3> QED BY <1>0, <3>1, <3>2
  <2>9. /\ peer' = "refusing" => TooLarge(recv')
        /\ (peer' = "reading" /\ ~parsing') => ~TooLarge(recv') /\ ~HasFrame(recv')
    BY <2>1, <2>3, Zenon DEF Rebuilt
  <2> QED BY <2>6, <2>7, <2>8, <2>9, Zenon DEF Rebuilt
<1>6. CASE PeerAsked \/ PeerDoClose
  BY <1>1, <1>6, Zenon DEF PeerAsked, PeerDoClose
<1>7. ASSUME NEW t, WriteCheck(t) \/ WritePush(t) \/ WriteCAS(t) \/ CloseCAS(t) \/ AsyncSend(t)
      PROVE  Rebuilt'
  BY <1>1, <1>7, Zenon DEF WriteCheck, WritePush, WriteCAS, CloseCAS, AsyncSend
<1>8. CASE \/ Connect \/ OnIoAsync \/ OnTimeout \/ OnConnect \/ PeerGone
           \/ OnClose \/ OnAsyncClosed \/ Free
  BY <1>1, <1>8, Zenon DEF Connect, OnIoAsync, OnTimeout, OnConnect, PeerGone, OnClose,
                           OnAsyncClosed, Free
<1>9. CASE UNCHANGED vars
  BY <1>1, <1>9, Zenon DEF vars
<1> QED BY <1>2, <1>3, <1>4, <1>5, <1>6, <1>7, <1>8, <1>9 DEF Next, LoopStep, WriteStep, ReadStep

(* Rebuilt is inductive relative to the types.                             *)
LEMMA RebuiltInvariant == Spec => []Rebuilt
<1>1. Init => Rebuilt
  <2> SUFFICES ASSUME Init PROVE Rebuilt
    OBVIOUS
  <2>1. OwnData /\ Len(wire) = 0 /\ Len(delivered) = 0
    BY DEF Init, OwnData, Handles, Writing
  <2>2. recv \o arriving \in Seq(Byte) /\ Len(recv \o arriving) = 0 /\ Len(recv) = 0
    BY DEF Init
  <2>3. FramesOf(recv \o arriving, Written, Len(delivered))
    BY <2>1, <2>2, WrittenFacts, NoFrameYet, Zenon
  <2>4. ~HasHeader(recv)
    BY <2>2 DEF HasHeader
  <2>5. \A i \in 1 .. Len(delivered) : FALSE
    BY <2>1
  <2> QED BY <2>3, <2>4, <2>5, Zenon DEF Init, Rebuilt, TooLarge, HasFrame
<1>2. OwnData /\ OwnData' /\ PeerData /\ PeerData' /\ Parsing /\ Rebuilt /\ [Next]_vars => Rebuilt'
  BY RebuiltStep
<1>3. TypeInv => OwnData /\ PeerData /\ Parsing
  BY DEF TypeInv
<1> QED BY <1>1, <1>2, <1>3, TypeInvariant, PTL DEF Spec

\* The observers of the other end are given the payloads that were written, in
\* order, however the bytes are cut into reads, and a connection is refused only
\* for a payload above the limit.
THEOREM PayloadsRebuilt == Spec => []FramesRebuilt
<1>1. ASSUME OwnData, PeerData, Rebuilt
      PROVE  FramesRebuilt
  <2> DEFINE k == Len(delivered)
  <2>1. /\ k \in Nat /\ DOMAIN delivered = 1 .. k /\ Len(wire) \in Nat /\ Len(Written) = Len(wire)
        /\ Written \in Seq(Payloads)
    BY <1>1, WrittenFacts DEF OwnData, PeerData
  <2>2. k <= Len(wire)
    <3>1. k \in 0 .. Len(Written)
      BY <1>1, Zenon DEF Rebuilt, FramesOf
    <3> QED BY <2>1, <3>1
  <2>3. \A i \in DOMAIN delivered : delivered[i] = PayloadOf(wire[i]) /\ Len(delivered[i]) <= MaxFrame
    BY <1>1, <2>1, Zenon DEF Rebuilt
  <2>4. peer = "refusing" => Len(PayloadOf(wire[k + 1])) > MaxFrame
    <3>1. TooLarge(recv) => HasHeader(recv) /\ Announced(recv) > MaxFrame
      BY Zenon DEF TooLarge
    <3>2. HasHeader(recv) => Announced(recv) = Len(PayloadOf(wire[k + 1]))
      BY <1>1, NextPayload, Zenon DEF Rebuilt
    <3> QED BY <1>1, <3>1, <3>2, Zenon DEF Rebuilt
  <2>5. ASSUME peer = "reading", ~parsing, arriving = <<>>
        PROVE  k = Len(wire)
    <3>1. ~HasFrame(recv) /\ FramesOf(recv, Written, k) /\ recv \in Seq(Byte)
      <4>1. recv \in Seq(Byte) /\ recv \o <<>> = recv
        BY <1>1 DEF PeerData
      <4> QED BY <1>1, <2>5, <4>1, Zenon DEF Rebuilt
    <3>2. ASSUME k < Len(wire)
          PROVE  FALSE
      <4> DEFINE p == Written[k + 1]
      <4>1. Len(recv) >= 4 + Len(p) /\ \A j \in 1 .. 4 + Len(p) : recv[j] = Framed(p)[j]
        <5>1. k < Len(Written)
          BY <2>1, <3>2
        <5> HIDE DEF k
        <5> QED BY <2>1, <3>1, <5>1, NextFrame, Zenon
      <4>2. p \in Seq(Byte) /\ Fits(p)
        <5>1. k + 1 \in 1 .. Len(Written)
          BY <2>1, <3>2
        <5> QED BY <2>1, <5>1, ElementOfSeq DEF Payloads
      <4> HIDE DEF p
      <4>3. HasFrame(recv)
        BY <3>1, <4>1, <4>2, FrameIsRead, Zenon
      <4> QED BY <3>1, <4>3
    <3> QED BY <2>1, <2>2, <3>2
  <2> QED BY <2>2, <2>3, <2>4, <2>5, Zenon DEF FramesRebuilt
<1>2. TypeInv => OwnData /\ PeerData
  BY DEF TypeInv
<1> QED BY <1>1, <1>2, RebuiltInvariant, TypeInvariant, PTL
=============================================================================
