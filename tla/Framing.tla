------------------------------- MODULE Framing -------------------------------
(***************************************************************************)
(* The frames of Transport/tcp: four bytes with the length of the payload, *)
(* the most significant first, then the payload.  drainWriteQueue makes    *)
(* them, onRead cuts them out of the bytes as they arrive.                 *)
(***************************************************************************)
EXTENDS Integers, Sequences

CONSTANT MaxFrame       \* kMaxFrameSize

\* The limit fits a uint32_t.
ASSUME MaxFrameFits == MaxFrame \in Nat /\ MaxFrame \div 16777216 < 256

Byte == 0 .. 255
Fits(payload) == Len(payload) \div 16777216 < 256     \* less than 2^32, the size fits a uint32_t

\* drainWriteQueue: static_cast<uint32_t> of the size, a byte at a time.
Header(n) == <<(n \div 16777216) % 256, (n \div 65536) % 256, (n \div 256) % 256, n % 256>>
Framed(payload) == Header(Len(payload)) \o payload

\* onRead: what the first four bytes of recv_buffer_ say.
Announced(buf) == buf[1] * 16777216 + buf[2] * 65536 + buf[3] * 256 + buf[4]
HasHeader(buf) == Len(buf) >= 4

\* Mutants of TooLarge (the limit itself is refused) and of HasFrame (the last
\* frame waits for a byte of the next).
TooLargeAtLimit(buf) == HasHeader(buf) /\ Announced(buf) >= MaxFrame
HasFrameLate(buf) == HasHeader(buf) /\ Len(buf) > 4 + Announced(buf)

TooLarge(buf) == HasHeader(buf) /\ Announced(buf) > MaxFrame
HasFrame(buf) == HasHeader(buf) /\ Len(buf) >= 4 + Announced(buf)

FirstFrame(buf) == SubSeq(buf, 5, 4 + Announced(buf))
AfterFrame(buf) == SubSeq(buf, 5 + Announced(buf), Len(buf))
=============================================================================
