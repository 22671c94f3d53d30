-------------------------------- MODULE Wire --------------------------------
(***************************************************************************)
(* pkg/wire/frame.go: the header that every message carries, and batches   *)
(* of frames in one buffer.  A buffer is a sequence of bytes, and bytes    *)
(* are digits of any even base: 256 in the code.  Where EncodeAppend puts  *)
(* a buffer that has to grow is left out; a buffer is its contents.        *)
(***************************************************************************)
EXTENDS Integers, Sequences

CONSTANTS
    Base,       \* 256 in the code
    Magic,
    MaxPayload,
    SeqNums, Times, Payloads, \* what the frames are made of
    MaxBatch    \* bound: frames in a batch

Byte == 0 .. Base - 1

Two32 == Base * (Base * (Base * Base))
Two63 == (Base \div 2) * (Base * (Base * (Base * Two32)))
Two64 == 2 * Two63

ASSUME WireAssumption ==
    /\ Base \in Nat /\ Base >= 2 /\ Base % 2 = 0
    /\ Magic \in 0 .. Two32 - 1 /\ MaxPayload \in 0 .. Two32 - 1
    /\ SeqNums \subseteq 0 .. Two64 - 1 /\ Times \subseteq -Two63 .. Two63 - 1
    /\ Payloads \subseteq Seq(Byte) /\ (\A p \in Payloads : Len(p) < Two32)
    /\ MaxBatch \in Nat

HeaderLen == 24

-----------------------------------------------------------------------------
(* encoding/binary, little-endian                                           *)

Lo(n) == n % Base
Hi(n) == n \div Base

PutUint32(n) == <<Lo(n), Lo(Hi(n)), Lo(Hi(Hi(n))), Lo(Hi(Hi(Hi(n))))>>

PutUint64(n) == PutUint32(n) \o PutUint32(Hi(Hi(Hi(Hi(n)))))

\* The four bytes of b from i on, below the number that the next bytes are.
Below(b, i, rest) ==
    b[i] + Base * (b[i + 1] + Base * (b[i + 2] + Base * (b[i + 3] + Base * rest)))

Uint32(b, i) == Below(b, i, 0)

Uint64(b, i) == Below(b, i, Below(b, i + 4, 0))

\* The conversions between int64 and uint64.
uint64(n) == IF n < 0 THEN n + Two64 ELSE n
int64(n) == IF n >= Two63 THEN n - Two64 ELSE n

-----------------------------------------------------------------------------
(* Frames                                                                   *)

Header(seq, sendNs, plen) ==
    (PutUint32(Magic) \o PutUint64(seq)) \o (PutUint64(uint64(sendNs)) \o PutUint32(plen))

Encode(seq, sendNs, payload) == Header(seq, sendNs, Len(payload)) \o payload

EncodeAppend(dst, seq, sendNs, payload) == dst \o Encode(seq, sendNs, payload)

Failed(err) == [err |-> err, total |-> 0]

\* Mutant: a frame that ends where the buffer ends is refused.
Overflows_AtEnd(total, b) == total >= Len(b)

Overflows(total, b) == total > Len(b)

Decode(b) ==
    LET plen == Uint32(b, 21)
        total == HeaderLen + plen IN
    IF Len(b) < HeaderLen THEN Failed("ErrBufferTooShort")
    ELSE IF Uint32(b, 1) # Magic THEN Failed("ErrInvalidMagic")
    ELSE IF plen > MaxPayload THEN Failed("ErrPayloadTooLarge")
    ELSE IF Overflows(total, b) THEN Failed("ErrPayloadOverflow")
    ELSE [err |-> "", total |-> total, SeqNum |-> Uint64(b, 5), SendNs |-> int64(Uint64(b, 13)),
          PayloadLen |-> plen, Payload |-> SubSeq(b, HeaderLen + 1, total)]

DecodeHeader(b) ==
    IF Len(b) < HeaderLen THEN Failed("ErrBufferTooShort")
    ELSE IF Uint32(b, 1) # Magic THEN Failed("ErrInvalidMagic")
    ELSE [err |-> "", SeqNum |-> Uint64(b, 5), SendNs |-> int64(Uint64(b, 13)), PayloadLen |-> Uint32(b, 21)]

-----------------------------------------------------------------------------
(* A batch of frames is built with EncodeAppend.                            *)

VARIABLES
    buf,    \* the buffer
    batch   \* the frames in it: where each begins, and what it was made of

wire == <<buf, batch>>

WireInit == buf = <<>> /\ batch = <<>>

Build(seq, sendNs, payload) ==
    /\ Len(batch) < MaxBatch
    /\ buf' = EncodeAppend(buf, seq, sendNs, payload)
    /\ batch' = Append(batch, [at |-> Len(buf), seq |-> seq, sendNs |-> sendNs, payload |-> payload])

Built == Len(batch) = MaxBatch /\ UNCHANGED wire

WireNext ==
    \/ \E seq \in SeqNums, sendNs \in Times, payload \in Payloads : Build(seq, sendNs, payload)
    \/ Built

WireSpec == WireInit /\ [][WireNext]_wire

-----------------------------------------------------------------------------
\* The buffer from the beginning of frame f on.
From(f) == SubSeq(buf, f.at + 1, Len(buf))

Decoded(f) ==
    [err |-> "", total |-> HeaderLen + Len(f.payload), SeqNum |-> f.seq, SendNs |-> f.sendNs,
     PayloadLen |-> Len(f.payload), Payload |-> f.payload]

\* Every frame of a batch decodes to what it was encoded from, extreme numbers,
\* times before 1970 and empty payloads included, with a total that leads to the next
\* frame; unless its payload is larger than MaxPayload, and then Decode says so.  A
\* frame that is cut short anywhere is refused.
FramesRoundTrip ==
    \A i \in DOMAIN batch :
        LET f == batch[i]
            total == HeaderLen + Len(f.payload) IN
        /\ Decode(From(f)) = IF Len(f.payload) <= MaxPayload THEN Decoded(f)
                             ELSE Failed("ErrPayloadTooLarge")
        /\ f.at + total = (IF i = Len(batch) THEN Len(buf) ELSE batch[i + 1].at)
        /\ \A n \in 0 .. total - 1 : Decode(SubSeq(From(f), 1, n)).err # ""
        /\ DecodeHeader(From(f)).SeqNum = f.seq /\ DecodeHeader(From(f)).SendNs = f.sendNs

=============================================================================
