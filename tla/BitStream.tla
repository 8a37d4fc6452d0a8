------------------------------ MODULE BitStream ------------------------------
(***************************************************************************)
(* BitWriter and BitReader (util/util.go): fields of bits packed into      *)
(* bytes, the most significant bit first.                                  *)
(*                                                                         *)
(* A BitWriter is a record of its three fields.  Its methods are operators *)
(* from one value of it to the next; the loops over the bytes of a field   *)
(* are functions of the number of rounds done.                             *)
(***************************************************************************)
EXTENDS Words, Sequences, SequencesExt

CONSTANTS ByteBits,     \* 8
          ZeroChunk     \* 32: the zeros written at once

ASSUME BitAssumption ==
  /\ ByteBits \in Nat \ {0} /\ AccBits \in Nat \ {0}
  /\ ZeroChunk \in 1 .. AccBits - ByteBits
  /\ ByteBits <= AccBits - ByteBits          \* a byte is a field that fits

Bytes == 0 .. 2^ByteBits - 1

\* the bytes that hold b bits
BytesFor(b) == (b + ByteBits - 1) \div ByteBits

\* the widest field of WriteBits, 56 in the code
MaxWidth == AccBits - ByteBits

-----------------------------------------------------------------------------
(* Numbers as bits and as bytes, the most significant first.               *)

BitsOf(v, width) == [b \in 1 .. width |-> (v \div 2^(width - b)) % 2]

\* the bits of bytes, one after the other
Unpacked(bytes) ==
  [x \in 1 .. ByteBits * Len(bytes) |->
     BitsOf(bytes[((x - 1) \div ByteBits) + 1], ByteBits)[((x - 1) % ByteBits) + 1]]

\* big.Int.FillBytes
BytesOf(v, length) == [b \in 1 .. length |-> (v \div 2^(ByteBits * (length - b))) % 2^ByteBits]

\* big.Int.SetBytes
NumberOf(bytes) ==
  LET Number[b \in 0 .. Len(bytes)] == IF b = 0 THEN 0 ELSE Number[b - 1] * 2^ByteBits + bytes[b]
  IN Number[Len(bytes)]

-----------------------------------------------------------------------------
(* BitWriter.                                                              *)

\* NewBitWriter and Reset
EmptyWriter == [buf |-> <<>>, acc |-> 0, nAcc |-> 0]

\* bug: the bits already emitted stay in the accumulator
AccNotMasked(acc, nAcc) == acc

\* drop already-emitted high bits
Pending(acc, nAcc) == acc % 2^nAcc

\* bug: the new bits go above the pending ones
PushedAbove(w, v, n) == ((v % 2^n) * 2^w.nAcc + w.acc) % Word

\* the pending bits moved up, the low n bits of v below them
Pushed(w, v, n) == ((w.acc * 2^n) % Word) + (v % 2^n)

WriteBits(w, v, n) ==
  LET acc == Pushed(w, v, n)
      nAcc == w.nAcc + n
      whole == nAcc \div ByteBits            \* bytes that are complete now
      rest == nAcc % ByteBits
  IN [buf |-> w.buf \o [b \in 1 .. whole |-> (acc \div 2^(nAcc - b * ByteBits)) % 2^ByteBits],
      acc |-> Pending(acc, rest), nAcc |-> rest]

WriteZeros(w, n) ==
  LET Chunk[c \in 0 .. n \div ZeroChunk] == IF c = 0 THEN w ELSE WriteBits(Chunk[c - 1], 0, ZeroChunk)
  IN WriteBits(Chunk[n \div ZeroChunk], 0, n % ZeroChunk)

\* zeros up to the length, then the bytes of the value, the first one without its leading zeros
WriteBigIntBits(w, value, length) ==
  LET actual == BitLength(value)
      bytes == BytesOf(value, BytesFor(actual))
      padded == IF actual < length THEN WriteZeros(w, length - actual) ELSE w
      Byte[b \in 0 .. Len(bytes)] ==
        IF b = 0 THEN padded
        ELSE WriteBits(Byte[b - 1], bytes[b],
                       IF b = 1 THEN actual - (Len(bytes) - 1) * ByteBits ELSE ByteBits)
  IN Byte[Len(bytes)]

\* Bytes(): the last byte is filled up with zeros
Flushed(w) ==
  IF w.nAcc = 0 THEN w
  ELSE [buf |-> Append(w.buf, w.acc * 2^(ByteBits - w.nAcc)), acc |-> 0, nAcc |-> 0]

-----------------------------------------------------------------------------
(* BitReader, at bit position pos of data.                                 *)

\* The n bits from pos on, taken as far as the byte at hand goes in each
\* round; the word drops what does not fit.
ReadBits(data, pos, n) ==
  LET First(m) == Max({pos, ((pos + m - 1) \div ByteBits) * ByteBits})  \* of the round that ends at m
      Value[m \in 0 .. n] ==
        IF m = 0 THEN 0
        ELSE LET take == pos + m - First(m)
                 shift == ByteBits - (First(m) % ByteBits) - take
                 chunk == (data[First(m) \div ByteBits + 1] \div 2^shift) % 2^take
             IN ((Value[m - take] * 2^take) % Word) + chunk
  IN Value[n]

\* bug: no leading bits when the field is a number of whole bytes
TopBitsModulo(n) == n % ByteBits

\* the bits of the leading byte, 1 to 8
TopBits(n) == n - (BytesFor(n) - 1) * ByteBits

\* the bits that do not fill a byte first, then byte by byte
ReadBigInt(data, pos, n) ==
  LET nBytes == BytesFor(n)
      topBits == TopBits(n)
  IN IF n = 0 THEN 0
     ELSE NumberOf([b \in 1 .. nBytes |->
            IF b = 1 THEN ReadBits(data, pos, topBits)
            ELSE ReadBits(data, pos + topBits + (b - 2) * ByteBits, ByteBits)])
=============================================================================
