----------------------------- MODULE BlockCodec -----------------------------
(***************************************************************************)
(* The encoder and the decoder of a block (process in compressor.go and in *)
(* decompressor.go), over the bit writer and reader of BitStream and the   *)
(* field cipher of FieldCipher, with the reference alphabet of the stream, *)
(* which both sides use and which is encrypted in the header (main.go).    *)
(*                                                                         *)
(* The blocks of a file go one after the other through one encoder and one *)
(* decoder, whose working memory (scratchPool) keeps what the last block   *)
(* left there.  The counting sort of positions is Positions: offsets,      *)
(* cursor, positions and sortedKeys are written anew from counts and the   *)
(* block.  The decoder may have the wrong key; what it then reads is a     *)
(* matter of the bits of the block.                                        *)
(*                                                                         *)
(* A byte has ByteBits bits and there are 2^ByteBits values of it; the     *)
(* cardinality of an alphabet has one bit more.  A block is a sequence of  *)
(* values and position x of it is block[x + 1].                            *)
(***************************************************************************)
EXTENDS Combinadic, FieldCipher

CONSTANTS MaxBlock,            \* -b
          Files,               \* the files to consider: sequences of blocks
          References,          \* the stream-global reference alphabets to consider
          Keys                 \* the subkeys the decoder may have

ASSUME CodecAssumption ==
  /\ MaxBlock \in Nat \ {0}
  /\ Files \subseteq Seq(UNION {[1 .. l -> Bytes] : l \in 1 .. MaxBlock})
  /\ References \subseteq SUBSET Bytes /\ "right" \in Keys
  /\ CacheN >= 2^ByteBits /\ CacheN >= MaxBlock
  /\ 2 * Cardinality(Bytes) + 1 < FieldSpace      \* there are nonces for all fields of a block
  /\ \A blocks \in Files : Len(blocks) \in 1 .. BlockSpace
  /\ \A universe \in {MaxBlock, 2^ByteBits} : universe * universe * universe <= Word   \* those of Rank
  /\ ByteBits + 1 <= MaxWidth /\ BitLength(MaxBlock) <= MaxWidth   \* the fields of WriteBits
  /\ \A k \in Keys, nonce \in 0 .. HashNonce, counter \in 0 .. CounterSpace - 1 :
       Digest(k, nonce, counter) \in [1 .. DigestBytes -> Bytes]

VARIABLES
  mode,             \* cipher is nil ("clear"), or not, with Full or without ("query")
  key,              \* the decoder's
  reference, seen,  \* the reference alphabet, and what the decoder takes for it
  file, at,         \* the blocks, the index of the one at hand
  pc,
  counts, alphabet,        \* encoder: counts, alphabetBitSet
  removed, room, sent,     \* encoder: toRemove, nPayload, i of the symbol loop
  writer, data,     \* encoder: bitWriter, the packed block
  out,              \* the fields given to bitWriter
  used,             \* encryptions so far: of which field, under which nonce
  read,             \* decoder: BitReader.pos
  keys, kBits,      \* decoder: sortedKeys, maxKBits
  size,             \* decoder: Len of its pooled bitsets, which never shrink
  left, vacant, got,       \* decoder: unoccupied, nPayload, i of the symbol loop
  result            \* decoder: the caller's slice, with what it held before

stream == <<mode, key, reference, seen, file, at>>
encoder == <<counts, alphabet, removed, room, sent, writer, data, out, used>>
decoder == <<read, keys, kBits, size, left, vacant, got, result>>
vars == <<stream, pc, encoder, decoder>>

block == file[at + 1]
n == Len(block)

-----------------------------------------------------------------------------
(* The fields of a block.                                                  *)

\* the fields that are encrypted: ranks with any cipher, the others in full mode
Ciphered(rank) == mode = "full" \/ (rank /\ mode = "query")

\* a field of `width' bits, encrypted over the modulus if it is one of those
Field(val, width, modulus, index, rank) ==
  [val |-> val, width |-> width, modulus |-> modulus, index |-> index, rank |-> rank]

\* what is written for a field: a rank as a big.Int, any other as a uint64
Sent(f) ==
  LET nonce == BlockFieldNonce(at, f.index)
      cipher == IF f.rank THEN EncryptRank(f.val, f.modulus, "right", nonce)
                ELSE EncryptUint(f.val, f.modulus, "right", nonce)
  IN IF Ciphered(f.rank) THEN [f EXCEPT !.val = cipher] ELSE f

WriteField(w, f) ==
  IF f.rank THEN WriteBigIntBits(w, f.val, f.width) ELSE WriteBits(w, f.val, f.width)

\* the fields are written one by one
Written(w, fields) ==
  LET After[x \in 0 .. Len(fields)] == IF x = 0 THEN w ELSE WriteField(After[x - 1], fields[x])
  IN After[Len(fields)]

\* a value is encrypted, in a place among the fields of a block
Encryption(b, place, val, nonce) == [block |-> b, place |-> place, val |-> val, nonce |-> nonce]

\* the fields are encrypted, each under its nonce, and written after what w holds
Write(w, before, fields) ==
  LET sending == [x \in 1 .. Len(fields) |-> Sent(fields[x])]
      ciphered == {x \in 1 .. Len(fields) : Ciphered(fields[x].rank)}
  IN /\ writer' = Written(w, sending)
     /\ out' = before \o sending
     /\ used' = used \cup
          { Encryption(at, Len(before) + x, fields[x].val, BlockFieldNonce(at, fields[x].index)) :
              x \in ciphered }

\* what the decoder reads for a field at bit position pos
ReadField(pos, width, modulus, index, rank) ==
  LET val == IF rank THEN ReadBigInt(data, pos, width) ELSE ReadBits(data, pos, width)
      nonce == BlockFieldNonce(at, index)
      plain == IF rank THEN DecryptRank(val, modulus, key, nonce) ELSE DecryptUint(val, modulus, key, nonce)
  IN IF Ciphered(rank) THEN plain ELSE val

\* a read beyond this position panics
EndOfData == ByteBits * Len(data)

-----------------------------------------------------------------------------
(* What both sides compute.                                                *)

\* NumBitsRequiredToRepresentBigInt
NumBits(v) == IF v = 0 THEN 1 ELSE BitLength(v)

\* ascending, with the most frequent value last
SortedKeys(values, most) ==
  IndexSet(values \ {most}) \o IF most \in values THEN <<most>> ELSE <<>>

-----------------------------------------------------------------------------
(* compressor.go                                                           *)

Positions(v) == {x \in 0 .. n - 1 : block[x + 1] = v}
Count(v) == Cardinality(Positions(v))

(* What follows from the counts c, which ought to be those of the block.   *)
Tally == [v \in Bytes |-> Count(v)]
Occurring(c) == {v \in Bytes : c[v] > 0}

\* the first of the values that occur most often
MostFrequent(c) == Min({v \in Occurring(c) : \A w \in Occurring(c) : c[w] <= c[v]})

\* bug: the width is that of the most frequent count of any value but the first
CountBitsButFirst(c) ==
  NumBits(Max({0} \cup {c[v] : v \in Occurring(c) \ {MostFrequent(c), Min(Occurring(c))}}))

\* the width of the counts that are sent
CountBits(c) == NumBits(Max({0} \cup {c[v] : v \in Occurring(c) \ {MostFrequent(c)}}))

Symbols(c) == SortedKeys(Occurring(c), MostFrequent(c))

SymmetricDifference(S, T) == (S \ T) \cup (T \ S)

\* the reference alphabet as a number with a bit for each value, as the bytes of
\* its bitset, and back
AlphabetNumber(S) ==
  LET Number[u \in 0 .. 2^ByteBits] ==
        IF u = 0 THEN 0 ELSE Number[u - 1] + IF u - 1 \in S THEN 2^(u - 1) ELSE 0
  IN Number[2^ByteBits]
AlphabetBytes(S) == BytesOf(AlphabetNumber(S), BytesFor(2^ByteBits))
AlphabetIn(bytes) == {v \in Bytes : (NumberOf(bytes) \div 2^v) % 2 = 1}

Init ==
  /\ mode \in {"clear", "query", "full"} /\ key \in Keys /\ (mode = "clear" => key = "right")
  /\ reference \in References
  /\ seen = IF mode = "clear" THEN reference
            ELSE LET bytes == EncryptBytesField(AlphabetBytes(reference), "right", ReferenceAlphabetNonce)
                 IN AlphabetIn(DecryptBytesField(bytes, key, ReferenceAlphabetNonce))
  /\ file \in Files /\ at = 0
  /\ pc = "encode"
  /\ counts = [v \in Bytes |-> 0] /\ alphabet = {}
  /\ removed = {} /\ room = 0 /\ sent = 0
  /\ writer = EmptyWriter /\ data = <<>> /\ out = <<>>
  /\ used = IF mode = "clear" THEN {}            \* the alphabet and the hash are in no block
            ELSE {Encryption(-1, 1, 0, ReferenceAlphabetNonce), Encryption(-1, 2, 0, HashNonce)}
  /\ read = 0 /\ keys = <<>> /\ kBits = 0 /\ size = 0
  /\ left = {} /\ vacant = 0 /\ got = 0
  /\ result = [x \in 0 .. MaxBlock - 1 |-> 0]

\* bug: what the last block removed is still there
NotCleared(S) == S

\* toRemove.ClearAll(), alphabetBitSet.ClearAll()
ClearAll(S) == {}

\* bug: the counts go on from those of the last block
NotZeroed(c) == c

\* counts[i] = 0 for all i
Zeroed(c) == [v \in Bytes |-> 0]

\* the alphabet, as its difference from the reference, the most frequent value,
\* the width of the counts
HeaderFields(c, difference) ==
  LET cardinality == Cardinality(difference)
      modulus == BinCoef(2^ByteBits, cardinality)
  IN <<Field(cardinality, ByteBits + 1, 2^(ByteBits + 1), FieldAlphabetCardinality, FALSE),
       Field(Rank(IndexSet(difference)), BitLength(modulus), modulus, FieldAlphabetRank, TRUE),
       Field(MostFrequent(c), ByteBits, 2^ByteBits, FieldMostFrequent, FALSE),
       Field(CountBits(c), BitLength(n), 2^BitLength(n), FieldCountWidth, FALSE)>>

\* the count of the j-th value, and the rank of its positions among those left
SymbolFields(c, j, gone, free) ==
  LET pos == ReduceIndexSet(IndexSet(Positions(Symbols(c)[j + 1])), gone)
      modulus == BinCoef(free, Len(pos))
  IN <<Field(Len(pos), CountBits(c), 2^CountBits(c), SymbolCountField(j), FALSE),
       Field(Rank(pos), BitLength(modulus), modulus, SymbolRankField(j), TRUE)>>

\* the bytes are counted and the header is sent; the XOR with the reference
\* alphabet is in place
EncodeHeader ==
  /\ pc = "encode"
  /\ counts' = [v \in Bytes |-> Zeroed(counts)[v] + Count(v)]
  /\ alphabet' = SymmetricDifference(ClearAll(alphabet) \cup Occurring(counts'), reference)
  /\ Write(EmptyWriter, <<>>, HeaderFields(counts', alphabet'))
  /\ removed' = ClearAll(removed) /\ room' = n /\ sent' = 0
  /\ pc' = "symbols"
  /\ UNCHANGED <<stream, data, decoder>>

\* one value but the last
EncodeSymbol ==
  /\ pc = "symbols" /\ sent < Len(Symbols(counts)) - 1
  /\ Write(writer, out, SymbolFields(counts, sent, removed, room))
  /\ removed' = removed \cup Positions(Symbols(counts)[sent + 1])
  /\ room' = room - Count(Symbols(counts)[sent + 1])
  /\ sent' = sent + 1
  /\ UNCHANGED <<stream, pc, counts, alphabet, data, decoder>>

\* the packed block is copied out and goes to the decoder
HandOver ==
  /\ pc = "symbols" /\ sent = Len(Symbols(counts)) - 1
  /\ writer' = Flushed(writer)
  /\ data' = writer'.buf
  /\ pc' = "decode"
  /\ UNCHANGED <<stream, counts, alphabet, removed, room, sent, out, used, decoder>>

-----------------------------------------------------------------------------
(* decompressor.go                                                         *)

\* bug: the bits beyond a block that is shorter than the bitset stay set
UnoccupiedUpTo(len) == 0 .. len - 1

\* SetAll, and the tail of a pooled bitset cleared
Unoccupied(len) == (0 .. len - 1) \ (n .. len - 1)

\* alphabet, most frequent value and count width; a cardinality out of range
\* is refused in full mode, and a read beyond the data panics
DecodeHeader ==
  /\ pc = "decode"
  /\ size' = Max({size, n})
  /\ LET cardinality == ReadField(0, ByteBits + 1, 2^(ByteBits + 1), FieldAlphabetCardinality, FALSE)
         modulus == BinCoef(2^ByteBits, cardinality)
         mostAt == ByteBits + 1 + BitLength(modulus)
         end == mostAt + ByteBits + BitLength(n)
         rank == ReadField(ByteBits + 1, BitLength(modulus), modulus, FieldAlphabetRank, TRUE)
         most == ReadField(mostAt, ByteBits, 2^ByteBits, FieldMostFrequent, FALSE)
         Stop(reason) == pc' = reason /\ UNCHANGED <<read, keys, kBits, left, vacant, got>>
     IN \/ mode = "full" /\ cardinality > 2^ByteBits /\ Stop("refused")
        \/ cardinality <= 2^ByteBits /\ end > EndOfData /\ Stop("panic")
        \/ /\ cardinality <= 2^ByteBits /\ end <= EndOfData
           /\ keys' = SortedKeys(SymmetricDifference(Unrank(rank, cardinality, 2^ByteBits),
                                                     seen), most)
           /\ kBits' = ReadField(end - BitLength(n), BitLength(n), 2^BitLength(n),
                                 FieldCountWidth, FALSE)
           /\ read' = end /\ left' = Unoccupied(size') /\ vacant' = n /\ got' = 0
           /\ pc' = "rehydrate"
  /\ UNCHANGED <<stream, encoder, result>>

\* the chosen ones among the positions still free get the value
Assign(chosen, v) ==
  LET free == IndexSet(left)
      taken == {free[p + 1] : p \in chosen \cap 0 .. Len(free) - 1}
  IN /\ result' = [x \in DOMAIN result |-> IF x \in taken THEN v ELSE result[x]]
     /\ left' = left \ taken

\* One value but the last.  A count that exceeds what is left is refused in
\* full mode; without that check its modulus is zero and DecryptRank panics.
DecodeSymbol ==
  /\ pc = "rehydrate" /\ got < Len(keys) - 1
  /\ LET counted == read + kBits <= EndOfData
         k == ReadField(read, kBits, 2^kBits % Word, SymbolCountField(got), FALSE)
         modulus == BinCoef(vacant, k)
         end == read + kBits + BitLength(modulus)
         rank == ReadField(read + kBits, BitLength(modulus), modulus, SymbolRankField(got), TRUE)
         Stop(reason) == pc' = reason /\ UNCHANGED <<read, vacant, got, left, result>>
     IN \/ ~counted /\ Stop("panic")
        \/ counted /\ k > vacant /\ Stop(IF mode = "full" THEN "refused" ELSE "panic")
        \/ counted /\ k <= vacant /\ end > EndOfData /\ Stop("panic")
        \/ /\ counted /\ k <= vacant /\ end <= EndOfData
           /\ Assign(Unrank(rank, k, vacant), keys[got + 1])
           /\ vacant' = vacant - k /\ read' = end /\ got' = got + 1
           /\ UNCHANGED pc
  /\ UNCHANGED <<stream, encoder, keys, kBits, size>>

\* the last value takes all that is left; no key, no byte
DecodeLast ==
  /\ pc = "rehydrate" /\ got >= Len(keys) - 1
  /\ IF keys = <<>> THEN UNCHANGED <<result, left>>
     ELSE Assign(0 .. size - 1, keys[Len(keys)])
  /\ pc' = "done"
  /\ UNCHANGED <<stream, encoder, read, keys, kBits, size, vacant, got>>

\* the next block goes to the same encoder and decoder, whatever became of this one
NextBlock ==
  /\ pc \in {"done", "refused", "panic"} /\ at + 1 < Len(file)
  /\ at' = at + 1
  /\ pc' = "encode"
  /\ UNCHANGED <<mode, key, reference, seen, file, encoder, decoder>>

Finished == pc \in {"done", "refused", "panic"} /\ at + 1 = Len(file) /\ UNCHANGED vars

Next == \/ EncodeHeader \/ EncodeSymbol \/ HandOver
        \/ DecodeHeader \/ DecodeSymbol \/ DecodeLast \/ NextBlock \/ Finished

Spec == Init /\ [][Next]_vars

-----------------------------------------------------------------------------
(* Properties.                                                             *)

(* Types; in particular no position beyond the block is ever free, however *)
(* long the blocks before it were and whatever the decoder's key.          *)
TypeOK ==
  /\ pc \in {"encode", "symbols", "decode", "rehydrate", "done", "refused", "panic"}
  /\ at \in 0 .. Len(file) - 1
  /\ counts \in [Bytes -> 0 .. MaxBlock] /\ alphabet \subseteq Bytes
  /\ removed \subseteq 0 .. MaxBlock - 1 /\ room \in 0 .. MaxBlock /\ sent \in 0 .. 2^ByteBits
  /\ \A x \in DOMAIN out : out[x].val \in Nat /\ out[x].width \in Nat
  /\ data \in Seq(Bytes) /\ seen \subseteq Bytes
  /\ keys \in Seq(Bytes) /\ kBits \in Nat /\ size \in 0 .. MaxBlock
  /\ pc \in {"rehydrate", "done"} => left \subseteq 0 .. n - 1 /\ vacant \in 0 .. n
  /\ result \in [0 .. MaxBlock - 1 -> Bytes]

\* the bit positions where fields end
Ends(fields) ==
  LET End[x \in 0 .. Len(fields)] == IF x = 0 THEN 0 ELSE End[x - 1] + fields[x].width IN End

(* "Lossless": with the right key every block decodes to its own bytes,    *)
(* over whatever the output slice held before, and the decoder has then    *)
(* read all that the encoder wrote.                                        *)
RoundTrip ==
  key = "right" =>
    /\ seen = reference /\ pc \notin {"refused", "panic"}
    /\ pc = "done" => /\ \A x \in 0 .. n - 1 : result[x] = block[x + 1]
                      /\ read = Ends(out)[Len(out)]

(* The two sides see the same shrinking universe: after each value the     *)
(* decoder's free positions are those the encoder had not removed yet.     *)
(* The values are those of this block alone, whatever the last block left  *)
(* in counts and in alphabetBitSet.                                        *)
InStep ==
  key = "right" /\ pc = "rehydrate" =>
    /\ left = {x \in 0 .. n - 1 : \A i \in 1 .. got : block[x + 1] # Symbols(Tally)[i]}
    /\ vacant = Cardinality(left) /\ keys = Symbols(Tally) /\ kBits = CountBits(Tally)

(* Each rank is that of positions in the universe left by the values sent  *)
(* before, and there is room for them: toRemove and nPayload follow the    *)
(* values of this block alone, whatever the last block left in them.       *)
RoomForEach ==
  pc = "symbols" =>
    /\ removed = {x \in 0 .. n - 1 : \E i \in 1 .. sent : block[x + 1] = Symbols(Tally)[i]}
    /\ room = n - Cardinality(removed)
    /\ \A i \in sent + 1 .. Len(Symbols(Tally)) : Count(Symbols(Tally)[i]) \in 1 .. room

(* Whatever the key makes of the fields, a position is written at most     *)
(* once for a block and never beyond its end.                              *)
StaysInBlock ==
  [][\A x \in DOMAIN result : result'[x] # result[x] => x < n /\ x \in left \ left']_vars

(* No field is cut: WriteBits drops what does not fit, and WriteBigIntBits *)
(* requires that its value does.                                           *)
FieldsFit == \A x \in DOMAIN out : out[x].val < 2^out[x].width

(* nonce.go: "every (block, field) pair maps to a distinct nonce within a  *)
(* file", the alphabet's and the hash's included, and nothing is encrypted *)
(* under it again.                                                         *)
NoncesUnique == \A u, v \in used : u.nonce = v.nonce => u = v

(* decompressor.go:97: "in full mode a wrong key is caught by out-of-range *)
(* cardinality / count checks rather than decoding to garbage".            *)
WrongKeyIsCaught ==
  mode = "full" /\ key # "right" /\ pc = "done" =>
    \A x \in 0 .. n - 1 : result[x] = block[x + 1]
=============================================================================
