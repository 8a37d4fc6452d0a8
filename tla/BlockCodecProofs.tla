--------------------------- MODULE BlockCodecProofs ---------------------------
(***************************************************************************)
(* What holds of encoder and decoder for every size of bytes and blocks,   *)
(* every file, reference alphabet and key: no nonce is used twice, ranks   *)
(* are taken in the universe left over, and the decoder writes a position  *)
(* of its block at most once, and no other, whatever it reads; with the    *)
(* right key every block is decoded to its own bytes.  Before that, the    *)
(* field cipher for every modulus and its nonces for every number of       *)
(* blocks and of fields.                                                   *)
(***************************************************************************)
EXTENDS BlockCodec, CombinadicProofs

-----------------------------------------------------------------------------
(* cipher.go and nonce.go.                                                 *)

(* Remainders one modulus above the range ...                              *)
LEMMA ModOnceOver ==
  ASSUME NEW m \in Nat \ {0}, NEW x \in m .. 2 * m - 1
  PROVE  x % m = x - m
OBVIOUS

(* ... and one below it.                                                   *)
LEMMA ModOnceUnder ==
  ASSUME NEW m \in Nat \ {0}, NEW x \in -m .. -1
  PROVE  x % m = x + m
OBVIOUS

(* A number k is added modulo m, and taken off again.                      *)
LEMMA AddThenSubtract ==
  ASSUME NEW m \in Nat \ {0}, NEW x \in 0 .. m - 1, NEW k \in 0 .. m - 1
  PROVE  /\ (x + k) % m \in 0 .. m - 1
         /\ (((x + k) % m) - k) % m = x
         /\ (((x + k) % m) + m - k) % m = x
<1>1. CASE x + k < m
  <2>1. (x + k) % m = x + k
    BY <1>1, Within
  <2>2. x % m = x
    BY Within
  <2>3. (x + m) % m = x
    <3>1. x + m \in m .. 2 * m - 1 /\ (x + m) - m = x
      OBVIOUS
    <3> QED BY <3>1, ModOnceOver
  <2>. QED  BY <1>1, <2>1, <2>2, <2>3
<1>2. CASE x + k >= m
  <2>1. (x + k) % m = x + k - m
    <3>1. x + k \in m .. 2 * m - 1
      BY <1>2
    <3> QED BY <3>1, ModOnceOver
  <2>2. (x - m) % m = x /\ x % m = x
    BY Within, ModOnceUnder
  <2>. QED  BY <1>2, <2>1, <2>2
<1>. QED  BY <1>1, <1>2

(* A digest under any counter consists of bytes.                           *)
DigestBytesOnly(fileKey, nonce) ==
  \A counter \in 0 .. CounterSpace - 1 : Digest(fileKey, nonce, counter) \in [1 .. DigestBytes -> Bytes]

(* Then so does the keystream, and its bytes make a number.                *)
LEMMA KeystreamTypes ==
  ASSUME NEW fileKey, NEW nonce, DigestBytesOnly(fileKey, nonce), NEW m \in Nat
  PROVE  Keystream(fileKey, nonce, m) \in Seq(Nat) /\ NumberOf(Keystream(fileKey, nonce, m)) \in Nat
<1> DEFINE ks == Keystream(fileKey, nonce, m)
<1>1. DigestBytes \in Nat \ {0} /\ CounterSpace \in Nat \ {0} /\ Bytes \subseteq Nat
  BY CipherAssumption, ByteTypes
<1>2. ASSUME NEW b \in 1 .. m PROVE ks[b] \in Nat
  <2> DEFINE q == (b - 1) \div DigestBytes
             r == (b - 1) % DigestBytes
  <2>1. b - 1 \in Nat
    OBVIOUS
  <2>2. q \in Nat /\ r \in 0 .. DigestBytes - 1
    BY <1>1, <2>1, Division
  <2> HIDE DEF q, r
  <2>3. q % CounterSpace \in 0 .. CounterSpace - 1 /\ r + 1 \in 1 .. DigestBytes
    BY <1>1, <2>2, Division
  <2>4. Digest(fileKey, nonce, q % CounterSpace) \in [1 .. DigestBytes -> Bytes]
    BY <2>3 DEF DigestBytesOnly
  <2>5. ks[b] = Digest(fileKey, nonce, q % CounterSpace)[r + 1]
    BY DEF Keystream, q, r
  <2> QED BY <1>1, <2>3, <2>4, <2>5
<1>3. ks \in Seq(Nat)
  <2>1. ks = [b \in 1 .. m |-> ks[b]]
    BY DEF Keystream
  <2> HIDE DEF ks
  <2>2. ks \in [1 .. m -> Nat]
    BY <1>2, <2>1
  <2> QED BY <2>2
<1> HIDE DEF ks
<1>4. NumberOf(ks) \in Nat
  BY <1>3, NumberOfLaw
<1> QED BY <1>3, <1>4 DEF ks

(* The keystream number of a field is below its modulus.                   *)
LEMMA KeystreamBelowModulus ==
  ASSUME NEW fileKey, NEW nonce, NEW modulus \in Nat \ {0},
         DigestBytesOnly(fileKey, nonce)
  PROVE  RankKeystream(fileKey, nonce, modulus) \in 0 .. modulus - 1
<1> DEFINE m == BytesFor(BitLength(modulus)) + ExtraBytes
           x == NumberOf(Keystream(fileKey, nonce, m))
<1>1. m \in Nat
  BY BitLengthHolds, BytesForLaw, CipherAssumption
<1> HIDE DEF m
<1>2. x \in Nat
  BY <1>1, KeystreamTypes
<1> HIDE DEF x
<1>3. x % modulus \in 0 .. modulus - 1
  BY <1>2, Division
<1> QED BY <1>3 DEF RankKeystream, x, m

(* cipher.go:82, "DecryptRank inverts EncryptRank", and the encrypted rank *)
(* is a rank again: it fits in the bits of its coefficient.                *)
THEOREM RankCipherInverts ==
  ASSUME NEW fileKey, NEW nonce, NEW modulus \in Nat \ {0}, NEW rank \in 0 .. modulus - 1,
         DigestBytesOnly(fileKey, nonce)
  PROVE  /\ EncryptRank(rank, modulus, fileKey, nonce) \in 0 .. modulus - 1
         /\ DecryptRank(EncryptRank(rank, modulus, fileKey, nonce), modulus, fileKey, nonce) = rank
<1>1. RankKeystream(fileKey, nonce, modulus) \in 0 .. modulus - 1
  BY KeystreamBelowModulus
<1>. QED  BY <1>1, AddThenSubtract DEF EncryptRank, DecryptRank

(* cipher.go:101, the same in uint64, as long as twice the modulus fits.   *)
THEOREM UintCipherInverts ==
  ASSUME NEW fileKey, NEW nonce, NEW modulus \in Nat \ {0}, NEW val \in 0 .. modulus - 1,
         Word \in Nat, 2 * modulus <= Word,
         DigestBytesOnly(fileKey, nonce)
  PROVE  /\ EncryptUint(val, modulus, fileKey, nonce) \in 0 .. modulus - 1
         /\ DecryptUint(EncryptUint(val, modulus, fileKey, nonce), modulus, fileKey, nonce) = val
<1>. DEFINE ks == RankKeystream(fileKey, nonce, modulus)
            c == (val + ks) % modulus
<1>1. ks \in 0 .. modulus - 1
  BY KeystreamBelowModulus
<1>2. c \in 0 .. modulus - 1 /\ (c + modulus - ks) % modulus = val
  BY <1>1, AddThenSubtract
<1>. HIDE DEF c, ks
<1>3. CASE modulus = 1
  BY <1>3 DEF EncryptUint, DecryptUint
<1>4. CASE modulus > 1
  <2>1. (val + ks) % Word = val + ks
    BY <1>1, Within
  <2>2. (c + modulus - ks) % Word = c + modulus - ks
    BY <1>1, <1>2, Within
  <2>3. EncryptUint(val, modulus, fileKey, nonce) = c
    BY <1>4, <2>1 DEF EncryptUint, c, ks
  <2>4. DecryptUint(c, modulus, fileKey, nonce) = val
    BY <1>2, <1>4, <2>2 DEF DecryptUint, ks
  <2>. QED  BY <1>2, <2>3, <2>4
<1>. QED  BY <1>3, <1>4

(* nonce.go: "every (block, field) pair maps to a distinct nonce within a  *)
(* file", and none of them to that of the reference alphabet or the hash.  *)
THEOREM NoncesDistinct ==
  ASSUME NEW b \in 0 .. BlockSpace - 1, NEW c \in 0 .. BlockSpace - 1,
         NEW f \in 0 .. FieldSpace - 1, NEW g \in 0 .. FieldSpace - 1
  PROVE  /\ BlockFieldNonce(b, f) = BlockFieldNonce(c, g) => b = c /\ f = g
         /\ BlockFieldNonce(b, f) \notin {ReferenceAlphabetNonce, HashNonce}
         /\ ReferenceAlphabetNonce # HashNonce
<1>. FieldSpace \in Nat \ {0} /\ BlockSpace \in Nat \ {0}
  BY CipherAssumption
<1>1. ASSUME NEW x \in Nat, NEW y \in Nat, x < y
      PROVE  x * FieldSpace + FieldSpace <= y * FieldSpace
  <2>1. y - x >= 1 /\ y - x \in Nat
    BY <1>1
  <2>2. (y - x) * FieldSpace >= FieldSpace
    BY <2>1
  <2>. QED  BY <2>2
<1>2. ASSUME NEW x \in Nat, NEW y \in Nat, NEW p \in 0 .. FieldSpace - 1,
             NEW q \in 0 .. FieldSpace - 1, x < y
      PROVE  x * FieldSpace + p < y * FieldSpace + q
  <2>1. x * FieldSpace \in Nat /\ y * FieldSpace \in Nat
    OBVIOUS
  <2>. QED  BY <1>1, <1>2, <2>1
<1>3. BlockFieldNonce(b, f) = BlockFieldNonce(c, g) => b = c /\ f = g
  <2>1. CASE b < c
    BY <1>2, <2>1 DEF BlockFieldNonce
  <2>2. CASE c < b
    BY <1>2, <2>2 DEF BlockFieldNonce
  <2>3. CASE b = c
    BY <2>3 DEF BlockFieldNonce
  <2>. QED  BY <2>1, <2>2, <2>3
<1>4. BlockFieldNonce(b, f) < ReferenceAlphabetNonce
  BY <1>2, b < BlockSpace DEF BlockFieldNonce, ReferenceAlphabetNonce
<1>5. ReferenceAlphabetNonce < HashNonce
  BY DEF ReferenceAlphabetNonce, HashNonce
<1>. QED  BY <1>3, <1>4, <1>5 DEF BlockFieldNonce, ReferenceAlphabetNonce, HashNonce

-----------------------------------------------------------------------------
(* The inductive invariant.                                                *)

Source == file \in Files /\ at \in 0 .. Len(file) - 1

(* The fields of the block at hand, said of its bytes without the counts.  *)
Alphabet == ToSet(block)
Difference == SymmetricDifference(Alphabet, reference)
OwnMost == Min({v \in Alphabet : \A w \in Alphabet : Count(w) <= Count(v)})
OwnCountBits == NumBits(Max({0} \cup {Count(v) : v \in Alphabet \ {OwnMost}}))
OwnSymbols == SortedKeys(Alphabet, OwnMost)
OwnHeader ==
  LET cardinality == Cardinality(Difference)
      modulus == BinCoef(2^ByteBits, cardinality)
  IN <<Field(cardinality, ByteBits + 1, 2^(ByteBits + 1), FieldAlphabetCardinality, FALSE),
       Field(Rank(IndexSet(Difference)), BitLength(modulus), modulus, FieldAlphabetRank, TRUE),
       Field(OwnMost, ByteBits, 2^ByteBits, FieldMostFrequent, FALSE),
       Field(OwnCountBits, BitLength(n), 2^BitLength(n), FieldCountWidth, FALSE)>>
OwnFields(j, gone, free) ==
  LET pos == ReduceIndexSet(IndexSet(Positions(OwnSymbols[j + 1])), gone)
      modulus == BinCoef(free, Len(pos))
  IN <<Field(Len(pos), OwnCountBits, 2^OwnCountBits, SymbolCountField(j), FALSE),
       Field(Rank(pos), BitLength(modulus), modulus, SymbolRankField(j), TRUE)>>

(* The encoder after some of the values.                                   *)
Sending ==
  pc = "symbols" =>
    /\ counts = Tally
    /\ sent \in 0 .. Len(OwnSymbols) - 1
    /\ \E S : out \in Seq(S)
    /\ Len(out) = 4 + 2 * sent
    /\ removed = {x \in 0 .. n - 1 : \E i \in 1 .. sent : block[x + 1] = OwnSymbols[i]}
    /\ room = n - Cardinality(removed)

(* Those of the header, which are in no block.                             *)
Outside == {Encryption(-1, 1, 0, ReferenceAlphabetNonce), Encryption(-1, 2, 0, HashNonce)}

(* A field's nonce is that of its block and of its place there.            *)
Numbered(u) ==
  /\ u.block \in 0 .. at /\ u.place \in 1 .. FieldSpace
  /\ u.nonce = BlockFieldNonce(u.block, u.place - 1)

(* What was encrypted so far: fields of the blocks before and of this one, *)
(* up to where the encoder is, each of them once.                          *)
Behind ==
  /\ \A u \in used : u \in Outside \/ Numbered(u)
  /\ pc = "encode" => \A u \in used : u.block # at
  /\ pc = "symbols" => \A u \in used : u.block = at => u.place <= Len(out)
Once == \A u, v \in used : u.block = v.block /\ u.place = v.place => u = v

(* The decoder never takes a position beyond the block for a free one.     *)
Inside == pc = "rehydrate" => left \subseteq 0 .. n - 1

IInv == Source /\ Sending /\ Behind /\ Once /\ Inside

-----------------------------------------------------------------------------
(* The values of a block.                                                  *)

(* A block is a sequence of bytes that is not empty.                       *)
LEMMA BlockTypes ==
  ASSUME Source
  PROVE  /\ block \in Seq(Bytes) /\ n \in Nat \ {0} /\ at \in 0 .. BlockSpace - 1
         /\ IsFiniteSet(Bytes) /\ Cardinality(Bytes) \in Nat /\ Bytes \subseteq Int
<1>1. file \in Seq(UNION {[1 .. l -> Bytes] : l \in 1 .. MaxBlock}) /\ Len(file) \in 1 .. BlockSpace
  BY CodecAssumption DEF Source
<1>2. block \in UNION {[1 .. l -> Bytes] : l \in 1 .. MaxBlock}
  BY <1>1, ElementOfSeq DEF Source, block
<1>3. PICK l \in 1 .. MaxBlock : block \in [1 .. l -> Bytes]
  BY <1>2
<1>4. block \in Seq(Bytes) /\ Len(block) = l /\ l \in Nat \ {0}
  BY <1>3, CodecAssumption
<1>5. 2^ByteBits \in Int
  BY BitAssumption
<1>6. IsFiniteSet(Bytes) /\ Cardinality(Bytes) \in Nat /\ Bytes \subseteq Int
  <2>1. 0 \in Int /\ 2^ByteBits - 1 \in Int
    BY <1>5
  <2>2. IsFiniteSet(Bytes)
    BY <2>1, FS_Interval DEF Bytes
  <2> QED BY <2>2, FS_CardinalityType DEF Bytes
<1> QED BY <1>1, <1>4, <1>6, CipherAssumption DEF Source, n

(* Positions of a value are positions of the block.                        *)
LEMMA PositionsTypes ==
  ASSUME Source, NEW v
  PROVE  /\ Positions(v) \subseteq 0 .. n - 1 /\ IsFiniteSet(Positions(v)) /\ Count(v) \in Nat
         /\ v \in Alphabet => Count(v) >= 1
<1>1. n \in Nat \ {0} /\ block \in Seq(Bytes)
  BY BlockTypes
<1>2. Positions(v) \in SUBSET (0 .. n - 1) /\ IsFiniteSet(0 .. n - 1)
  BY <1>1, FS_Interval DEF Positions
<1>3. IsFiniteSet(Positions(v)) /\ Count(v) \in Nat
  BY <1>2, FS_Subset, FS_CardinalityType DEF Count
<1>4. ASSUME v \in Alphabet PROVE Count(v) >= 1
  <2>1. PICK i \in 1 .. n : v = block[i]
    BY <1>1, <1>4 DEF Alphabet, ToSet, n
  <2>2. i - 1 \in 0 .. n - 1 /\ block[(i - 1) + 1] = v
    BY <1>1, <2>1
  <2>3. Positions(v) # {}
    BY <2>2 DEF Positions
  <2> QED BY <1>3, <2>3, FS_EmptySet DEF Count
<1> QED BY <1>2, <1>3, <1>4

(* The symbols are the values of the block, each of them once.             *)
LEMMA SymbolsEnumerate ==
  ASSUME Source
  PROVE  /\ Len(OwnSymbols) \in 1 .. Cardinality(Bytes) /\ OwnSymbols \in Seq(Alphabet)
         /\ \A i, j \in 1 .. Len(OwnSymbols) : OwnSymbols[i] = OwnSymbols[j] => i = j
<1> DEFINE most == OwnMost
           rest == Alphabet \ {most}
           p == IndexSet(rest)
<1>1. block \in Seq(Bytes) /\ n \in Nat \ {0} /\ n = Len(block)
  BY BlockTypes DEF n
<1>2. Alphabet \in SUBSET Bytes /\ Alphabet # {}
  <2>1. \A i \in 1 .. Len(block) : block[i] \in Bytes
    BY <1>1, ElementOfSeq
  <2>2. DOMAIN block = 1 .. Len(block) /\ 1 \in 1 .. Len(block)
    BY <1>1
  <2> QED BY <2>1, <2>2 DEF Alphabet, ToSet
<1>3. /\ IsFiniteSet(Alphabet) /\ Cardinality(Alphabet) <= Cardinality(Bytes)
      /\ Cardinality(Alphabet) \in Nat \ {0} /\ Cardinality(Bytes) \in Nat
  BY <1>2, BlockTypes, FS_Subset, FS_CardinalityType, FS_EmptySet
<1>4. /\ IsFiniteSet(rest) /\ rest \in SUBSET Int
      /\ Cardinality(rest) = IF most \in Alphabet THEN Cardinality(Alphabet) - 1 ELSE Cardinality(Alphabet)
  BY <1>2, <1>3, BlockTypes, FS_RemoveElement
<1> HIDE DEF rest, most
<1>5. /\ p \in Seq(rest) /\ Len(p) = Cardinality(rest)
      /\ \A i, j \in 1 .. Cardinality(rest) : i < j => p[i] < p[j]
  BY <1>4, IndexSetAscends
<1> HIDE DEF p
<1>6. OwnSymbols = IF most \in Alphabet THEN Append(p, most) ELSE p
  <2>1. Append(p, most) = p \o <<most>> /\ p \o <<>> = p
    BY <1>5, ConcatEmptySeq
  <2> QED BY <2>1 DEF OwnSymbols, SortedKeys, p, rest, most
<1>7. \A i \in 1 .. Len(p) : p[i] \in rest /\ p[i] \in Int
  BY <1>4, <1>5, ElementOfSeq
<1>8. \A i, j \in 1 .. Len(p) : p[i] = p[j] => i = j
  BY <1>3, <1>4, <1>5, <1>7
<1>9. rest \subseteq Alphabet /\ most \notin rest
  BY DEF rest
<1>a. CASE most \in Alphabet
  <2>1. OwnSymbols = Append(p, most)
    BY <1>6, <1>a
  <2>2. OwnSymbols \in Seq(Alphabet) /\ Len(OwnSymbols) = Cardinality(Alphabet)
    <3>1. p \in Seq(Alphabet) /\ Len(p) = Cardinality(Alphabet) - 1
      BY <1>4, <1>5, <1>9, <1>a, SeqWithin
    <3>2. Append(p, most) \in Seq(Alphabet) /\ Len(Append(p, most)) = Len(p) + 1
      BY <1>a, <3>1, AppendProperties
    <3> QED BY <1>3, <2>1, <3>1, <3>2
  <2>3. \A i \in 1 .. Len(OwnSymbols) : OwnSymbols[i] = IF i <= Len(p) THEN p[i] ELSE most
    BY <1>5, <2>1
  <2> QED BY <1>3, <1>4, <1>5, <1>7, <1>8, <1>9, <1>a, <2>2, <2>3
<1>b. CASE most \notin Alphabet
  <2>1. OwnSymbols = p
    BY <1>6, <1>b
  <2>2. p \in Seq(Alphabet) /\ Len(p) = Cardinality(Alphabet)
    BY <1>4, <1>5, <1>9, <1>b, SeqWithin
  <2>3. Len(p) \in 1 .. Cardinality(Bytes)
    BY <1>3, <2>2
  <2> QED BY <1>8, <2>1, <2>2, <2>3
<1> QED BY <1>a, <1>b

(* The values sent and the ones to be sent share the positions of a block. *)
LEMMA RoomOfTheRest ==
  ASSUME Source, NEW k \in 0 .. Len(OwnSymbols)
  PROVE  LET gone == {x \in 0 .. n - 1 : \E i \in 1 .. k : block[x + 1] = OwnSymbols[i]} IN
         /\ IsFiniteSet(gone) /\ Cardinality(gone) \in 0 .. n
         /\ \A j \in k + 1 .. Len(OwnSymbols) :
              /\ IsFiniteSet(gone \cup Positions(OwnSymbols[j]))
              /\ Cardinality(gone \cup Positions(OwnSymbols[j])) = Cardinality(gone) + Count(OwnSymbols[j])
              /\ Cardinality(gone) + Count(OwnSymbols[j]) <= n /\ Count(OwnSymbols[j]) \in Nat \ {0}
<1> DEFINE gone == {x \in 0 .. n - 1 : \E i \in 1 .. k : block[x + 1] = OwnSymbols[i]}
<1>1. /\ n \in Nat \ {0} /\ IsFiniteSet(0 .. n - 1) /\ Cardinality(0 .. n - 1) = n
      /\ Len(OwnSymbols) \in Nat /\ k \in Nat
  <2>1. n \in Nat \ {0} /\ Len(OwnSymbols) \in Nat /\ k \in Nat
    BY BlockTypes, SymbolsEnumerate
  <2>2. 0 \in Int /\ n - 1 \in Int /\ ~(0 > n - 1) /\ (n - 1) - 0 + 1 = n
    BY <2>1
  <2>3. IsFiniteSet(0 .. n - 1) /\ Cardinality(0 .. n - 1) = (n - 1) - 0 + 1
    BY <2>2, FS_Interval
  <2> QED BY <2>1, <2>2, <2>3
<1>2. gone \in SUBSET (0 .. n - 1) /\ IsFiniteSet(gone) /\ Cardinality(gone) \in 0 .. n
  <2>1. gone \in SUBSET (0 .. n - 1)
    OBVIOUS
  <2>2. IsFiniteSet(gone) /\ Cardinality(gone) <= n /\ Cardinality(gone) \in Nat
    BY <1>1, <2>1, FS_Subset, FS_CardinalityType
  <2> QED BY <1>1, <2>1, <2>2
<1>3. ASSUME NEW j \in k + 1 .. Len(OwnSymbols)
      PROVE  /\ IsFiniteSet(gone \cup Positions(OwnSymbols[j]))
             /\ Cardinality(gone \cup Positions(OwnSymbols[j])) = Cardinality(gone) + Count(OwnSymbols[j])
             /\ Cardinality(gone) + Count(OwnSymbols[j]) <= n /\ Count(OwnSymbols[j]) \in Nat \ {0}
  <2> DEFINE p == Positions(OwnSymbols[j])
  <2>1. j \in 1 .. Len(OwnSymbols) /\ OwnSymbols[j] \in Alphabet
    BY <1>1, <1>3, SymbolsEnumerate, ElementOfSeq
  <2>2. /\ p \in SUBSET (0 .. n - 1) /\ IsFiniteSet(p) /\ Count(OwnSymbols[j]) = Cardinality(p)
        /\ Cardinality(p) \in Nat \ {0}
    BY <2>1, PositionsTypes DEF Count
  <2>3. gone \cap p = {}
    <3>1. \A i \in 1 .. k : OwnSymbols[i] # OwnSymbols[j]
      BY <1>1, <1>3, <2>1, SymbolsEnumerate
    <3> QED BY <3>1 DEF Positions
  <2> HIDE DEF gone, p
  <2>4. IsFiniteSet(gone \cup p) /\ Cardinality(gone \cup p) = Cardinality(gone) + Cardinality(p)
    <3>1. Cardinality(gone \cap p) = 0
      BY <2>3, FS_EmptySet
    <3>2. /\ IsFiniteSet(gone \cup p)
          /\ Cardinality(gone \cup p) = Cardinality(gone) + Cardinality(p) - Cardinality(gone \cap p)
      BY <1>2, <2>2, FS_Union
    <3>3. Cardinality(gone) \in Int /\ Cardinality(p) \in Int
      BY <1>2, <2>2
    <3> QED BY <3>1, <3>2, <3>3
  <2>5. gone \cup p \in SUBSET (0 .. n - 1)
    BY <1>2, <2>2
  <2>6. Cardinality(gone \cup p) <= n
    BY <1>1, <2>5, FS_Subset
  <2> QED BY <2>2, <2>4, <2>6 DEF p
<1> QED BY <1>2, <1>3

(* With the counts of the block, what is sent is what its bytes call for.  *)
LEMMA TallyTells ==
  ASSUME Source
  PROVE  /\ Occurring(Tally) = Alphabet /\ MostFrequent(Tally) = OwnMost
         /\ CountBits(Tally) = OwnCountBits /\ Symbols(Tally) = OwnSymbols
         /\ HeaderFields(Tally, Difference) = OwnHeader
         /\ \A j, gone, free : SymbolFields(Tally, j, gone, free) = OwnFields(j, gone, free)
<1>1. block \in Seq(Bytes) /\ n = Len(block) /\ n \in Nat \ {0}
  BY BlockTypes DEF n
<1>2. Alphabet \subseteq Bytes
  <2>1. \A i \in 1 .. Len(block) : block[i] \in Bytes
    BY <1>1, ElementOfSeq
  <2>2. DOMAIN block = 1 .. Len(block)
    BY <1>1
  <2> QED BY <2>1, <2>2 DEF Alphabet, ToSet
<1>3. \A v \in Bytes : Tally[v] = Count(v)
  BY DEF Tally
<1>4. ASSUME NEW v \in Bytes PROVE Count(v) > 0 <=> v \in Alphabet
  <2>1. Count(v) \in Nat /\ IsFiniteSet(Positions(v))
    BY PositionsTypes
  <2>2. CASE v \in Alphabet
    BY <2>1, <2>2, PositionsTypes
  <2>3. CASE v \notin Alphabet
    <3>1. Positions(v) = {}
      <4>1. ASSUME NEW x \in Positions(v) PROVE FALSE
        <5>1. x \in 0 .. n - 1 /\ block[x + 1] = v
          BY DEF Positions
        <5>2. x + 1 \in 1 .. Len(block) /\ DOMAIN block = 1 .. Len(block)
          BY <1>1, <5>1
        <5> QED BY <2>3, <5>1, <5>2 DEF Alphabet, ToSet
      <4> QED BY <4>1
    <3>2. Count(v) = 0
      BY <3>1, FS_EmptySet DEF Count
    <3> QED BY <2>3, <3>2
  <2> QED BY <2>2, <2>3
<1>5. Occurring(Tally) = Alphabet
  BY <1>2, <1>3, <1>4 DEF Occurring
<1>6. MostFrequent(Tally) = OwnMost
  <2>1. {v \in Alphabet : \A w \in Alphabet : Tally[w] <= Tally[v]}
          = {v \in Alphabet : \A w \in Alphabet : Count(w) <= Count(v)}
    BY <1>2, <1>3
  <2> QED BY <1>5, <2>1 DEF MostFrequent, OwnMost
<1>7. CountBits(Tally) = OwnCountBits
  <2>1. {Tally[v] : v \in Alphabet \ {OwnMost}} = {Count(v) : v \in Alphabet \ {OwnMost}}
    BY <1>2, <1>3
  <2> QED BY <1>5, <1>6, <2>1 DEF CountBits, OwnCountBits
<1>8. Symbols(Tally) = OwnSymbols
  BY <1>5, <1>6 DEF Symbols, OwnSymbols
<1>9. HeaderFields(Tally, Difference) = OwnHeader
  BY <1>6, <1>7 DEF HeaderFields, OwnHeader
<1>a. ASSUME NEW j, NEW gone, NEW free PROVE SymbolFields(Tally, j, gone, free) = OwnFields(j, gone, free)
  BY <1>7, <1>8 DEF SymbolFields, OwnFields
<1> QED BY <1>5, <1>6, <1>7, <1>8, <1>9, <1>a

(* The header is that of the block, whatever the last one left behind.     *)
LEMMA HeaderSent ==
  ASSUME Source, EncodeHeader
  PROVE  /\ counts' = Tally /\ alphabet' = Difference
         /\ Write(EmptyWriter, <<>>, OwnHeader)
<1>1. /\ counts' = [v \in Bytes |-> Zeroed(counts)[v] + Count(v)]
      /\ alphabet' = SymmetricDifference(ClearAll(alphabet) \cup Occurring(counts'), reference)
      /\ Write(EmptyWriter, <<>>, HeaderFields(counts', alphabet'))
  BY DEF EncodeHeader
<1>2. \A v \in Bytes : Zeroed(counts)[v] + Count(v) = Count(v)
  <2>1. \A v \in Bytes : Zeroed(counts)[v] = 0 /\ Count(v) \in Nat
    BY PositionsTypes DEF Zeroed
  <2> QED BY <2>1
<1>3. counts' = Tally
  BY <1>1, <1>2 DEF Tally
<1>4. alphabet' = Difference
  <2>1. Occurring(counts') = Alphabet
    BY <1>3, TallyTells
  <2> QED BY <1>1, <2>1 DEF ClearAll, Difference
<1>5. HeaderFields(counts', alphabet') = OwnHeader
  BY <1>3, <1>4, TallyTells
<1> QED BY <1>1, <1>3, <1>4, <1>5

(* So are the fields of every value after it.                              *)
LEMMA SymbolSent ==
  ASSUME Source, counts = Tally, EncodeSymbol
  PROVE  /\ pc = "symbols" /\ sent < Len(OwnSymbols) - 1
         /\ Write(writer, out, OwnFields(sent, removed, room))
         /\ removed' = removed \cup Positions(OwnSymbols[sent + 1])
         /\ room' = room - Count(OwnSymbols[sent + 1])
         /\ sent' = sent + 1
         /\ UNCHANGED <<stream, pc, counts, alphabet, data, decoder>>
<1>1. Symbols(counts) = OwnSymbols /\ SymbolFields(counts, sent, removed, room) = OwnFields(sent, removed, room)
  BY TallyTells
<1> QED BY <1>1 DEF EncodeSymbol

-----------------------------------------------------------------------------
(* The steps.                                                              *)

(* As long as the block at hand is the same, its values are.               *)
LEMMA SameBlock ==
  ASSUME UNCHANGED <<file, at>>
  PROVE  UNCHANGED <<block, n, OwnSymbols, Tally>> /\ (Source => Source')
<1>1. UNCHANGED <<block, n>>
  BY DEF block, n
<1>2. UNCHANGED Alphabet
  BY <1>1 DEF Alphabet
<1>3. \A v : Positions(v)' = Positions(v)
  BY <1>1 DEF Positions
<1>4. \A v : Count(v)' = Count(v)
  BY <1>3 DEF Count
<1>5. UNCHANGED OwnMost
  BY <1>2, <1>4 DEF OwnMost
<1>6. UNCHANGED OwnSymbols
  BY <1>2, <1>5 DEF OwnSymbols
<1>7. UNCHANGED Tally
  BY <1>4 DEF Tally
<1> QED BY <1>1, <1>6, <1>7 DEF Source

(* Fields are written where the encoder is: they are new, and numbered.    *)
LEMMA WriteLaw ==
  ASSUME Source, NEW w, NEW S, NEW before \in Seq(S), NEW T, NEW fields \in Seq(T),
         Write(w, before, fields), UNCHANGED <<file, at>>,
         \A u \in used : u \in Outside \/ Numbered(u), Once,
         \A u \in used : u.block = at => u.place <= Len(before),
         \A x \in 1 .. Len(fields) : fields[x].index = Len(before) + x - 1,
         Len(before) + Len(fields) <= FieldSpace
  PROVE  /\ \A u \in used' : u \in Outside \/ Numbered(u)
         /\ Once'
         /\ \A u \in used' : u.block = at => u.place <= Len(out')
         /\ \E R : out' \in Seq(R)
         /\ Len(out') = Len(before) + Len(fields)
<1> DEFINE new(x) == Encryption(at, Len(before) + x, fields[x].val, BlockFieldNonce(at, fields[x].index))
<1>1. /\ at \in Nat /\ at' = at /\ FieldSpace \in Nat
      /\ Len(before) \in Nat /\ Len(fields) \in Nat
  BY BlockTypes, CipherAssumption
<1>2. PICK some \in SUBSET (1 .. Len(fields)) : used' = used \cup {new(x) : x \in some}
  BY DEF Write
<1>3. (\E R : out' \in Seq(R)) /\ Len(out') = Len(before) + Len(fields)
  <2> DEFINE sending == [x \in 1 .. Len(fields) |-> Sent(fields[x])]
             R == S \cup {Sent(fields[x]) : x \in 1 .. Len(fields)}
  <2>1. sending \in Seq(R) /\ Len(sending) = Len(fields)
    <3>1. sending \in [1 .. Len(fields) -> R]
      OBVIOUS
    <3> QED BY <1>1, <3>1
  <2>2. before \in Seq(R)
    BY SeqWithin
  <2>3. out' = before \o sending
    BY DEF Write
  <2> HIDE DEF sending, R
  <2>4. before \o sending \in Seq(R) /\ Len(before \o sending) = Len(before) + Len(sending)
    BY <2>1, <2>2, ConcatProperties
  <2> QED BY <2>1, <2>3, <2>4
<1>4. ASSUME NEW x \in some
      PROVE  /\ new(x).block = at /\ new(x).place = Len(before) + x
             /\ new(x).place > Len(before) /\ new(x).place <= Len(before) + Len(fields)
             /\ Numbered(new(x))
  <2>1. /\ new(x).block = at /\ new(x).place = Len(before) + x
        /\ new(x).nonce = BlockFieldNonce(at, fields[x].index)
    BY DEF Encryption
  <2>2. x \in 1 .. Len(fields) /\ fields[x].index = Len(before) + x - 1
    BY <1>4
  <2>3. Len(before) + x \in 1 .. FieldSpace /\ (Len(before) + x) - 1 = Len(before) + x - 1 /\ at \in 0 .. at
    BY <1>1, <2>2
  <2> HIDE DEF new
  <2>4. Numbered(new(x))
    BY <2>1, <2>2, <2>3 DEF Numbered
  <2> QED BY <1>1, <2>1, <2>2, <2>4
<1> HIDE DEF new
<1>5. ASSUME NEW u \in used' PROVE u \in used \/ \E x \in some : u = new(x)
  BY <1>2
<1>6. ASSUME NEW u \in used' PROVE u \in Outside \/ Numbered(u)
  BY <1>4, <1>5
<1>7. Once'
  <2>1. ASSUME NEW u \in used', NEW v \in used', u.block = v.block, u.place = v.place PROVE u = v
    <3>1. CASE u \in used /\ v \in used
      BY <2>1, <3>1 DEF Once
    <3>2. ASSUME NEW x \in some, NEW y \in some, u = new(x), v = new(y) PROVE u = v
      <4>1. x \in Int /\ y \in Int /\ Len(before) + x = Len(before) + y
        BY <1>4, <2>1, <3>2
      <4>2. x = y
        BY <1>1, <4>1
      <4> QED BY <3>2, <4>2
    <3>3. ASSUME NEW a \in used, NEW x \in some, a.block = new(x).block, a.place = new(x).place PROVE FALSE
      <4>1. a.place <= Len(before) /\ a.place = Len(before) + x /\ x \in 1 .. Len(fields)
        BY <1>4, <3>3
      <4> QED BY <1>1, <4>1
    <3> QED BY <1>5, <2>1, <3>1, <3>2, <3>3
  <2> QED BY <2>1 DEF Once
<1>8. ASSUME NEW u \in used', u.block = at PROVE u.place <= Len(out')
  <2>1. CASE u \in used
    <3>1. u \in Outside \/ Numbered(u)
      BY <2>1
    <3>2. u \notin Outside
      BY <1>1, <1>8 DEF Outside, Encryption
    <3>3. u.place \in Int /\ u.place <= Len(before)
      BY <1>8, <2>1, <3>1, <3>2 DEF Numbered
    <3> QED BY <1>1, <1>3, <3>3
  <2>2. CASE \E x \in some : u = new(x)
    BY <1>3, <1>4, <2>2
  <2> QED BY <1>5, <2>1, <2>2
<1> QED BY <1>3, <1>6, <1>7, <1>8

(* The fields of a header are numbered one by one.                         *)
LEMMA HeaderIndices ==
  ASSUME Source, EncodeHeader
  PROVE  \E T : \E fields \in Seq(T) :
           /\ Write(EmptyWriter, <<>>, fields) /\ Len(fields) = 4
           /\ \A x \in 1 .. 4 : fields[x].index = x - 1
<1> DEFINE cardinality == Cardinality(Difference)
           modulus == BinCoef(2^ByteBits, cardinality)
           f1 == Field(cardinality, ByteBits + 1, 2^(ByteBits + 1), FieldAlphabetCardinality, FALSE)
           f2 == Field(Rank(IndexSet(Difference)), BitLength(modulus), modulus, FieldAlphabetRank, TRUE)
           f3 == Field(OwnMost, ByteBits, 2^ByteBits, FieldMostFrequent, FALSE)
           f4 == Field(OwnCountBits, BitLength(n), 2^BitLength(n), FieldCountWidth, FALSE)
<1>1. Write(EmptyWriter, <<>>, <<f1, f2, f3, f4>>)
  BY HeaderSent DEF OwnHeader
<1>2. f1.index = 0 /\ f2.index = 1 /\ f3.index = 2 /\ f4.index = 3
  BY DEF Field, FieldAlphabetCardinality, FieldAlphabetRank, FieldMostFrequent, FieldCountWidth
<1> HIDE DEF f1, f2, f3, f4
<1>3. /\ <<f1, f2, f3, f4>> \in Seq({f1, f2, f3, f4}) /\ Len(<<f1, f2, f3, f4>>) = 4
      /\ \A x \in 1 .. 4 : <<f1, f2, f3, f4>>[x].index = x - 1
  BY <1>2
<1> QED BY <1>1, <1>3

(* So are those of the values after it, and there are numbers for them.    *)
LEMMA SymbolIndices ==
  ASSUME IInv, EncodeSymbol
  PROVE  \E T : \E fields \in Seq(T) :
           /\ Write(writer, out, fields) /\ Len(fields) = 2
           /\ \A x \in 1 .. 2 : fields[x].index = (4 + 2 * sent) + x - 1
           /\ (4 + 2 * sent) + 2 <= FieldSpace
<1> DEFINE pos == ReduceIndexSet(IndexSet(Positions(OwnSymbols[sent + 1])), removed)
           modulus == BinCoef(room, Len(pos))
           f1 == Field(Len(pos), OwnCountBits, 2^OwnCountBits, SymbolCountField(sent), FALSE)
           f2 == Field(Rank(pos), BitLength(modulus), modulus, SymbolRankField(sent), TRUE)
<1>1. Write(writer, out, <<f1, f2>>)
  <2>1. Source /\ counts = Tally
    BY DEF IInv, Sending, EncodeSymbol
  <2> QED BY <2>1, SymbolSent DEF OwnFields
<1>2. sent \in Nat /\ (4 + 2 * sent) + 2 <= FieldSpace /\ FieldSpace \in Nat \ {0}
  <2>1. sent \in Nat /\ sent < Len(OwnSymbols) - 1 /\ Len(OwnSymbols) \in 1 .. Cardinality(Bytes)
    BY SymbolsEnumerate, SymbolSent DEF EncodeSymbol, IInv, Sending
  <2>2. 2 * Cardinality(Bytes) + 1 < FieldSpace /\ Cardinality(Bytes) \in Nat /\ FieldSpace \in Nat \ {0}
    BY CodecAssumption, CipherAssumption, BlockTypes DEF IInv
  <2> QED BY <2>1, <2>2
<1>3. f1.index = 4 + 2 * sent /\ f2.index = 4 + 2 * sent + 1
  <2>1. SymbolCountField(sent) = 4 + 2 * sent
    BY <1>2, Within DEF SymbolCountField
  <2>2. SymbolRankField(sent) = 4 + 2 * sent + 1
    BY <1>2, Within DEF SymbolRankField
  <2> QED BY <2>1, <2>2 DEF Field
<1> HIDE DEF f1, f2
<1>4. <<f1, f2>> \in Seq({f1, f2}) /\ Len(<<f1, f2>>) = 2 /\ <<f1, f2>>[1] = f1 /\ <<f1, f2>>[2] = f2
  OBVIOUS
<1>5. \A x \in 1 .. 2 : <<f1, f2>>[x].index = (4 + 2 * sent) + x - 1
  <2>1. ASSUME NEW x \in 1 .. 2 PROVE <<f1, f2>>[x].index = (4 + 2 * sent) + x - 1
    <3>1. CASE x = 1
      BY <1>2, <1>3, <1>4, <3>1
    <3>2. CASE x = 2
      BY <1>2, <1>3, <1>4, <3>2
    <3> QED BY <3>1, <3>2
  <2> QED BY <2>1
<1> QED BY <1>1, <1>2, <1>4, <1>5

(* The header is the first of this block; nothing is removed yet.          *)
LEMMA EncodeHeaderStep ==
  ASSUME IInv, EncodeHeader
  PROVE  IInv'
<1>1. /\ pc = "encode" /\ pc' = "symbols" /\ removed' = {} /\ room' = n /\ sent' = 0
      /\ UNCHANGED <<file, at>>
  BY DEF EncodeHeader, stream, ClearAll
<1>2. Source' /\ UNCHANGED <<block, n, OwnSymbols, Tally>> /\ counts' = Tally
  BY <1>1, SameBlock, HeaderSent DEF IInv
<1>3. PICK T : \E fields \in Seq(T) :
        /\ Write(EmptyWriter, <<>>, fields) /\ Len(fields) = 4
        /\ \A x \in 1 .. 4 : fields[x].index = x - 1
  BY HeaderIndices DEF IInv
<1>4. PICK fields \in Seq(T) :
        /\ Write(EmptyWriter, <<>>, fields) /\ Len(fields) = 4
        /\ \A x \in 1 .. 4 : fields[x].index = x - 1
  BY <1>3
<1>5. Len(OwnSymbols) \in 1 .. Cardinality(Bytes) /\ Cardinality(Bytes) \in Nat /\ n \in Nat
  BY SymbolsEnumerate, BlockTypes DEF IInv
<1>6. 4 <= FieldSpace
  BY <1>5, CodecAssumption, CipherAssumption
<1>7. <<>> \in Seq({}) /\ Len(<<>>) = 0
  OBVIOUS
<1>8. \A x \in 1 .. Len(fields) : fields[x].index = Len(<<>>) + x - 1
  BY <1>4, <1>7
<1>9. Len(<<>>) + Len(fields) <= FieldSpace /\ Len(<<>>) + Len(fields) = 4
  BY <1>4, <1>6, <1>7
<1>a. /\ \A u \in used : u \in Outside \/ Numbered(u)
      /\ \A u \in used : u.block = at => u.place <= Len(<<>>)
      /\ Once /\ Source
  BY <1>1 DEF IInv, Behind
<1>b. /\ \A u \in used' : u \in Outside \/ Numbered(u)
      /\ Once'
      /\ \A u \in used' : u.block = at => u.place <= Len(out')
      /\ \E R : out' \in Seq(R)
      /\ Len(out') = 4
  <2>1. PICK before \in Seq({}) : before = <<>>
    BY <1>7
  <2>2. /\ Write(EmptyWriter, before, fields) /\ UNCHANGED <<file, at>>
        /\ \A u \in used : u.block = at => u.place <= Len(before)
        /\ \A x \in 1 .. Len(fields) : fields[x].index = Len(before) + x - 1
        /\ Len(before) + Len(fields) <= FieldSpace /\ Len(before) + Len(fields) = 4
    BY <1>1, <1>4, <1>8, <1>9, <1>a, <2>1
  <2>3. /\ \A u \in used' : u \in Outside \/ Numbered(u)
        /\ Once'
        /\ \A u \in used' : u.block = at => u.place <= Len(out')
        /\ \E R : out' \in Seq(R)
        /\ Len(out') = Len(before) + Len(fields)
    BY <1>a, <2>2, WriteLaw
  <2> QED BY <2>2, <2>3
<1>c. Behind'
  BY <1>1, <1>b DEF Behind, Numbered, Outside, Encryption
<1>d. Sending'
  <2>1. sent' \in 0 .. Len(OwnSymbols') - 1 /\ Len(out') = 4 + 2 * sent'
    BY <1>1, <1>2, <1>5, <1>b
  <2>2. removed' = {x \in 0 .. n' - 1 : \E i \in 1 .. sent' : block'[x + 1] = OwnSymbols'[i]}
    BY <1>1
  <2>3. room' = n' - Cardinality(removed')
    BY <1>1, <1>2, <1>5, FS_EmptySet
  <2> QED BY <1>2, <1>b, <2>1, <2>2, <2>3 DEF Sending
<1>e. Inside'
  BY <1>1 DEF Inside
<1> QED BY <1>2, <1>b, <1>c, <1>d, <1>e DEF IInv

(* One value more is sent, and its positions are removed.                  *)
LEMMA EncodeSymbolStep ==
  ASSUME IInv, EncodeSymbol
  PROVE  IInv'
<1> DEFINE positions == Positions(OwnSymbols[sent + 1])
<1>1. /\ pc = "symbols" /\ pc' = "symbols" /\ sent < Len(OwnSymbols) - 1 /\ sent' = sent + 1
      /\ removed' = removed \cup positions
      /\ room' = room - Count(OwnSymbols[sent + 1])
      /\ UNCHANGED <<file, at, counts>> /\ counts = Tally
  <2>1. Source /\ counts = Tally
    BY DEF IInv, Sending, EncodeSymbol
  <2> QED BY <2>1, SymbolSent DEF stream
<1>2. Source /\ Source' /\ UNCHANGED <<block, n, OwnSymbols, Tally>>
  BY <1>1, SameBlock DEF IInv
<1>3. PICK T : \E fields \in Seq(T) :
        /\ Write(writer, out, fields) /\ Len(fields) = 2
        /\ \A x \in 1 .. 2 : fields[x].index = (4 + 2 * sent) + x - 1
        /\ (4 + 2 * sent) + 2 <= FieldSpace
  BY SymbolIndices
<1>4. PICK fields \in Seq(T) :
        /\ Write(writer, out, fields) /\ Len(fields) = 2
        /\ \A x \in 1 .. 2 : fields[x].index = (4 + 2 * sent) + x - 1
        /\ (4 + 2 * sent) + 2 <= FieldSpace
  BY <1>3
<1>5. PICK S : out \in Seq(S)
  BY <1>1 DEF IInv, Sending
<1>6. /\ sent \in Nat /\ Len(out) = 4 + 2 * sent /\ room = n - Cardinality(removed)
      /\ removed = {x \in 0 .. n - 1 : \E i \in 1 .. sent : block[x + 1] = OwnSymbols[i]}
      /\ Len(OwnSymbols) \in Nat
  BY <1>1, <1>2, SymbolsEnumerate DEF IInv, Sending
<1>7. /\ \A u \in used : u \in Outside \/ Numbered(u)
      /\ \A u \in used : u.block = at => u.place <= Len(out)
      /\ Once
  BY <1>1 DEF IInv, Behind
<1>8. /\ \A x \in 1 .. Len(fields) : fields[x].index = Len(out) + x - 1
      /\ Len(out) + Len(fields) <= FieldSpace
  BY <1>4, <1>6
<1>b. /\ \A u \in used' : u \in Outside \/ Numbered(u)
      /\ Once'
      /\ \A u \in used' : u.block = at => u.place <= Len(out')
      /\ \E R : out' \in Seq(R)
      /\ Len(out') = Len(out) + Len(fields)
  <2>1. /\ Source /\ UNCHANGED <<file, at>>
        /\ Write(writer, out, fields) /\ out \in Seq(S) /\ fields \in Seq(T)
    BY <1>1, <1>2, <1>4, <1>5
  <2> QED BY <1>7, <1>8, <2>1, WriteLaw
<1>c. Behind'
  BY <1>1, <1>b DEF Behind, Numbered, Outside, Encryption
<1>d. Sending'
  <2>1. sent' \in 0 .. Len(OwnSymbols') - 1 /\ Len(out') = 4 + 2 * sent'
    <3>1. Len(OwnSymbols') = Len(OwnSymbols)
      BY <1>2
    <3>2. sent' \in 0 .. Len(OwnSymbols) - 1
      BY <1>1, <1>6
    <3>3. Len(out') = 4 + 2 * sent'
      BY <1>1, <1>4, <1>6, <1>b
    <3> QED BY <3>1, <3>2, <3>3
  <2>2. removed' = {x \in 0 .. n' - 1 : \E i \in 1 .. sent' : block'[x + 1] = OwnSymbols'[i]}
    <3>1. removed' = {x \in 0 .. n - 1 : \E i \in 1 .. sent + 1 : block[x + 1] = OwnSymbols[i]}
      <4>1. \A i : i \in 1 .. sent + 1 <=> i \in 1 .. sent \/ i = sent + 1
        BY <1>6
      <4> QED BY <1>1, <1>6, <4>1 DEF Positions
    <3> QED BY <1>1, <1>2, <3>1
  <2>3. room' = n' - Cardinality(removed')
    <3>2. sent \in 0 .. Len(OwnSymbols) /\ sent + 1 \in sent + 1 .. Len(OwnSymbols)
      <4>1. sent < Len(OwnSymbols) - 1
        BY <1>1
      <4> DEFINE l == Len(OwnSymbols)
      <4> HIDE DEF l
      <4>2. l \in Nat /\ sent \in Nat /\ sent < l - 1
        BY <1>6, <4>1 DEF l
      <4>3. sent \in 0 .. l /\ sent + 1 \in sent + 1 .. l
        BY <4>2
      <4> QED BY <4>3 DEF l
    <3>3. /\ Cardinality(removed) \in 0 .. n /\ Count(OwnSymbols[sent + 1]) \in Nat
          /\ Cardinality(removed \cup positions) = Cardinality(removed) + Count(OwnSymbols[sent + 1])
      BY <1>2, <1>6, <3>2, RoomOfTheRest
    <3> DEFINE c == Cardinality(removed)
               d == Count(OwnSymbols[sent + 1])
    <3>4. c \in 0 .. n /\ d \in Nat /\ n \in Nat
      BY <1>2, <3>3, BlockTypes
    <3>5. room' = room - d /\ room = n - c /\ n' = n /\ removed' = removed \cup positions
      BY <1>1, <1>2, <1>6
    <3>6. Cardinality(removed') = c + d
      BY <3>3, <3>5
    <3> HIDE DEF c, d
    <3> QED BY <3>4, <3>5, <3>6
  <2> QED BY <1>1, <1>2, <1>b, <2>1, <2>2, <2>3 DEF Sending
<1>e. Inside'
  BY <1>1 DEF Inside
<1> QED BY <1>2, <1>b, <1>c, <1>d, <1>e DEF IInv

(* What is decoded goes into positions that were free, and are no longer.  *)
LEMMA AssignLaw ==
  ASSUME Source, left \subseteq 0 .. n - 1, NEW chosen, NEW v, Assign(chosen, v)
  PROVE  /\ left' \subseteq left
         /\ \A x \in DOMAIN result : result'[x] # result[x] => x \in left \ left' /\ x < n
<1> DEFINE free == IndexSet(left)
           taken == {free[p + 1] : p \in chosen \cap 0 .. Len(free) - 1}
<1>1. n \in Nat /\ IsFiniteSet(0 .. n - 1)
  <2>1. n \in Nat /\ 0 \in Int /\ n - 1 \in Int
    BY BlockTypes
  <2> QED BY <2>1, FS_Interval
<1>2. left \in SUBSET Int /\ IsFiniteSet(left)
  <2>1. left \in SUBSET (0 .. n - 1)
    OBVIOUS
  <2>2. IsFiniteSet(left)
    BY <1>1, <2>1, FS_Subset
  <2>3. left \in SUBSET Int
    BY <2>1
  <2> QED BY <2>2, <2>3
<1>3. free \in Seq(left)
  BY <1>2, IndexSetAscends
<1>4. taken \subseteq left
  <2> HIDE DEF free
  <2>1. Len(free) \in Nat
    BY <1>3
  <2>2. ASSUME NEW p \in chosen \cap 0 .. Len(free) - 1 PROVE free[p + 1] \in left
    <3>1. p + 1 \in 1 .. Len(free)
      BY <2>1
    <3> QED BY <1>3, <3>1, ElementOfSeq
  <2> QED BY <2>2
<1>5. /\ result' = [x \in DOMAIN result |-> IF x \in taken THEN v ELSE result[x]]
      /\ left' = left \ taken
  BY DEF Assign
<1> HIDE DEF taken
<1>6. \A x \in left : x < n
  BY <1>1
<1> QED BY <1>4, <1>5, <1>6

(* The decoder's steps: what they write, and what they leave free.         *)
LEMMA DecoderStays ==
  ASSUME IInv, [Next]_vars
  PROVE  /\ \A x \in DOMAIN result : result'[x] # result[x] => x < n /\ x \in left \ left'
         /\ Inside'
<1>1. Source /\ Inside /\ n \in Nat
  BY BlockTypes DEF IInv
<1>2. CASE DecodeHeader
  <2>1. UNCHANGED <<file, at, result>>
    BY <1>2 DEF DecodeHeader, stream
  <2>2. UNCHANGED n
    BY <2>1, SameBlock
  <2>3. pc' = "rehydrate" => left' = Unoccupied(size')
    BY <1>2 DEF DecodeHeader
  <2>4. \A len : Unoccupied(len) \subseteq 0 .. n - 1
    BY <1>1 DEF Unoccupied
  <2> QED BY <2>1, <2>2, <2>3, <2>4 DEF Inside
<1>3. CASE DecodeSymbol
  <2>1. UNCHANGED <<file, at>> /\ pc = "rehydrate"
    BY <1>3 DEF DecodeSymbol, stream
  <2>2. UNCHANGED n /\ left \subseteq 0 .. n - 1
    BY <1>1, <2>1, SameBlock DEF Inside
  <2>3. UNCHANGED <<left, result>> \/ \E chosen, v : Assign(chosen, v)
    BY <1>3 DEF DecodeSymbol
  <2>4. CASE UNCHANGED <<left, result>>
    BY <2>2, <2>4 DEF Inside
  <2>5. CASE \E chosen, v : Assign(chosen, v)
    <3>1. PICK chosen, v : Assign(chosen, v)
      BY <2>5
    <3> QED BY <1>1, <2>2, <3>1, AssignLaw DEF Inside
  <2> QED BY <2>3, <2>4, <2>5
<1>4. CASE DecodeLast
  <2>1. UNCHANGED <<file, at>> /\ pc = "rehydrate" /\ pc' = "done"
    BY <1>4 DEF DecodeLast, stream
  <2>2. left \subseteq 0 .. n - 1 /\ Inside'
    BY <1>1, <2>1 DEF Inside
  <2>3. CASE keys = <<>>
    BY <1>4, <2>2, <2>3 DEF DecodeLast
  <2>4. CASE keys # <<>>
    <3>1. Assign(0 .. size - 1, keys[Len(keys)])
      BY <1>4, <2>4 DEF DecodeLast
    <3> QED BY <1>1, <2>2, <3>1, AssignLaw
  <2> QED BY <2>3, <2>4
<1>5. CASE EncodeHeader \/ EncodeSymbol \/ HandOver
  BY <1>5 DEF EncodeHeader, EncodeSymbol, HandOver, decoder, Inside
<1>6. CASE NextBlock
  BY <1>6 DEF NextBlock, decoder, Inside
<1>7. CASE Finished \/ UNCHANGED vars
  <2>1. UNCHANGED <<file, at, pc, left, result>>
    BY <1>7 DEF Finished, vars, stream, decoder
  <2> QED BY <1>1, <2>1, SameBlock DEF Inside
<1> QED BY <1>2, <1>3, <1>4, <1>5, <1>6, <1>7 DEF Next

(* The other steps encrypt nothing.                                        *)
LEMMA QuietStep ==
  ASSUME IInv, HandOver \/ DecodeHeader \/ DecodeSymbol \/ DecodeLast \/ Finished \/ UNCHANGED vars
  PROVE  Source' /\ Sending' /\ Behind' /\ Once'
<1>1. UNCHANGED <<file, at, used>>
  BY DEF HandOver, DecodeHeader, DecodeSymbol, DecodeLast, Finished, vars, stream, encoder
<1>2. Source' /\ Once' /\ UNCHANGED <<block, n, OwnSymbols, Tally>>
  BY <1>1, SameBlock DEF IInv, Once
<1>3. CASE UNCHANGED vars
  BY <1>2, <1>3 DEF IInv, Sending, Behind, Numbered, Outside, Encryption, vars, encoder, stream
<1>4. CASE Finished
  BY <1>2, <1>4 DEF IInv, Sending, Behind, Numbered, Outside, Encryption, Finished, vars, encoder, stream
<1>5. CASE HandOver \/ DecodeHeader \/ DecodeSymbol \/ DecodeLast
  <2>1. pc' \notin {"encode", "symbols"}
    BY <1>5 DEF HandOver, DecodeHeader, DecodeSymbol, DecodeLast
  <2>2. Sending'
    BY <2>1 DEF Sending
  <2>3. Behind'
    BY <1>1, <2>1 DEF IInv, Behind, Numbered, Outside, Encryption
  <2> QED BY <1>2, <2>2, <2>3
<1> QED BY <1>3, <1>4, <1>5

(* Of the next block nothing was encrypted so far.                         *)
LEMMA NextBlockStep ==
  ASSUME IInv, NextBlock
  PROVE  Source' /\ Sending' /\ Behind' /\ Once'
<1>1. at + 1 < Len(file) /\ at' = at + 1 /\ pc' = "encode" /\ UNCHANGED <<file, used>>
  BY DEF NextBlock, encoder
<1>2. at \in Nat /\ Len(file) \in Nat
  <2>1. file \in Seq(UNION {[1 .. l -> Bytes] : l \in 1 .. MaxBlock})
    BY CodecAssumption DEF IInv, Source
  <2> QED BY <2>1, BlockTypes DEF IInv
<1>3. Source' /\ Sending' /\ Once'
  BY <1>1, <1>2 DEF IInv, Source, Sending, Once
<1>4. ASSUME NEW u \in used PROVE (u \in Outside \/ Numbered(u)') /\ u.block # at'
  <2>1. CASE u \in Outside
    BY <1>1, <1>2, <2>1 DEF Outside, Encryption
  <2>2. CASE Numbered(u)
    BY <1>1, <1>2, <2>2 DEF Numbered
  <2> QED BY <2>1, <2>2 DEF IInv, Behind
<1>5. Behind'
  BY <1>1, <1>4 DEF Behind, Outside, Encryption
<1> QED BY <1>3, <1>5

(* The invariant holds initially.                                          *)
LEMMA InvariantInit == Init => IInv
<1> SUFFICES ASSUME Init PROVE IInv
  OBVIOUS
<1>1. Source
  <2>1. file \in Files /\ at = 0 /\ Len(file) \in 1 .. BlockSpace
    BY CodecAssumption DEF Init
  <2> QED BY <2>1, CipherAssumption DEF Source
<1>2. used = {} \/ used = Outside
  BY DEF Init, Outside
<1>3. \A u, v \in Outside : /\ u.block = v.block /\ u.place = v.place => u = v
                            /\ u.block # 0
  BY DEF Outside, Encryption
<1>4. Behind /\ Once
  BY <1>2, <1>3 DEF Init, Behind, Once
<1> QED BY <1>1, <1>4 DEF Init, IInv, Sending, Inside

(* Every step keeps it.                                                    *)
LEMMA InvariantStep == IInv /\ [Next]_vars => IInv'
<1> SUFFICES ASSUME IInv, [Next]_vars PROVE IInv'
  OBVIOUS
<1>1. Inside'
  BY DecoderStays
<1>2. CASE NextBlock
  BY <1>1, <1>2, NextBlockStep DEF IInv
<1>3. CASE HandOver \/ DecodeHeader \/ DecodeSymbol \/ DecodeLast \/ Finished \/ UNCHANGED vars
  BY <1>1, <1>3, QuietStep DEF IInv
<1> QED BY <1>2, <1>3, EncodeHeaderStep, EncodeSymbolStep DEF Next

-----------------------------------------------------------------------------
(* The theorems.                                                           *)

(* The inductive invariant of encoder and decoder (process in              *)
(* compressor.go and decompressor.go).                                     *)
THEOREM Invariance == Spec => []IInv
BY InvariantInit, InvariantStep, PTL DEF Spec

(* nonce.go: "every (block, field) pair maps to a distinct nonce within a  *)
(* file", and so do the alphabet and the hash: nothing is encrypted under  *)
(* a nonce that was used before.                                           *)
THEOREM NoncesCorrect == Spec => []NoncesUnique
<1>1. IInv => NoncesUnique
  <2> SUFFICES ASSUME IInv, NEW u \in used, NEW v \in used, u.nonce = v.nonce PROVE u = v
    BY DEF NoncesUnique
  <2>1. (u \in Outside \/ Numbered(u)) /\ (v \in Outside \/ Numbered(v))
    BY DEF IInv, Behind
  <2>2. at \in 0 .. BlockSpace - 1 /\ FieldSpace \in Nat /\ BlockSpace \in Nat
    BY BlockTypes, CipherAssumption DEF IInv
  <2>3. ASSUME NEW w, Numbered(w)
        PROVE  /\ w.block \in 0 .. BlockSpace - 1 /\ w.place - 1 \in 0 .. FieldSpace - 1 /\ w.place \in Int
               /\ w.nonce = BlockFieldNonce(w.block, w.place - 1)
    BY <2>2, <2>3 DEF Numbered
  <2>4. ASSUME NEW w, Numbered(w) PROVE w.nonce \notin {ReferenceAlphabetNonce, HashNonce}
    BY <2>3, <2>4, NoncesDistinct
  <2>5. CASE Numbered(u) /\ Numbered(v)
    <3>1. u.block = v.block /\ u.place - 1 = v.place - 1
      BY <2>3, <2>5, NoncesDistinct
    <3>2. u.place = v.place
      BY <2>3, <2>5, <3>1
    <3> QED BY <3>1, <3>2 DEF IInv, Once
  <2>6. \A w \in Outside : w.nonce \in {ReferenceAlphabetNonce, HashNonce}
    BY DEF Outside, Encryption
  <2>7. CASE u \in Outside /\ v \in Outside
    <3>1. 0 \in 0 .. BlockSpace - 1 /\ 0 \in 0 .. FieldSpace - 1
      BY CipherAssumption
    <3>2. ReferenceAlphabetNonce # HashNonce
      BY <3>1, NoncesDistinct
    <3> QED BY <2>7, <3>2 DEF Outside, Encryption
  <2> QED BY <2>1, <2>4, <2>5, <2>6, <2>7
<1> QED BY <1>1, Invariance, PTL

(* compressor.go 284 to 349: the universe a rank is taken in is what the   *)
(* values before it left, and the value has room there.                    *)
THEOREM RoomCorrect == Spec => []RoomForEach
<1>1. IInv => RoomForEach
  <2> SUFFICES ASSUME IInv, pc = "symbols"
               PROVE  /\ removed = {x \in 0 .. n - 1 : \E i \in 1 .. sent : block[x + 1] = OwnSymbols[i]}
                      /\ room = n - Cardinality(removed)
                      /\ \A i \in sent + 1 .. Len(OwnSymbols) : Count(OwnSymbols[i]) \in 1 .. room
    BY TallyTells DEF RoomForEach, IInv
  <2>1. /\ removed = {x \in 0 .. n - 1 : \E i \in 1 .. sent : block[x + 1] = OwnSymbols[i]}
        /\ room = n - Cardinality(removed) /\ sent \in 0 .. Len(OwnSymbols) - 1
    BY DEF IInv, Sending
  <2>2. sent \in 0 .. Len(OwnSymbols) /\ n \in Nat
    BY <2>1, SymbolsEnumerate, BlockTypes DEF IInv
  <2>3. ASSUME NEW i \in sent + 1 .. Len(OwnSymbols)
        PROVE  /\ Cardinality(removed) \in 0 .. n
               /\ Cardinality(removed) + Count(OwnSymbols[i]) <= n /\ Count(OwnSymbols[i]) \in Nat \ {0}
    BY <2>1, <2>2, RoomOfTheRest DEF IInv
  <2>4. ASSUME NEW i \in sent + 1 .. Len(OwnSymbols) PROVE Count(OwnSymbols[i]) \in 1 .. room
    <3>1. room = n - Cardinality(removed)
      BY <2>1
    <3> HIDE DEF n
    <3> QED BY <2>2, <2>3, <3>1
  <2> QED BY <2>1, <2>4
<1> QED BY <1>1, Invariance, PTL

(* decompressor.go 176 to 229: with any key, a position is written at most *)
(* once for a block, and none beyond its end.                              *)
THEOREM StaysCorrect == Spec => StaysInBlock
<1>1. IInv /\ [Next]_vars => [\A x \in DOMAIN result : result'[x] # result[x] => x < n /\ x \in left \ left']_vars
  BY DecoderStays
<1> QED BY <1>1, Invariance, PTL DEF Spec, StaysInBlock

-----------------------------------------------------------------------------
(* The reference alphabet, encrypted as a number.                          *)

(* main.go: the bits of the reference alphabet make a number that has one  *)
(* for each value, and for nothing else.                                   *)
LEMMA AlphabetNumberLaw ==
  ASSUME NEW S \in SUBSET Bytes
  PROVE  /\ AlphabetNumber(S) \in Nat /\ AlphabetNumber(S) < 2^(2^ByteBits)
         /\ \A v \in Bytes : Upper(AlphabetNumber(S), v) % 2 = IF v \in S THEN 1 ELSE 0
<1> DEFINE l == 2^ByteBits
           f == CHOOSE f : f = [u \in 0 .. l |-> IF u = 0 THEN 0 ELSE f[u - 1] + IF u - 1 \in S THEN 2^(u - 1) ELSE 0]
           V == [u \in 0 .. l |-> Nat]
           G == [u \in 1 .. l |-> [v \in Nat |-> v + IF u - 1 \in S THEN 2^(u - 1) ELSE 0]]
<1>1. l \in Nat \ {0} /\ Bytes = 0 .. l - 1
  BY ByteTypes
<1>2. AlphabetNumber(S) = f[l]
  BY DEF AlphabetNumber
<1> HIDE DEF l
<1>3. \A u \in 0 .. l - 1 : 2^u \in Nat
  BY <1>1, PowerPositive
<1>4. PICK g : Follows(g, 0, l, 0, G) /\ \A u \in 0 .. l : g[u] \in V[u]
  <2>1. 0 \in Int /\ l \in Int /\ 0 \in V[0]
    BY <1>1
  <2>2. ASSUME NEW u \in 0 + 1 .. l, NEW v \in V[u - 1] PROVE G[u][v] \in V[u]
    <3>1. u \in 1 .. l /\ u - 1 \in 0 .. l - 1 /\ u - 1 \in 0 .. l /\ u \in 0 .. l
      BY <1>1
    <3>2. v \in Nat
      BY <3>1
    <3>3. G[u][v] = v + IF u - 1 \in S THEN 2^(u - 1) ELSE 0
      BY <3>1, <3>2
    <3>4. 2^(u - 1) \in Nat
      BY <1>3, <3>1
    <3> HIDE DEF G
    <3> QED BY <3>1, <3>2, <3>3, <3>4
  <2> HIDE DEF V, G
  <2> QED BY <2>1, <2>2, Recursion
<1>5. g = [u \in 0 .. l |-> IF u = 0 THEN 0 ELSE g[u - 1] + IF u - 1 \in S THEN 2^(u - 1) ELSE 0]
  <2>1. ASSUME NEW u \in 0 .. l, u # 0 PROVE G[u][g[u - 1]] = g[u - 1] + IF u - 1 \in S THEN 2^(u - 1) ELSE 0
    <3>1. u \in 1 .. l /\ u - 1 \in 0 .. l
      BY <1>1, <2>1
    <3>2. g[u - 1] \in Nat
      BY <1>4, <3>1
    <3> QED BY <3>1, <3>2
  <2> HIDE DEF G
  <2> QED BY <1>4, <2>1 DEF Follows
<1>6. f = [u \in 0 .. l |-> IF u = 0 THEN 0 ELSE f[u - 1] + IF u - 1 \in S THEN 2^(u - 1) ELSE 0]
  BY <1>5
<1> HIDE DEF f, V, G
<1> DEFINE T == {u \in 0 .. l : /\ f[u] \in Nat /\ f[u] < 2^u
                                /\ \A v \in 0 .. u - 1 : Upper(f[u], v) % 2 = IF v \in S THEN 1 ELSE 0}
<1>7. 0 \in T
  <2>1. 0 \in 0 .. l /\ f[0] = 0 /\ 2^0 = 1 /\ 0 .. 0 - 1 = {}
    BY <1>1, <1>6
  <2> QED BY <2>1
<1>8. ASSUME NEW u \in 0 .. l - 1, u \in T PROVE u + 1 \in T
  <2> DEFINE a == IF u \in S THEN 1 ELSE 0
             x == f[u]
             y == f[u + 1]
  <2>1. u \in Nat /\ u + 1 \in 0 .. l /\ u + 1 # 0 /\ (u + 1) - 1 = u /\ u \in 0 .. l
    BY <1>1
  <2>2. /\ x \in Nat /\ x < 2^u
        /\ \A v \in 0 .. u - 1 : Upper(x, v) % 2 = IF v \in S THEN 1 ELSE 0
    BY <1>8
  <2>3. y = x + IF u \in S THEN 2^u ELSE 0
    BY <1>6, <2>1
  <2>4. a \in {0, 1} /\ 2^u \in Nat /\ y = a * 2^u + x
    <3>1. 2^u \in Nat
      BY <1>3
    <3> QED BY <2>2, <2>3, <3>1
  <2> HIDE DEF a, x, y
  <2>5. Upper(y, u) = a /\ Lower(y, u) = x
    <3> DEFINE d == 2^u
    <3>1. d \in Nat \ {0}
      BY <2>1, PowerPositive
    <3>2. x \in 0 .. d - 1 /\ a \in Nat /\ y = d * a + x
      BY <2>2, <2>4, <3>1
    <3> HIDE DEF d
    <3>3. (d * a + x) \div d = a /\ (d * a + x) % d = x
      BY <3>1, <3>2, DivisionUnique
    <3> QED BY <3>2, <3>3 DEF Upper, Lower, d
  <2>6. y \in Nat /\ y < 2^(u + 1)
    <3>1. 2^(u + 1) = 2 * 2^u
      BY <2>1, PowerStep
    <3> DEFINE d == 2^u
    <3>2. d \in Nat /\ x < d /\ y = a * d + x
      BY <2>2, <2>4
    <3> HIDE DEF d
    <3>3. y \in Nat /\ y < 2 * d
      <4>1. CASE a = 0
        BY <2>2, <3>2, <4>1
      <4>2. CASE a = 1
        BY <2>2, <3>2, <4>2
      <4> QED BY <2>4, <4>1, <4>2
    <3> QED BY <3>1, <3>3 DEF d
  <2>7. ASSUME NEW v \in 0 .. u PROVE Upper(y, v) % 2 = IF v \in S THEN 1 ELSE 0
    <3>1. CASE v = u
      BY <2>4, <2>5, <3>1 DEF a
    <3>2. CASE v # u
      <4>1. v \in 0 .. u - 1
        BY <2>1, <3>2
      <4>2. Upper(Lower(y, u), v) % 2 = Upper(y, v) % 2
        BY <2>1, <2>6, <4>1, LowerBits
      <4> QED BY <2>2, <2>5, <4>1, <4>2
    <3> QED BY <3>1, <3>2
  <2>8. (u + 1) - 1 = u
    BY <2>1
  <2> QED BY <2>1, <2>6, <2>7, <2>8 DEF y
<1>9. 0 .. l \subseteq T
  <2> HIDE DEF T
  <2>1. 0 \in Int /\ l \in Int
    BY <1>1
  <2> QED BY <1>7, <1>8, <2>1, Induction
<1>10. l \in T
  <2>1. l \in 0 .. l
    BY <1>1
  <2> QED BY <1>9, <2>1
<1>11. f[l] \in Nat /\ f[l] < 2^l /\ \A v \in 0 .. l - 1 : Upper(f[l], v) % 2 = IF v \in S THEN 1 ELSE 0
  BY <1>10
<1> QED BY <1>1, <1>2, <1>11 DEF l

(* So is that of the reference alphabet.                                   *)
LEMMA AlphabetDigests ==
  ASSUME NEW k \in Keys
  PROVE  DigestBytesOnly(k, ReferenceAlphabetNonce)
<1>1. ReferenceAlphabetNonce \in 0 .. HashNonce
  <2> DEFINE p == BlockSpace * FieldSpace
  <2>1. BlockSpace \in Nat /\ FieldSpace \in Nat
    BY CipherAssumption
  <2>2. p \in Nat /\ 2 * BlockSpace * FieldSpace = 2 * p
    BY <2>1
  <2> HIDE DEF p
  <2>3. p \in 0 .. 2 * p
    BY <2>2
  <2> QED BY <2>2, <2>3 DEF ReferenceAlphabetNonce, HashNonce, p
<1> QED BY <1>1, CodecAssumption DEF DigestBytesOnly

(* cipher.go, DecryptBytesField: "inverts EncryptBytesField", here for the *)
(* reference alphabet, which the decoder then finds in the bits.           *)
LEMMA AlphabetRoundTrip ==
  ASSUME NEW S \in SUBSET Bytes, NEW fileKey, NEW nonce, DigestBytesOnly(fileKey, nonce)
  PROVE  AlphabetIn(DecryptBytesField(EncryptBytesField(AlphabetBytes(S), fileKey, nonce), fileKey, nonce)) = S
<1> DEFINE x == AlphabetNumber(S)
           l == BytesFor(2^ByteBits)
           t == ByteBits * l
           m == 2^t
           c == EncryptRank(x, m, fileKey, nonce)
<1>1. x \in Nat /\ x < 2^(2^ByteBits) /\ 2^ByteBits \in Nat
  BY AlphabetNumberLaw, ByteTypes
<1>2. l \in Nat /\ 2^ByteBits <= t /\ t \in Nat
  <2>1. l \in Nat /\ 2^ByteBits <= t
    BY <1>1, BytesForHolds
  <2> QED BY <2>1, ByteTypes
<1>3. m \in Nat \ {0} /\ x \in 0 .. m - 1
  <2> DEFINE e == 2^ByteBits
  <2>1. e \in Nat /\ e <= t /\ x \in Nat /\ x < 2^e
    BY <1>1, <1>2
  <2> HIDE DEF e, t, x
  <2>2. 2^e <= 2^t /\ 2^t \in Nat \ {0} /\ 2^e \in Nat
    BY <1>2, <2>1, PowerGrows, PowerPositive
  <2> QED BY <2>1, <2>2 DEF t
<1> HIDE DEF x, m
<1>4. c \in 0 .. m - 1 /\ DecryptRank(c, m, fileKey, nonce) = x
  BY <1>3, RankCipherInverts
<1> HIDE DEF c
<1>5. ASSUME NEW v \in 0 .. m - 1
      PROVE  BytesOf(v, l) \in Seq(Bytes) /\ Len(BytesOf(v, l)) = l /\ NumberOf(BytesOf(v, l)) = v
  <2>1. v \in Nat /\ v < 2^t
    BY <1>3 DEF m
  <2> HIDE DEF l
  <2> QED BY <1>2, <2>1, BytesOfLaw
<1>6. AlphabetBytes(S) = BytesOf(x, l)
  BY DEF AlphabetBytes, x
<1> HIDE DEF l
<1>7. EncryptBytesField(AlphabetBytes(S), fileKey, nonce) = BytesOf(c, l)
  <2>1. Len(BytesOf(x, l)) = l /\ NumberOf(BytesOf(x, l)) = x
    BY <1>3, <1>5
  <2> QED BY <1>6, <2>1 DEF EncryptBytesField, c, m
<1>8. DecryptBytesField(BytesOf(c, l), fileKey, nonce) = BytesOf(x, l)
  <2>1. Len(BytesOf(c, l)) = l /\ NumberOf(BytesOf(c, l)) = c
    BY <1>4, <1>5
  <2> QED BY <1>4, <2>1 DEF DecryptBytesField, m
<1>9. AlphabetIn(BytesOf(x, l)) = S
  <2>1. NumberOf(BytesOf(x, l)) = x
    BY <1>3, <1>5
  <2>2. \A v \in Bytes : Upper(x, v) % 2 = IF v \in S THEN 1 ELSE 0
    BY AlphabetNumberLaw DEF x
  <2>3. AlphabetIn(BytesOf(x, l)) = {v \in Bytes : Upper(x, v) % 2 = 1}
    BY <2>1 DEF AlphabetIn, Upper
  <2> QED BY <2>2, <2>3
<1> QED BY <1>7, <1>8, <1>9

-----------------------------------------------------------------------------
(* The second inductive invariant: the encoder writes what is read again.  *)

(* A field as it is given to the writer.                                   *)
FieldRecords == [val : Nat, width : Nat, modulus : Nat, index : Nat, rank : BOOLEAN]

(* The positions of the first values of the block.                         *)
Gone(j) == {x \in 0 .. n - 1 : \E i \in 1 .. j : block[x + 1] = OwnSymbols[i]}

(* What is sent for the fields of a block.                                 *)
SentHeader(x) == Sent(OwnHeader[x])

SentSymbol(j, y) == Sent(OwnFields(j, Gone(j), n - Cardinality(Gone(j)))[y])

(* out holds the header and the fields of the first k values.              *)
Encoded(k) ==
  /\ out \in Seq(FieldRecords) /\ Len(out) = 4 + 2 * k
  /\ \A x \in 1 .. 4 : out[x] = SentHeader(x)
  /\ \A j \in 0 .. k - 1, y \in 1 .. 2 : out[4 + 2 * j + y] = SentSymbol(j, y)

(* Bits hold the fields, and data does, one after the other.               *)
InBits(bits, f, pos) == Slice(bits, pos, f.width) = BitsOf(f.val, f.width)

PackedTo(bits, fields, m) ==
  /\ Len(bits) = Ends(fields)[m]
  /\ \A x \in 1 .. m : InBits(bits, fields[x], Ends(fields)[x - 1])

Carries(bits, fields) ==
  \A x \in 1 .. Len(fields) :
    Ends(fields)[x] <= Len(bits) /\ InBits(bits, fields[x], Ends(fields)[x - 1])

(* Every field that was given to the writer fits in its width.             *)
Fitting == out \in Seq(FieldRecords) /\ \A x \in 1 .. Len(out) : out[x].val < 2^out[x].width

(* While a block is encoded, the writer holds the fields so far, one after *)
(* the other.                                                              *)
Encoding ==
  pc = "symbols" => Encoded(sent) /\ Sound(writer) /\ PackedTo(Held(writer), out, Len(out))

(* While it is decoded, the packed bytes hold all of them.                 *)
Carried ==
  pc \notin {"encode", "symbols"} =>
    Encoded(Len(OwnSymbols) - 1) /\ data \in Seq(Bytes) /\ Carries(Unpacked(data), out)

(* The output slice keeps its length, and the pooled bitsets have room for *)
(* the block.                                                              *)
Memory ==
  /\ DOMAIN result = 0 .. MaxBlock - 1 /\ size \in Nat
  /\ pc = "rehydrate" => size >= n

(* A decoder with the right key has the encoder's reference alphabet, and  *)
(* never stops.                                                            *)
Agreed ==
  /\ mode \in {"clear", "query", "full"} /\ key \in Keys /\ reference \in SUBSET Bytes
  /\ key = "right" => seen = reference /\ pc \notin {"refused", "panic"}

(* It has read exactly the fields of the values that are done; their       *)
(* positions hold them, and the others are free.                           *)
Following ==
  key = "right" /\ pc = "rehydrate" =>
    /\ got \in 0 .. Len(OwnSymbols) - 1 /\ keys = OwnSymbols /\ kBits = OwnCountBits
    /\ left = (0 .. n - 1) \ Gone(got) /\ vacant = n - Cardinality(Gone(got))
    /\ read = Ends(out)[4 + 2 * got]
    /\ \A x \in Gone(got) : result[x] = block[x + 1]

(* At the end all positions hold their values, and all that was written    *)
(* has been read.                                                          *)
Lossless ==
  key = "right" /\ pc = "done" =>
    /\ \A x \in 0 .. n - 1 : result[x] = block[x + 1]
    /\ read = Ends(out)[Len(out)]

(* The two sides together: this is inductive with IInv.                    *)
CInv == Fitting /\ Encoding /\ Carried /\ Memory /\ Agreed /\ Following /\ Lossless

-----------------------------------------------------------------------------
(* Where fields end, and what bits hold them.                              *)

(* Where fields end.                                                       *)
EndPositions(e, s) ==
  /\ e[0] = 0 /\ \A x \in 0 .. Len(s) : e[x] \in Nat
  /\ \A x \in 1 .. Len(s) : e[x] = e[x - 1] + s[x].width

(* The fields of a sequence.                                               *)
LEMMA FieldTypes ==
  ASSUME NEW s \in Seq(FieldRecords)
  PROVE  /\ Len(s) \in Nat
         /\ \A x \in 1 .. Len(s) : s[x] \in FieldRecords /\ s[x].width \in Nat /\ s[x].val \in Nat
<1>1. Len(s) \in Nat /\ \A x \in 1 .. Len(s) : s[x] \in FieldRecords
  BY ElementOfSeq
<1> QED BY <1>1 DEF FieldRecords

(* A field ends its width after the one before.                            *)
LEMMA EndsLaw ==
  ASSUME NEW s \in Seq(FieldRecords)
  PROVE  EndPositions(Ends(s), s)
<1> DEFINE l == Len(s)
           f == CHOOSE f : f = [x \in 0 .. l |-> IF x = 0 THEN 0 ELSE f[x - 1] + s[x].width]
           V == [x \in 0 .. l |-> Nat]
           G == [x \in 1 .. l |-> [v \in Nat |-> v + s[x].width]]
<1>1. l \in Nat /\ \A x \in 1 .. l : s[x].width \in Nat
  BY FieldTypes
<1>2. Ends(s) = f
  BY DEF Ends
<1> HIDE DEF l
<1>3. PICK g : Follows(g, 0, l, 0, G) /\ \A x \in 0 .. l : g[x] \in V[x]
  <2>1. 0 \in Int /\ l \in Int /\ 0 \in V[0]
    BY <1>1
  <2>2. ASSUME NEW x \in 0 + 1 .. l, NEW v \in V[x - 1] PROVE G[x][v] \in V[x]
    <3>1. x \in 1 .. l /\ x - 1 \in 0 .. l /\ x \in 0 .. l
      BY <1>1
    <3>2. v \in Nat
      BY <3>1
    <3>3. G[x][v] = v + s[x].width /\ s[x].width \in Nat
      BY <1>1, <3>1, <3>2
    <3> HIDE DEF G
    <3> QED BY <3>1, <3>2, <3>3
  <2> HIDE DEF V, G
  <2> QED BY <2>1, <2>2, Recursion
<1>4. g = [x \in 0 .. l |-> IF x = 0 THEN 0 ELSE g[x - 1] + s[x].width]
  <2>1. ASSUME NEW x \in 0 .. l, x # 0 PROVE G[x][g[x - 1]] = g[x - 1] + s[x].width
    <3>1. x \in 1 .. l /\ x - 1 \in 0 .. l
      BY <1>1, <2>1
    <3>2. g[x - 1] \in Nat
      BY <1>3, <3>1
    <3> QED BY <3>1, <3>2
  <2> HIDE DEF G
  <2> QED BY <1>3, <2>1 DEF Follows
<1>5. f = [x \in 0 .. l |-> IF x = 0 THEN 0 ELSE f[x - 1] + s[x].width]
  BY <1>4
<1> HIDE DEF f, V, G
<1> DEFINE T == {x \in 0 .. l : f[x] \in Nat}
<1>6. f[0] = 0 /\ 0 \in T
  <2>1. 0 \in 0 .. l
    BY <1>1
  <2> QED BY <1>5, <2>1
<1>7. \A x \in 1 .. l : f[x] = f[x - 1] + s[x].width
  <2>1. \A x \in 1 .. l : x \in 0 .. l /\ x # 0
    BY <1>1
  <2> QED BY <1>5, <2>1
<1>8. ASSUME NEW x \in 0 .. l - 1, x \in T PROVE x + 1 \in T
  <2>1. x + 1 \in 1 .. l /\ x + 1 \in 0 .. l /\ (x + 1) - 1 = x
    BY <1>1
  <2>2. f[x + 1] = f[x] + s[x + 1].width /\ s[x + 1].width \in Nat /\ f[x] \in Nat
    BY <1>1, <1>7, <1>8, <2>1
  <2> QED BY <2>1, <2>2
<1>9. 0 .. l \subseteq T
  <2> HIDE DEF T
  <2>1. 0 \in Int /\ l \in Int
    BY <1>1
  <2> QED BY <1>6, <1>8, <2>1, Induction
<1>a. \A x \in 0 .. l : f[x] \in Nat
  BY <1>9
<1> QED BY <1>2, <1>6, <1>7, <1>a DEF EndPositions, l

(* They do so in order, ...                                                *)
LEMMA EndsGrow ==
  ASSUME NEW s \in Seq(FieldRecords), NEW x \in 0 .. Len(s), NEW y \in x .. Len(s)
  PROVE  Ends(s)[x] \in Nat /\ Ends(s)[y] \in Nat /\ Ends(s)[x] <= Ends(s)[y]
<1> DEFINE e == Ends(s)
           l == Len(s)
           T == {z \in x .. l : e[x] <= e[z]}
<1>1. l \in Nat /\ EndPositions(e, s) /\ \A z \in 1 .. l : s[z].width \in Nat
  BY EndsLaw, FieldTypes
<1>2. x \in Nat /\ x <= l /\ y \in x .. l
  BY <1>1
<1> HIDE DEF e, l
<1>3. e[x] \in Nat
  BY <1>1, <1>2 DEF EndPositions, l
<1>4. x \in T
  BY <1>2, <1>3
<1>5. ASSUME NEW z \in x .. l - 1, z \in T PROVE z + 1 \in T
  <2>1. z \in 0 .. l /\ z + 1 \in 1 .. l /\ z + 1 \in x .. l /\ (z + 1) - 1 = z
    BY <1>1, <1>2
  <2>2. e[z] \in Nat /\ s[z + 1].width \in Nat /\ e[z + 1] = e[z] + s[z + 1].width
    BY <1>1, <2>1 DEF EndPositions, l
  <2>3. e[x] <= e[z]
    BY <1>5
  <2> QED BY <1>3, <2>1, <2>2, <2>3
<1>6. x .. l \subseteq T
  <2> HIDE DEF T
  <2>1. x \in Int /\ l \in Int
    BY <1>1, <1>2
  <2> QED BY <1>4, <1>5, <2>1, Induction
<1>7. y \in T /\ y \in 0 .. l
  BY <1>2, <1>6
<1>8. e[y] \in Nat
  BY <1>1, <1>7 DEF EndPositions, l
<1> QED BY <1>3, <1>7, <1>8 DEF e

(* ... and where they do depends on no later fields.                       *)
LEMMA EndsAgree ==
  ASSUME NEW s \in Seq(FieldRecords), NEW t \in Seq(FieldRecords), NEW m \in Nat,
         m <= Len(s), m <= Len(t), \A x \in 1 .. m : t[x] = s[x]
  PROVE  \A x \in 0 .. m : Ends(t)[x] = Ends(s)[x]
<1> DEFINE e == Ends(s)
           f == Ends(t)
           T == {x \in 0 .. m : f[x] = e[x]}
<1>1. EndPositions(e, s) /\ EndPositions(f, t) /\ Len(s) \in Nat /\ Len(t) \in Nat
  BY EndsLaw
<1> HIDE DEF e, f
<1>2. 0 \in T
  BY <1>1 DEF EndPositions
<1>3. ASSUME NEW x \in 0 .. m - 1, x \in T PROVE x + 1 \in T
  <2>1. x + 1 \in 1 .. m /\ x + 1 \in 1 .. Len(s) /\ x + 1 \in 1 .. Len(t) /\ (x + 1) - 1 = x /\ x + 1 \in 0 .. m
    BY <1>1
  <2>2. e[x + 1] = e[x] + s[x + 1].width
    BY <1>1, <2>1 DEF EndPositions
  <2>3. f[x + 1] = f[x] + t[x + 1].width
    BY <1>1, <2>1 DEF EndPositions
  <2>4. t[x + 1] = s[x + 1]
    BY <2>1
  <2> QED BY <1>3, <2>1, <2>2, <2>3, <2>4
<1>4. 0 .. m \subseteq T
  <2> HIDE DEF T
  <2>1. 0 \in Int /\ m \in Int
    OBVIOUS
  <2> QED BY <1>2, <1>3, <2>1, Induction
<1> QED BY <1>4 DEF e, f

(* More bits change no slice of the ones before, and come after them.      *)
LEMMA SliceKept ==
  ASSUME NEW bits \in Seq(Bit), NEW more \in Seq(Bit), NEW pos \in Nat, NEW m \in Nat, pos + m <= Len(bits)
  PROVE  Slice(Joined(bits, more), pos, m) = Slice(bits, pos, m)
<1>1. ASSUME NEW b \in 1 .. m PROVE Joined(bits, more)[pos + b] = bits[pos + b]
  <2>1. pos + b \in 1 .. Len(bits) + Len(more) /\ pos + b <= Len(bits)
    OBVIOUS
  <2> QED BY <2>1, JoinedAt
<1> QED BY <1>1 DEF Slice

(* The new bits are the slice after the old ones.                          *)
LEMMA SliceAfter ==
  ASSUME NEW bits \in Seq(Bit), NEW more \in Seq(Bit)
  PROVE  Slice(Joined(bits, more), Len(bits), Len(more)) = more
<1>1. Len(bits) \in Nat /\ Len(more) \in Nat /\ more = [b \in 1 .. Len(more) |-> more[b]]
  OBVIOUS
<1>2. ASSUME NEW b \in 1 .. Len(more) PROVE Joined(bits, more)[Len(bits) + b] = more[b]
  <2>1. Len(bits) + b \in 1 .. Len(bits) + Len(more) /\ ~(Len(bits) + b <= Len(bits)) /\ (Len(bits) + b) - Len(bits) = b
    BY <1>1
  <2> QED BY <2>1, JoinedAt
<1> QED BY <1>1, <1>2 DEF Slice

(* One field more.                                                         *)
LEMMA PackedMore ==
  ASSUME NEW t \in Seq(FieldRecords), NEW m \in 0 .. Len(t) - 1, NEW bits \in Seq(Bit), PackedTo(bits, t, m)
  PROVE  PackedTo(Joined(bits, BitsOf(t[m + 1].val, t[m + 1].width)), t, m + 1)
<1> DEFINE e == Ends(t)
           f == t[m + 1]
           more == BitsOf(f.val, f.width)
           all == Joined(bits, more)
<1>1. m \in Nat /\ m + 1 \in 1 .. Len(t) /\ m \in 0 .. Len(t) /\ (m + 1) - 1 = m /\ Len(t) \in Nat
  OBVIOUS
<1>2. f.val \in Nat /\ f.width \in Nat
  BY <1>1, FieldTypes
<1>3. e[m] \in Nat /\ e[m + 1] = e[m] + f.width
  BY <1>1, EndsLaw DEF EndPositions
<1> HIDE DEF f
<1>4. more \in Seq(Bit) /\ Len(more) = f.width
  BY <1>2, BitsTypes
<1> HIDE DEF more
<1>5. Len(all) = e[m + 1] /\ Len(bits) = e[m]
  <2>1. Len(bits) = e[m]
    BY DEF PackedTo
  <2>2. Len(all) = Len(bits) + Len(more)
    BY <1>4, JoinedLaw
  <2> HIDE DEF e
  <2> QED BY <1>3, <1>4, <2>1, <2>2
<1>6. ASSUME NEW x \in 1 .. m PROVE InBits(all, t[x], e[x - 1])
  <2>1. x \in 1 .. Len(t) /\ x - 1 \in 0 .. Len(t) /\ m \in x .. Len(t) /\ x \in 0 .. Len(t)
    BY <1>1
  <2>2. e[x - 1] \in Nat /\ e[x] = e[x - 1] + t[x].width /\ t[x].width \in Nat
    BY <2>1, EndsLaw, FieldTypes DEF EndPositions
  <2>3. e[x] <= e[m]
    BY <2>1, EndsGrow
  <2>4. InBits(bits, t[x], e[x - 1])
    BY DEF PackedTo
  <2> HIDE DEF e
  <2>5. e[x - 1] + t[x].width <= Len(bits)
    BY <1>5, <2>2, <2>3
  <2>6. Slice(all, e[x - 1], t[x].width) = Slice(bits, e[x - 1], t[x].width)
    BY <1>4, <2>2, <2>5, SliceKept
  <2> QED BY <2>4, <2>6 DEF InBits
<1>7. InBits(all, f, e[m])
  BY <1>4, <1>5, SliceAfter DEF InBits, more
<1>8. ASSUME NEW x \in 1 .. m + 1 PROVE InBits(all, t[x], e[x - 1])
  <2>1. CASE x = m + 1
    BY <1>1, <1>7, <2>1 DEF f
  <2>2. CASE x # m + 1
    <3>1. x \in 1 .. m
      BY <1>1, <2>2
    <3> QED BY <1>6, <3>1
  <2> QED BY <2>1, <2>2
<1> QED BY <1>5, <1>8 DEF PackedTo, more, f

-----------------------------------------------------------------------------
(* A field: encrypted, written and read.                                   *)

(* The fields of a block are numbers below their moduli, which fit in the  *)
(* bits given to them.                                                     *)
GoodField(f) ==
  /\ f \in FieldRecords /\ f.modulus # 0 /\ f.val < f.modulus /\ f.modulus <= 2^f.width
  /\ ~f.rank => f.width <= MaxWidth
  /\ f.index < FieldSpace

(* Such a field can be written.                                            *)
Writable(f) == f \in FieldRecords /\ f.val < 2^f.width /\ (~f.rank => f.width <= MaxWidth)

(* What the decoder makes of the number it reads.                          *)
Taken(val, modulus, index, rank) ==
  LET nonce == BlockFieldNonce(at, index)
      plain == IF rank THEN DecryptRank(val, modulus, key, nonce) ELSE DecryptUint(val, modulus, key, nonce)
  IN IF Ciphered(rank) THEN plain ELSE val

(* Every nonce of a block is one that a digest is known for.               *)
LEMMA BlockDigests ==
  ASSUME Source, NEW f \in Nat, f < FieldSpace, NEW k \in Keys
  PROVE  DigestBytesOnly(k, BlockFieldNonce(at, f))
<1> DEFINE b == BlockSpace
           s == FieldSpace
<1>1. at \in 0 .. b - 1 /\ b \in Nat \ {0} /\ s \in Nat \ {0}
  BY BlockTypes, CipherAssumption
<1> HIDE DEF b, s
<1>2. at * s \in Nat /\ at * s + s <= 2 * b * s
  <2>1. at \in Nat /\ at + 1 \in Nat /\ at + 1 <= b
    BY <1>1
  <2>2. (at + 1) * s <= b * s /\ b * s \in Nat
    BY <1>1, <2>1, ProductGrows
  <2>3. (at + 1) * s = at * s + s /\ at * s \in Nat
    BY <1>1, <2>1
  <2>4. 2 * b * s = b * s + b * s
    BY <1>1
  <2> DEFINE p == at * s
             q == b * s
             r == (at + 1) * s
  <2>5. p \in Nat /\ q \in Nat /\ r = p + s /\ r <= q
    BY <2>2, <2>3
  <2> HIDE DEF p, q, r
  <2>6. p + s <= q + q
    BY <1>1, <2>5
  <2> QED BY <2>4, <2>5, <2>6 DEF p, q
<1>3. BlockFieldNonce(at, f) = at * s + f
  BY DEF BlockFieldNonce, s
<1>4. at * s + f \in 0 .. 2 * b * s
  <2> DEFINE p == at * s
             q == 2 * b * s
  <2>1. p \in Nat /\ p + s <= q /\ f < s /\ q \in Nat
    BY <1>1, <1>2 DEF s
  <2> HIDE DEF p, q
  <2>2. p + f \in 0 .. q
    BY <1>1, <2>1
  <2> QED BY <2>2 DEF p, q
<1>5. BlockFieldNonce(at, f) \in 0 .. HashNonce
  BY <1>3, <1>4 DEF HashNonce, b, s
<1> QED BY <1>5, CodecAssumption DEF DigestBytesOnly

(* A word holds twice the modulus of any field that WriteBits takes.       *)
LEMMA ModulusInWord ==
  ASSUME NEW width \in Nat, width <= MaxWidth, NEW modulus \in Nat, modulus <= 2^width
  PROVE  Word \in Nat /\ 2 * modulus <= Word
<1>1. AccBits \in Nat /\ width + 1 <= AccBits
  BY BitAssumption DEF MaxWidth
<1>2. 2^(width + 1) = 2 * 2^width /\ 2^width \in Nat /\ 2^AccBits \in Nat
  BY <1>1, PowerStep, PowerPositive
<1>3. 2^(width + 1) <= 2^AccBits
  <2>1. width + 1 \in Nat
    OBVIOUS
  <2> QED BY <1>1, <2>1, PowerGrows
<1> DEFINE d == 2^width
           w == 2^AccBits
<1>4. d \in Nat /\ w \in Nat /\ 2 * d <= w /\ modulus <= d
  BY <1>2, <1>3
<1> HIDE DEF d, w
<1>5. 2 * modulus <= w
  BY <1>4
<1> QED BY <1>4, <1>5 DEF Word, w

(* It is sent as a number that fits, and the decoder with the right key    *)
(* gets it back.                                                           *)
LEMMA SentLaw ==
  ASSUME Source, NEW f, GoodField(f)
  PROVE  /\ Writable(Sent(f))
         /\ Sent(f).width = f.width /\ Sent(f).rank = f.rank
         /\ key = "right" => Taken(Sent(f).val, f.modulus, f.index, f.rank) = f.val
<1> DEFINE m == f.modulus
           nonce == BlockFieldNonce(at, f.index)
           e == IF f.rank THEN EncryptRank(f.val, m, "right", nonce)
                ELSE EncryptUint(f.val, m, "right", nonce)
           c == IF Ciphered(f.rank) THEN e ELSE f.val
<1>1. /\ m \in Nat \ {0} /\ f.val \in 0 .. m - 1 /\ f.width \in Nat /\ m <= 2^f.width
      /\ f.rank \in BOOLEAN /\ (~f.rank => f.width <= MaxWidth) /\ f.index \in Nat /\ f.index < FieldSpace
  BY DEF GoodField, FieldRecords
<1>2. DigestBytesOnly("right", nonce)
  <2>1. "right" \in Keys
    BY CodecAssumption
  <2> QED BY <1>1, <2>1, BlockDigests
<1>3. Sent(f) = IF Ciphered(f.rank) THEN [f EXCEPT !.val = e] ELSE f
  BY DEF Sent
<1> HIDE DEF m, nonce
<1>4. f.rank => /\ EncryptRank(f.val, m, "right", nonce) \in 0 .. m - 1
                /\ DecryptRank(EncryptRank(f.val, m, "right", nonce), m, "right", nonce) = f.val
  BY <1>1, <1>2, RankCipherInverts
<1>5. ~f.rank => /\ EncryptUint(f.val, m, "right", nonce) \in 0 .. m - 1
                 /\ DecryptUint(EncryptUint(f.val, m, "right", nonce), m, "right", nonce) = f.val
  <2>1. ASSUME ~f.rank PROVE Word \in Nat /\ 2 * m <= Word
    BY <1>1, <2>1, ModulusInWord
  <2> QED BY <1>1, <1>2, <2>1, UintCipherInverts
<1>6. c \in 0 .. m - 1
  BY <1>1, <1>4, <1>5
<1>7. key = "right" => Taken(c, m, f.index, f.rank) = f.val
  <2>1. CASE ~Ciphered(f.rank)
    <3>1. c = f.val /\ Taken(c, m, f.index, f.rank) = c
      BY <2>1 DEF Taken
    <3> QED BY <3>1
  <2>2. CASE Ciphered(f.rank) /\ f.rank
    <3>1. c = EncryptRank(f.val, m, "right", nonce)
      BY <2>2
    <3>2. Taken(c, m, f.index, f.rank) = DecryptRank(c, m, key, nonce)
      BY <2>2 DEF Taken, nonce
    <3> QED BY <1>4, <2>2, <3>1, <3>2
  <2>3. CASE Ciphered(f.rank) /\ ~f.rank
    <3>1. c = EncryptUint(f.val, m, "right", nonce)
      BY <2>3
    <3>2. Taken(c, m, f.index, f.rank) = DecryptUint(c, m, key, nonce)
      BY <2>3 DEF Taken, nonce
    <3> QED BY <1>5, <2>3, <3>1, <3>2
  <2> QED BY <2>1, <2>2, <2>3
<1> HIDE DEF c
<1>8. f \in FieldRecords /\ f = [val |-> f.val, width |-> f.width, modulus |-> f.modulus, index |-> f.index, rank |-> f.rank]
  BY DEF GoodField, FieldRecords
<1>9. Sent(f) \in FieldRecords /\ Sent(f).val = c /\ Sent(f).width = f.width /\ Sent(f).rank = f.rank
  <2>1. c \in Nat
    BY <1>1, <1>6
  <2>2. CASE Ciphered(f.rank)
    <3>1. Sent(f) = [f EXCEPT !.val = c]
      BY <1>3, <2>2 DEF c
    <3> QED BY <1>8, <2>1, <3>1 DEF FieldRecords
  <2>3. CASE ~Ciphered(f.rank)
    <3>1. Sent(f) = f /\ c = f.val
      BY <1>3, <2>3 DEF c
    <3> QED BY <1>8, <3>1
  <2> QED BY <2>2, <2>3
<1>a. c < 2^f.width
  <2> DEFINE d == 2^f.width
  <2>1. d \in Nat /\ m <= d
    BY <1>1, PowerPositive
  <2> HIDE DEF d
  <2>2. c < d
    BY <1>1, <1>6, <2>1
  <2> QED BY <2>2 DEF d
<1>b. Writable(Sent(f))
  BY <1>1, <1>9, <1>a DEF Writable
<1> QED BY <1>3, <1>7, <1>9, <1>b DEF m

(* A field is written: its bits come after those before it.                *)
LEMMA WriteFieldLaw ==
  ASSUME NEW w, Sound(w), NEW f, Writable(f)
  PROVE  Adds(WriteField(w, f), w, BitsOf(f.val, f.width))
<1>1. f.val \in Nat /\ f.width \in Nat /\ f.val < 2^f.width /\ (~f.rank => f.width <= MaxWidth)
  BY DEF Writable, FieldRecords
<1>2. CASE f.rank
  <2>1. WriteField(w, f) = WriteBigIntBits(w, f.val, f.width)
    BY <1>2 DEF WriteField
  <2> QED BY <1>1, <2>1, WriteBigIntBitsLaw
<1>3. CASE ~f.rank
  <2>1. WriteField(w, f) = WriteBits(w, f.val, f.width)
    BY <1>3 DEF WriteField
  <2>2. f.width \in 0 .. MaxWidth
    <3>1. MaxWidth \in Int
      BY BitAssumption DEF MaxWidth
    <3> QED BY <1>1, <1>3, <3>1
  <2>3. Sound(WriteBits(w, f.val, f.width)) /\ Held(WriteBits(w, f.val, f.width)) = Joined(Held(w), BitsOf(f.val, f.width))
    BY <1>1, <2>2, WriteBitsLaw
  <2> QED BY <2>1, <2>3 DEF Adds
<1> QED BY <1>2, <1>3

(* The fields are written one after the other, after those that are there. *)
LEMMA WrittenLaw ==
  ASSUME NEW s \in Seq(FieldRecords), NEW fields \in Seq(FieldRecords), \A x \in 1 .. Len(fields) : Writable(fields[x]),
         NEW t \in Seq(FieldRecords), Len(t) = Len(s) + Len(fields),
         \A x \in 1 .. Len(s) : t[x] = s[x],
         \A x \in 1 .. Len(fields) : t[Len(s) + x] = fields[x],
         NEW w, Sound(w), PackedTo(Held(w), s, Len(s))
  PROVE  Sound(Written(w, fields)) /\ PackedTo(Held(Written(w, fields)), t, Len(t))
<1> DEFINE l == Len(fields)
           k == Len(s)
           f == CHOOSE f : f = [x \in 0 .. l |-> IF x = 0 THEN w ELSE WriteField(f[x - 1], fields[x])]
           sound == {v \in {w} \cup UNION {{WriteField(v, fields[x]) : v \in Writers} : x \in 1 .. l} : Sound(v)}
           V == [x \in 0 .. l |-> {v \in Writers : Sound(v)}]
           G == [x \in 1 .. l |-> [v \in {v \in Writers : Sound(v)} |-> WriteField(v, fields[x])]]
<1>1. l \in Nat /\ k \in Nat /\ \A x \in 1 .. l : Writable(fields[x])
  OBVIOUS
<1>2. Written(w, fields) = f[l]
  BY DEF Written
<1>3. \A v : Sound(v) => v \in Writers
  BY DEF Sound
<1>4. PICK g : Follows(g, 0, l, w, G) /\ \A x \in 0 .. l : g[x] \in V[x]
  <2>1. 0 \in Int /\ l \in Int /\ w \in V[0]
    BY <1>1, <1>3
  <2>2. ASSUME NEW x \in 0 + 1 .. l, NEW v \in V[x - 1] PROVE G[x][v] \in V[x]
    <3>1. x \in 1 .. l /\ x - 1 \in 0 .. l /\ x \in 0 .. l
      BY <1>1
    <3>2. v \in Writers /\ Sound(v)
      BY <3>1
    <3>3. G[x][v] = WriteField(v, fields[x])
      BY <3>1, <3>2
    <3>4. Sound(WriteField(v, fields[x]))
      BY <1>1, <3>1, <3>2, WriteFieldLaw DEF Adds
    <3> HIDE DEF G
    <3> QED BY <1>3, <3>1, <3>3, <3>4
  <2> HIDE DEF V, G, l
  <2> QED BY <2>1, <2>2, Recursion
<1> HIDE DEF l
<1>5. g = [x \in 0 .. l |-> IF x = 0 THEN w ELSE WriteField(g[x - 1], fields[x])]
  <2>1. ASSUME NEW x \in 0 .. l, x # 0 PROVE G[x][g[x - 1]] = WriteField(g[x - 1], fields[x])
    <3>1. x \in 1 .. l /\ x - 1 \in 0 .. l
      BY <1>1, <2>1
    <3>2. g[x - 1] \in {v \in Writers : Sound(v)}
      BY <1>4, <3>1
    <3> QED BY <3>1, <3>2
  <2> HIDE DEF G
  <2> QED BY <1>4, <2>1 DEF Follows
<1>6. f = [x \in 0 .. l |-> IF x = 0 THEN w ELSE WriteField(f[x - 1], fields[x])]
  BY <1>5
<1> HIDE DEF f, V, G
<1> DEFINE T == {x \in 0 .. l : Sound(f[x]) /\ PackedTo(Held(f[x]), t, k + x)}
<1>7. 0 \in T
  <2>1. f[0] = w /\ 0 \in 0 .. l /\ k + 0 = k
    BY <1>1, <1>6
  <2>2. \A x \in 0 .. k : Ends(t)[x] = Ends(s)[x]
    <3>1. k <= Len(s) /\ k <= Len(t)
      BY <1>1 DEF l
    <3>2. \A x \in 1 .. k : t[x] = s[x]
      OBVIOUS
    <3> HIDE DEF k
    <3> QED BY <1>1, <3>1, <3>2, EndsAgree
  <2>3. PackedTo(Held(w), t, k)
    <3>1. Len(Held(w)) = Ends(t)[k]
      BY <1>1, <2>2 DEF PackedTo
    <3>2. ASSUME NEW x \in 1 .. k PROVE InBits(Held(w), t[x], Ends(t)[x - 1])
      <4>1. InBits(Held(w), s[x], Ends(s)[x - 1]) /\ t[x] = s[x] /\ x - 1 \in 0 .. k
        BY <1>1 DEF PackedTo
      <4> QED BY <2>2, <4>1
    <3> QED BY <3>1, <3>2 DEF PackedTo
  <2> QED BY <2>1, <2>3
<1>8. ASSUME NEW x \in 0 .. l - 1, x \in T PROVE x + 1 \in T
  <2>1. x + 1 \in 1 .. l /\ x + 1 \in 0 .. l /\ (x + 1) - 1 = x /\ k + x \in 0 .. Len(t) - 1 /\ k + (x + 1) = (k + x) + 1
    BY <1>1 DEF l
  <2>2. Sound(f[x]) /\ PackedTo(Held(f[x]), t, k + x)
    BY <1>8
  <2>3. f[x + 1] = WriteField(f[x], fields[x + 1])
    <3>1. x + 1 # 0
      OBVIOUS
    <3> DEFINE z == x + 1
    <3> HIDE DEF z
    <3>2. z \in 0 .. l /\ z # 0 /\ z - 1 = x
      BY <2>1, <3>1 DEF z
    <3>3. f[z] = WriteField(f[z - 1], fields[z])
      BY <1>6, <3>2
    <3> QED BY <3>2, <3>3 DEF z
  <2>4. Writable(fields[x + 1]) /\ t[(k + x) + 1] = fields[x + 1]
    <3>1. t[k + (x + 1)] = fields[x + 1]
      BY <2>1 DEF l
    <3> QED BY <1>1, <2>1, <3>1
  <2>5. Adds(f[x + 1], f[x], BitsOf(fields[x + 1].val, fields[x + 1].width))
    BY <2>2, <2>3, <2>4, WriteFieldLaw
  <2>6. Held(f[x]) \in Seq(Bit)
    BY <2>2, HeldTypes
  <2>7. PackedTo(Held(f[x + 1]), t, (k + x) + 1)
    <3> DEFINE m == k + x
               bits == Held(f[x])
    <3>1. m \in 0 .. Len(t) - 1 /\ bits \in Seq(Bit) /\ PackedTo(bits, t, m)
      BY <2>1, <2>2, <2>6
    <3>2. Held(f[x + 1]) = Joined(bits, BitsOf(t[m + 1].val, t[m + 1].width))
      BY <2>4, <2>5 DEF Adds
    <3> HIDE DEF m, bits
    <3>3. PackedTo(Held(f[x + 1]), t, m + 1)
      BY <3>1, <3>2, PackedMore
    <3> QED BY <3>3 DEF m
  <2> QED BY <2>1, <2>5, <2>7 DEF Adds
<1>9. 0 .. l \subseteq T
  <2> HIDE DEF T
  <2>1. 0 \in Int /\ l \in Int
    BY <1>1
  <2> QED BY <1>7, <1>8, <2>1, Induction
<1>a. Sound(f[l]) /\ PackedTo(Held(f[l]), t, k + l)
  BY <1>1, <1>9
<1> QED BY <1>2, <1>a DEF l

(* A field is read at its place.                                           *)
LEMMA ReadFieldLaw ==
  ASSUME data \in Seq(Bytes), NEW f, Writable(f), NEW pos \in Nat, pos + f.width <= EndOfData,
         InBits(Unpacked(data), f, pos), NEW modulus, NEW index
  PROVE  ReadField(pos, f.width, modulus, index, f.rank) = Taken(f.val, modulus, index, f.rank)
<1> DEFINE width == f.width
           val == IF f.rank THEN ReadBigInt(data, pos, width) ELSE ReadBits(data, pos, width)
<1>1. f.val \in Nat /\ width \in Nat /\ f.val < 2^width /\ (~f.rank => width <= MaxWidth)
  BY DEF Writable, FieldRecords
<1>2. data \in Seq(Nat) /\ pos + width <= ByteBits * Len(data)
  BY ByteTypes, SeqWithin DEF EndOfData
<1>3. ReadField(pos, width, modulus, index, f.rank) = Taken(val, modulus, index, f.rank)
  BY DEF ReadField, Taken
<1> HIDE DEF width
<1>4. Reads(val, Unpacked(data), pos, width)
  <2>1. CASE f.rank
    BY <1>1, <1>2, <2>1, ReadBigIntLaw
  <2>2. CASE ~f.rank
    <3>1. width \in 0 .. MaxWidth
      <4>1. MaxWidth \in Int
        BY BitAssumption DEF MaxWidth
      <4> QED BY <1>1, <2>2, <4>1
    <3> QED BY <1>2, <2>2, <3>1, ReadBitsLaw
  <2> QED BY <2>1, <2>2
<1> HIDE DEF val
<1>5. val \in 0 .. 2^width - 1 /\ BitsOf(val, width) = BitsOf(f.val, width)
  BY <1>4 DEF Reads, InBits, width
<1>6. f.val \in 0 .. 2^width - 1
  <2> DEFINE d == 2^width
  <2>1. d \in Nat /\ f.val < d
    BY <1>1, PowerPositive
  <2> HIDE DEF d
  <2>2. f.val \in 0 .. d - 1
    BY <1>1, <2>1
  <2> QED BY <2>2 DEF d
<1>7. val = f.val
  BY <1>1, <1>5, <1>6, BitsDetermine
<1> QED BY <1>3, <1>7 DEF width

-----------------------------------------------------------------------------
(* The fields of a block.                                                  *)

(* The values of a block are bytes, and none occurs more than n times.     *)
LEMMA AlphabetTypes ==
  ASSUME Source
  PROVE  /\ Alphabet \in SUBSET Bytes /\ Alphabet # {} /\ Alphabet \in SUBSET Nat
         /\ \A x \in 0 .. n - 1 : block[x + 1] \in Alphabet
         /\ \A v : Count(v) \in 0 .. n /\ Count(v) \in Nat
         /\ n \in 1 .. MaxBlock /\ MaxBlock \in Nat
<1>1. block \in Seq(Bytes) /\ n \in Nat \ {0} /\ n = Len(block)
  BY BlockTypes DEF n
<1>2. Alphabet \in SUBSET Bytes /\ Alphabet # {} /\ \A x \in 0 .. n - 1 : block[x + 1] \in Alphabet
  <2>1. \A i \in 1 .. Len(block) : block[i] \in Bytes
    BY <1>1, ElementOfSeq
  <2>2. DOMAIN block = 1 .. Len(block) /\ 1 \in 1 .. Len(block)
    BY <1>1
  <2>3. \A x \in 0 .. n - 1 : x + 1 \in 1 .. Len(block)
    BY <1>1
  <2> QED BY <2>1, <2>2, <2>3 DEF Alphabet, ToSet
<1>3. ASSUME NEW v PROVE Count(v) \in 0 .. n /\ Count(v) \in Nat
  <2>1. Positions(v) \subseteq 0 .. n - 1 /\ IsFiniteSet(Positions(v)) /\ Count(v) \in Nat
    BY PositionsTypes
  <2>2. IsFiniteSet(0 .. n - 1) /\ Cardinality(0 .. n - 1) = n
    <3>1. n \in Nat
      BY <1>1
    <3> QED BY <3>1, UpTo
  <2>3. Cardinality(Positions(v)) <= n
    BY <2>1, <2>2, FS_Subset
  <2> QED BY <1>1, <2>1, <2>3 DEF Count
<1>4. n \in 1 .. MaxBlock /\ MaxBlock \in Nat
  <2>1. file \in Seq(UNION {[1 .. l -> Bytes] : l \in 1 .. MaxBlock})
    BY CodecAssumption DEF Source
  <2>2. block \in UNION {[1 .. l -> Bytes] : l \in 1 .. MaxBlock}
    BY <2>1, ElementOfSeq DEF Source, block
  <2>3. PICK l \in 1 .. MaxBlock : block \in [1 .. l -> Bytes]
    BY <2>2
  <2>4. l \in Nat /\ Len(block) = l
    BY <2>3, CodecAssumption
  <2> QED BY <1>1, <2>3, <2>4, CodecAssumption
<1>5. Alphabet \in SUBSET Nat
  BY <1>2, ByteTypes
<1> QED BY <1>2, <1>3, <1>4, <1>5

(* The most frequent value is one of them, ...                             *)
LEMMA MostFrequentLaw ==
  ASSUME Source
  PROVE  OwnMost \in Alphabet
<1> DEFINE C == {Count(v) : v \in Alphabet}
           S == {v \in Alphabet : \A w \in Alphabet : Count(w) <= Count(v)}
<1>1. C \in SUBSET (0 .. n) /\ C # {} /\ n \in Nat
  BY AlphabetTypes
<1>2. Max(C) \in C /\ \A x \in C : x <= Max(C)
  <2> HIDE DEF C
  <2> QED BY <1>1, MaxLaw
<1>3. S # {}
  BY <1>2
<1>4. S \in SUBSET Nat
  BY AlphabetTypes
<1>5. Min(S) \in S
  <2> HIDE DEF S
  <2> QED BY <1>3, <1>4, MinLaw
<1> QED BY <1>5 DEF OwnMost

(* ... and the last of the symbols, which are all values of the block.     *)
LEMMA SymbolsLaw ==
  ASSUME Source
  PROVE  /\ Len(OwnSymbols) \in Nat /\ Len(OwnSymbols) >= 1
         /\ \A v \in Alphabet : \E i \in 1 .. Len(OwnSymbols) : OwnSymbols[i] = v
         /\ OwnSymbols[Len(OwnSymbols)] = OwnMost
         /\ \A i \in 1 .. Len(OwnSymbols) : OwnSymbols[i] \in Alphabet /\ OwnSymbols[i] \in Bytes
         /\ \A i \in 1 .. Len(OwnSymbols) - 1 : OwnSymbols[i] # OwnMost
<1> DEFINE most == OwnMost
           rest == Alphabet \ {most}
           p == IndexSet(rest)
           c == Cardinality(rest)
<1>1. most \in Alphabet /\ Alphabet \in SUBSET Bytes
  BY MostFrequentLaw, AlphabetTypes
<1>2. rest \in SUBSET Bytes /\ rest \in SUBSET Int /\ IsFiniteSet(rest) /\ c \in Nat
  <2>1. rest \in SUBSET Bytes
    BY <1>1
  <2> HIDE DEF rest
  <2> QED BY <2>1, BlockTypes, FS_Subset, FS_CardinalityType
<1>3. rest \cup {most} = Alphabet /\ most \notin rest
  BY <1>1
<1> HIDE DEF rest, most
<1>4. /\ p \in Seq(rest) /\ Len(p) = c
      /\ \A x \in rest : \E i \in 1 .. c : p[i] = x
  BY <1>2, IndexSetAscends
<1> HIDE DEF p, c
<1>5. OwnSymbols = Append(p, most)
  <2>1. Append(p, most) = p \o <<most>>
    BY <1>4
  <2> QED BY <1>1, <2>1 DEF OwnSymbols, SortedKeys, p, rest, most
<1>6. Len(OwnSymbols) = c + 1 /\ \A i \in 1 .. c + 1 : OwnSymbols[i] = IF i <= c THEN p[i] ELSE most
  BY <1>4, <1>5
<1>7. \A i \in 1 .. c : p[i] \in rest
  BY <1>4, ElementOfSeq
<1>8. OwnSymbols[c + 1] = most
  BY <1>2, <1>6
<1>9. \A i \in 1 .. c : i \in 1 .. c + 1 /\ OwnSymbols[i] = p[i]
  BY <1>2, <1>6
<1>a. ASSUME NEW v \in Alphabet PROVE \E i \in 1 .. Len(OwnSymbols) : OwnSymbols[i] = v
  <2>1. CASE v = most
    <3>1. c + 1 \in 1 .. c + 1
      BY <1>2
    <3> QED BY <1>6, <1>8, <2>1, <3>1
  <2>2. CASE v # most
    <3>1. PICK i \in 1 .. c : p[i] = v
      BY <1>3, <1>4, <2>2
    <3> QED BY <1>6, <1>9, <3>1
  <2> QED BY <2>1, <2>2
<1>b. ASSUME NEW i \in 1 .. Len(OwnSymbols) PROVE OwnSymbols[i] \in Alphabet /\ OwnSymbols[i] \in Bytes
  <2>1. i \in 1 .. c \/ i = c + 1
    BY <1>2, <1>6
  <2> QED BY <1>1, <1>3, <1>7, <1>8, <1>9, <2>1
<1>c. ASSUME NEW i \in 1 .. Len(OwnSymbols) - 1 PROVE OwnSymbols[i] # most
  <2>1. i \in 1 .. c
    BY <1>2, <1>6
  <2> QED BY <1>3, <1>7, <1>9, <2>1
<1>d. Len(OwnSymbols) \in Nat /\ Len(OwnSymbols) >= 1
  BY <1>2, <1>6
<1> QED BY <1>6, <1>8, <1>a, <1>b, <1>c, <1>d DEF most

(* The count of every value but the last fits in the bits for it, and      *)
(* their number in those of the block's length.                            *)
LEMMA CountBitsLaw ==
  ASSUME Source
  PROVE  /\ BitLength(n) \in Nat /\ BitLength(n) <= MaxWidth
         /\ OwnCountBits \in 1 .. BitLength(n) /\ OwnCountBits \in Nat
         /\ \A v \in Alphabet \ {OwnMost} : Count(v) < 2^OwnCountBits
<1> DEFINE C == {0} \cup {Count(v) : v \in Alphabet \ {OwnMost}}
           x == Max(C)
<1>1. C \in SUBSET (0 .. n) /\ C # {} /\ n \in Nat \ {0} /\ n <= MaxBlock /\ MaxBlock \in Nat
  <2>1. n \in Nat \ {0} /\ n <= MaxBlock /\ MaxBlock \in Nat
    BY AlphabetTypes
  <2>2. 0 \in 0 .. n
    BY <2>1
  <2> QED BY <2>1, <2>2, AlphabetTypes
<1>2. x \in C /\ \A y \in C : y <= x
  <2> HIDE DEF C
  <2> QED BY <1>1, MaxLaw
<1>3. x \in Nat /\ x <= n
  BY <1>1, <1>2
<1>4. OwnCountBits = NumBits(x)
  BY DEF OwnCountBits
<1>5. \A v \in Alphabet \ {OwnMost} : Count(v) <= x /\ Count(v) \in Nat
  BY <1>2, AlphabetTypes
<1> HIDE DEF x
<1> DEFINE l == BitLength(n)
<1>6. l \in Nat /\ n < 2^l /\ l <= BitLength(MaxBlock) /\ BitLength(MaxBlock) \in Nat
  BY <1>1, BitLengthHolds, BitLengthGrows
<1>7. l >= 1
  <2>1. l # 0
    <3> HIDE DEF l
    <3> SUFFICES ASSUME l = 0 PROVE FALSE
      OBVIOUS
    <3>1. n < 2^0 /\ 2^0 = 1
      BY <1>6
    <3> QED BY <1>1, <3>1
  <2> HIDE DEF l
  <2> QED BY <1>6, <2>1
<1>8. BitLength(MaxBlock) <= MaxWidth /\ MaxWidth \in Int
  BY CodecAssumption, BitAssumption DEF MaxWidth
<1>9. BitLength(x) \in Nat /\ x < 2^BitLength(x) /\ BitLength(x) <= l
  BY <1>1, <1>3, BitLengthHolds, BitLengthGrows
<1>a. NumBits(x) \in 1 .. l /\ x < 2^NumBits(x)
  <2>1. CASE x = 0
    <3>1. NumBits(x) = 1 /\ 2^1 = 2
      BY <2>1 DEF NumBits
    <3> HIDE DEF l
    <3>2. 1 \in 1 .. l
      BY <1>6, <1>7
    <3>3. x < 2^1
      BY <2>1, <3>1
    <3> QED BY <3>1, <3>2, <3>3
  <2>2. CASE x # 0
    <3> DEFINE k == BitLength(x)
    <3>1. NumBits(x) = k
      BY <2>2 DEF NumBits
    <3>2. k \in Nat /\ x < 2^k /\ k <= l
      BY <1>9
    <3> HIDE DEF k, l
    <3>3. k # 0
      <4> SUFFICES ASSUME k = 0 PROVE FALSE
        OBVIOUS
      <4>1. x < 2^0 /\ 2^0 = 1
        BY <3>2
      <4> QED BY <1>3, <2>2, <4>1
    <3>4. k \in 1 .. l
      BY <1>6, <3>2, <3>3
    <3> QED BY <3>1, <3>2, <3>4
  <2> QED BY <2>1, <2>2
<1>b. \A v \in Alphabet \ {OwnMost} : Count(v) < 2^OwnCountBits
  <2> DEFINE d == 2^NumBits(x)
  <2>1. d \in Nat /\ x < d
    BY <1>a, PowerPositive
  <2>2. OwnCountBits = NumBits(x)
    BY <1>4
  <2> HIDE DEF d
  <2>3. \A v \in Alphabet \ {OwnMost} : Count(v) < d
    BY <1>3, <1>5, <2>1
  <2> QED BY <2>2, <2>3 DEF d
<1>c. BitLength(n) <= MaxWidth
  <2> HIDE DEF l
  <2>1. l <= MaxWidth
    BY <1>6, <1>8
  <2> QED BY <2>1 DEF l
<1> QED BY <1>4, <1>6, <1>a, <1>b, <1>c

(* A universe of bytes or of a block's positions is one that ranks are     *)
(* computed in.                                                            *)
LEMMA Universe ==
  ASSUME NEW u \in Nat \ {0}, NEW m \in {MaxBlock, 2^ByteBits}, u <= m
  PROVE  u \in 1 .. CacheN /\ WordHolds(u)
<1>1. m \in Nat /\ m <= CacheN /\ CacheN \in Nat /\ m * m * m <= Word
  BY CodecAssumption, ByteTypes, CacheTypes
<1>2. u * u \in Nat /\ u * u <= m * m
  BY <1>1, ProductGrows
<1> DEFINE a == u * u
           b == m * m
<1>3. a \in Nat /\ b \in Nat /\ a <= b
  BY <1>1, <1>2
<1>4. a * u <= b * m /\ b * m <= Word
  <2>1. b * m <= Word
    BY <1>1
  <2> HIDE DEF a, b
  <2> QED BY <1>1, <1>3, <2>1, ProductGrows
<1>5. u * u * u <= Word
  <2> DEFINE c == a * u
             d == b * m
  <2>1. c \in Nat /\ d \in Nat
    BY <1>1, <1>3
  <2>2. c <= d /\ d <= Word
    BY <1>4
  <2>3. Word \in Int
    BY WordType
  <2> HIDE DEF c, d
  <2>4. c <= Word
    BY <2>1, <2>2, <2>3
  <2> QED BY <2>4 DEF c
<1> QED BY <1>1, <1>5 DEF WordHolds

(* A rank's field: its modulus is the number of sets of that size.         *)
LEMMA RankField ==
  ASSUME NEW u \in Nat \ {0}, NEW m \in {MaxBlock, 2^ByteBits}, u <= m, NEW S \in SUBSET (0 .. u - 1),
         NEW k, k = Cardinality(S), NEW index \in Nat, index < FieldSpace
  PROVE  /\ BinCoef(u, k) \in Nat /\ k \in 0 .. u
         /\ GoodField(Field(Rank(IndexSet(S)), BitLength(BinCoef(u, k)), BinCoef(u, k), index, TRUE))
         /\ Unrank(Rank(IndexSet(S)), k, u) = S
<1> DEFINE modulus == BinCoef(u, k)
           rank == Rank(IndexSet(S))
           width == BitLength(modulus)
<1>1. u \in 1 .. CacheN /\ WordHolds(u)
  BY Universe
<1>2. rank \in 0 .. modulus - 1 /\ Unrank(rank, k, u) = S
  BY <1>1, RankRoundTrip
<1>3. k \in 0 .. u
  <2>1. IsFiniteSet(0 .. u - 1) /\ Cardinality(0 .. u - 1) = u
    BY UpTo
  <2>2. k \in Nat /\ k <= u
    BY <2>1, FS_Subset, FS_CardinalityType
  <2> QED BY <2>2
<1>4. modulus \in Nat
  <2>1. u \in 0 .. CacheN /\ k \in Nat
    BY <1>1, <1>3
  <2> QED BY <2>1, CoefficientTypes
<1> HIDE DEF modulus, rank
<1>5. width \in Nat /\ modulus < 2^width
  BY <1>4, BitLengthHolds
<1> HIDE DEF width
<1>6. rank \in Nat /\ rank < modulus /\ modulus # 0
  BY <1>2, <1>4
<1>7. modulus <= 2^width
  <2> DEFINE d == 2^width
  <2>1. d \in Nat /\ modulus < d
    BY <1>5, PowerPositive
  <2> HIDE DEF d
  <2>2. modulus <= d
    BY <1>4, <2>1
  <2> QED BY <2>2 DEF d
<1>8. GoodField(Field(rank, width, modulus, index, TRUE))
  BY <1>4, <1>5, <1>6, <1>7 DEF GoodField, Field, FieldRecords
<1> QED BY <1>2, <1>3, <1>4, <1>8 DEF modulus, rank, width

(* A field that takes all values of its bits.                              *)
LEMMA UintField ==
  ASSUME NEW width \in Nat, width <= MaxWidth, NEW val \in Nat, val < 2^width, NEW index \in Nat, index < FieldSpace
  PROVE  GoodField(Field(val, width, 2^width, index, FALSE))
<1> DEFINE d == 2^width
<1>1. d \in Nat \ {0} /\ val < d
  BY PowerPositive
<1> HIDE DEF d
<1>2. Field(val, width, d, index, FALSE) \in FieldRecords /\ d <= d
  BY <1>1 DEF Field, FieldRecords
<1> QED BY <1>1, <1>2 DEF GoodField, Field, d

(* The header consists of four fields that fit, and its rank and most      *)
(* frequent value give back the symbols.                                   *)
LEMMA HeaderLaw ==
  ASSUME Source, reference \in SUBSET Bytes
  PROVE  LET c == Cardinality(Difference)  coefficient == BinCoef(2^ByteBits, c) IN
         /\ c \in 0 .. 2^ByteBits /\ coefficient \in Nat
         /\ OwnHeader[1] = Field(c, ByteBits + 1, 2^(ByteBits + 1), FieldAlphabetCardinality, FALSE)
         /\ OwnHeader[2] = Field(Rank(IndexSet(Difference)), BitLength(coefficient), coefficient, FieldAlphabetRank, TRUE)
         /\ OwnHeader[3] = Field(OwnMost, ByteBits, 2^ByteBits, FieldMostFrequent, FALSE)
         /\ OwnHeader[4] = Field(OwnCountBits, BitLength(n), 2^BitLength(n), FieldCountWidth, FALSE)
         /\ Len(OwnHeader) = 4 /\ OwnHeader \in Seq(FieldRecords) /\ \A x \in 1 .. 4 : GoodField(OwnHeader[x])
         /\ Unrank(Rank(IndexSet(Difference)), c, 2^ByteBits) = Difference
         /\ SortedKeys(SymmetricDifference(Difference, reference), OwnMost) = OwnSymbols
<1> DEFINE c == Cardinality(Difference)
           u == 2^ByteBits
           coefficient == BinCoef(u, c)
           f1 == Field(c, ByteBits + 1, 2^(ByteBits + 1), FieldAlphabetCardinality, FALSE)
           f2 == Field(Rank(IndexSet(Difference)), BitLength(coefficient), coefficient, FieldAlphabetRank, TRUE)
           f3 == Field(OwnMost, ByteBits, u, FieldMostFrequent, FALSE)
           f4 == Field(OwnCountBits, BitLength(n), 2^BitLength(n), FieldCountWidth, FALSE)
<1>1. OwnHeader = <<f1, f2, f3, f4>>
  BY DEF OwnHeader
<1>2. u \in Nat \ {0} /\ Bytes = 0 .. u - 1 /\ ByteBits \in Nat \ {0} /\ ByteBits + 1 <= MaxWidth /\ MaxWidth \in Int
  BY ByteTypes, CodecAssumption, BitAssumption DEF MaxWidth
<1>3. 4 <= FieldSpace /\ FieldSpace \in Nat
  BY CodecAssumption, CipherAssumption, SymbolsEnumerate, BlockTypes
<1>4. Difference \in SUBSET (0 .. u - 1)
  BY <1>2, AlphabetTypes DEF Difference, SymmetricDifference
<1> HIDE DEF u
<1>5. coefficient \in Nat /\ c \in 0 .. u /\ GoodField(f2) /\ Unrank(Rank(IndexSet(Difference)), c, u) = Difference
  <2>1. u \in {MaxBlock, 2^ByteBits} /\ u <= u /\ 1 \in Nat /\ 1 < FieldSpace
    BY <1>2, <1>3 DEF u
  <2> QED BY <1>2, <1>4, <2>1, RankField DEF FieldAlphabetRank
<1>6. GoodField(f1)
  <2>1. c < 2^(ByteBits + 1) /\ c \in Nat
    <3>1. 2^(ByteBits + 1) = 2 * u
      BY <1>2, PowerStep DEF u
    <3>2. c < 2 * u /\ c \in Nat
      BY <1>2, <1>5
    <3> QED BY <3>1, <3>2
  <2>2. ByteBits + 1 \in Nat /\ 0 \in Nat /\ 0 < FieldSpace
    BY <1>2, <1>3
  <2> QED BY <1>2, <2>1, <2>2, UintField DEF FieldAlphabetCardinality
<1>7. GoodField(f3)
  <2>1. OwnMost \in Nat /\ OwnMost < u
    <3>1. OwnMost \in 0 .. u - 1
      BY <1>2, MostFrequentLaw, AlphabetTypes
    <3> QED BY <1>2, <3>1
  <2>2. ByteBits \in Nat /\ ByteBits <= MaxWidth /\ 2 \in Nat /\ 2 < FieldSpace
    BY <1>2, <1>3
  <2> QED BY <2>1, <2>2, UintField DEF FieldMostFrequent, u
<1>8. GoodField(f4)
  <2> DEFINE l == BitLength(n)
  <2>1. l \in Nat /\ l <= MaxWidth /\ OwnCountBits \in 1 .. l /\ OwnCountBits \in Nat
    BY CountBitsLaw
  <2>2. OwnCountBits < 2^l
    <3> HIDE DEF l
    <3> DEFINE d == 2^l
    <3>1. l < d /\ d \in Nat
      BY <2>1, BelowPower
    <3> HIDE DEF d
    <3>2. OwnCountBits < d
      BY <2>1, <3>1
    <3> QED BY <3>2 DEF d
  <2>3. 3 \in Nat /\ 3 < FieldSpace
    BY <1>3
  <2> HIDE DEF l
  <2>4. GoodField(Field(OwnCountBits, l, 2^l, 3, FALSE))
    BY <2>1, <2>2, <2>3, UintField
  <2> QED BY <2>4 DEF FieldCountWidth, l
<1>9. SortedKeys(SymmetricDifference(Difference, reference), OwnMost) = OwnSymbols
  <2>1. SymmetricDifference(Difference, reference) = Alphabet
    BY DEF Difference, SymmetricDifference
  <2> QED BY <2>1 DEF OwnSymbols
<1> HIDE DEF f1, f2, f3, f4
<1>a. /\ OwnHeader[1] = f1 /\ OwnHeader[2] = f2 /\ OwnHeader[3] = f3 /\ OwnHeader[4] = f4
      /\ Len(OwnHeader) = 4 /\ DOMAIN OwnHeader = 1 .. 4
  BY <1>1
<1>b. \A x \in 1 .. 4 : GoodField(OwnHeader[x])
  <2>1. \A x \in 1 .. 4 : x = 1 \/ x = 2 \/ x = 3 \/ x = 4
    OBVIOUS
  <2> QED BY <1>5, <1>6, <1>7, <1>8, <1>a, <2>1
<1>c. OwnHeader \in Seq(FieldRecords)
  <2>1. f1 \in FieldRecords /\ f2 \in FieldRecords /\ f3 \in FieldRecords /\ f4 \in FieldRecords
    BY <1>5, <1>6, <1>7, <1>8 DEF GoodField
  <2> QED BY <1>1, <2>1
<1> QED BY <1>5, <1>9, <1>a, <1>b, <1>c DEF f1, f2, f3, f4, u

(* The fields of a value, and what the decoder finds in them.              *)
Positioned(j) == Positions(OwnSymbols[j + 1])

Free(j) == (0 .. n - 1) \ Gone(j)

(* A value has two fields that fit, and its rank gives back its positions  *)
(* among those that are free.                                              *)
LEMMA SymbolLaw ==
  ASSUME Source, NEW j \in 0 .. Len(OwnSymbols) - 2
  PROVE  LET k == Count(OwnSymbols[j + 1])  free == n - Cardinality(Gone(j))
             reduced == Reduced(Positioned(j), Free(j))  coefficient == BinCoef(free, k)
             fields == OwnFields(j, Gone(j), free) IN
         /\ k \in 1 .. free /\ free \in Nat /\ coefficient \in Nat /\ Cardinality(Free(j)) = free
         /\ fields[1] = Field(k, OwnCountBits, 2^OwnCountBits, SymbolCountField(j), FALSE)
         /\ fields[2] = Field(Rank(IndexSet(reduced)), BitLength(coefficient), coefficient, SymbolRankField(j), TRUE)
         /\ Len(fields) = 2 /\ fields \in Seq(FieldRecords) /\ \A y \in 1 .. 2 : GoodField(fields[y])
         /\ Unrank(Rank(IndexSet(reduced)), k, free) = reduced
         /\ Restored(reduced, Free(j)) = Positioned(j)
         /\ Gone(j + 1) = Gone(j) \cup Positioned(j) /\ Free(j + 1) = Free(j) \ Positioned(j)
         /\ n - Cardinality(Gone(j + 1)) = free - k
<1> DEFINE s == OwnSymbols[j + 1]
           P == Positioned(j)
           k == Count(s)
           G == Gone(j)
           L == Free(j)
           free == n - Cardinality(G)
           reduced == Reduced(P, L)
           coefficient == BinCoef(free, k)
           f1 == Field(k, OwnCountBits, 2^OwnCountBits, SymbolCountField(j), FALSE)
           f2 == Field(Rank(IndexSet(reduced)), BitLength(coefficient), coefficient, SymbolRankField(j), TRUE)
           l == Len(OwnSymbols)
<1>1. l \in Nat /\ l >= 1 /\ j \in Nat /\ j <= l - 2 /\ j \in 0 .. l /\ j + 1 \in 1 .. l - 1 /\ j + 1 \in j + 1 .. l /\ j + 1 \in 1 .. l
  <2>1. l \in Nat /\ l >= 1 /\ j \in 0 .. l - 2
    BY SymbolsLaw
  <2> HIDE DEF l
  <2> QED BY <2>1
<1>2. s \in Alphabet \ {OwnMost}
  BY <1>1, SymbolsLaw
<1>3. /\ IsFiniteSet(G) /\ Cardinality(G) \in 0 .. n
      /\ Cardinality(G \cup P) = Cardinality(G) + k
      /\ Cardinality(G) + k <= n /\ k \in Nat \ {0}
  BY <1>1, RoomOfTheRest DEF Gone, Positioned
<1>4. n \in Nat \ {0} /\ n <= MaxBlock /\ MaxBlock \in Nat
  BY AlphabetTypes
<1>5. free \in Nat \ {0} /\ k \in 1 .. free /\ free <= MaxBlock
  <2> DEFINE g == Cardinality(G)
  <2>1. g \in 0 .. n /\ g + k <= n /\ k \in Nat \ {0}
    BY <1>3
  <2> HIDE DEF g, k
  <2>2. n - g \in Nat \ {0} /\ k \in 1 .. n - g /\ n - g <= MaxBlock
    BY <1>4, <2>1
  <2> QED BY <2>2 DEF g
<1>6. P \in SUBSET (0 .. n - 1) /\ G \in SUBSET (0 .. n - 1) /\ P \cap G = {} /\ L = (0 .. n - 1) \ G
  <2>1. ASSUME NEW x \in P, x \in G PROVE FALSE
    <3>1. block[x + 1] = s
      BY DEF Positioned, Positions
    <3>2. PICK i \in 1 .. j : block[x + 1] = OwnSymbols[i]
      BY <2>1 DEF Gone
    <3>3. i \in 1 .. l /\ i # j + 1
      BY <1>1
    <3> QED BY <1>1, <3>1, <3>2, <3>3, SymbolsEnumerate
  <2> QED BY <2>1 DEF Positioned, Positions, Gone, Free
<1>7. Cardinality(L) = free
  <2>1. L \cap G = {} /\ L \cup G = 0 .. n - 1
    BY <1>6
  <2>2. IsFiniteSet(0 .. n - 1) /\ Cardinality(0 .. n - 1) = n
    BY <1>4, UpTo
  <2>3. IsFiniteSet(L)
    <3>1. L \in SUBSET (0 .. n - 1)
      BY <1>6
    <3> QED BY <2>2, <3>1, FS_Subset
  <2> HIDE DEF L, G
  <2>4. Cardinality(L \cup G) = Cardinality(L) + Cardinality(G) /\ Cardinality(L) \in Nat /\ Cardinality(G) \in Nat
    BY <1>3, <2>1, <2>3, DisjointUnion
  <2> DEFINE a == Cardinality(L)
             g == Cardinality(G)
  <2>5. a + g = n /\ a \in Nat /\ g \in Nat /\ n \in Nat
    BY <1>4, <2>1, <2>2, <2>4
  <2> HIDE DEF a, g
  <2>6. a = n - g
    BY <2>5
  <2> QED BY <2>6 DEF a, g
<1>8. /\ reduced \in SUBSET (0 .. free - 1)
      /\ Cardinality(reduced) = Cardinality(P)
      /\ ReduceIndexSet(IndexSet(P), G) = IndexSet(reduced)
      /\ Len(ReduceIndexSet(IndexSet(P), G)) = Cardinality(P)
      /\ Restored(reduced, L) = P
  <2>1. n \in Nat
    BY <1>4
  <2> HIDE DEF P, G, reduced
  <2>2. LET M == (0 .. n - 1) \ G IN
        /\ Reduced(P, M) \in SUBSET (0 .. Cardinality(M) - 1)
        /\ Cardinality(Reduced(P, M)) = Cardinality(P)
        /\ ReduceIndexSet(IndexSet(P), G) = IndexSet(Reduced(P, M))
        /\ Len(ReduceIndexSet(IndexSet(P), G)) = Cardinality(P)
        /\ Restored(Reduced(P, M), M) = P
    BY <1>6, <2>1, ReducedLaw
  <2> QED BY <1>6, <1>7, <2>2 DEF reduced
<1>9. Cardinality(P) = k
  BY DEF Positioned, Count
<1>a. OwnFields(j, G, free) = <<f1, f2>>
  <2> HIDE DEF free, G, reduced
  <2>1. Len(ReduceIndexSet(IndexSet(Positions(s)), G)) = k /\ ReduceIndexSet(IndexSet(Positions(s)), G) = IndexSet(reduced)
    BY <1>8, <1>9 DEF Positioned
  <2> QED BY <2>1 DEF OwnFields
<1>b. j < FieldSpace /\ 4 + 2 * j + 1 < FieldSpace /\ FieldSpace \in Nat \ {0}
  <2>1. l <= Cardinality(Bytes) /\ Cardinality(Bytes) \in Nat /\ 2 * Cardinality(Bytes) + 1 < FieldSpace /\ FieldSpace \in Nat \ {0}
    BY SymbolsEnumerate, BlockTypes, CodecAssumption, CipherAssumption
  <2> HIDE DEF l
  <2> QED BY <1>1, <2>1
<1>c. SymbolCountField(j) \in Nat /\ SymbolCountField(j) < FieldSpace /\ SymbolRankField(j) \in Nat /\ SymbolRankField(j) < FieldSpace
  <2> DEFINE c == 4 + 2 * j
             r == 4 + 2 * j + 1
  <2>0. c \in Nat /\ r \in Nat /\ c < FieldSpace /\ r < FieldSpace /\ FieldSpace \in Int
    BY <1>1, <1>b
  <2>1. SymbolCountField(j) = c
    <3>1. SymbolCountField(j) = c % FieldSpace
      BY DEF SymbolCountField
    <3> HIDE DEF c, r
    <3> QED BY <2>0, <3>1, Within
  <2>2. SymbolRankField(j) = r
    <3>1. SymbolRankField(j) = r % FieldSpace
      BY DEF SymbolRankField
    <3> HIDE DEF c, r
    <3> QED BY <2>0, <3>1, Within
  <2> QED BY <1>1, <1>b, <2>1, <2>2
<1>d. GoodField(f1)
  <2>1. OwnCountBits \in Nat /\ OwnCountBits <= MaxWidth /\ k < 2^OwnCountBits
    <3>1. BitLength(n) \in Nat /\ BitLength(n) <= MaxWidth /\ OwnCountBits \in 1 .. BitLength(n) /\ OwnCountBits \in Nat /\ MaxWidth \in Int
      BY CountBitsLaw, BitAssumption DEF MaxWidth
    <3>2. k < 2^OwnCountBits
      BY <1>2, CountBitsLaw
    <3> QED BY <3>1, <3>2
  <2>2. k \in Nat
    BY <1>3
  <2> HIDE DEF k
  <2> QED BY <1>c, <2>1, <2>2, UintField
<1>e. coefficient \in Nat /\ GoodField(f2) /\ Unrank(Rank(IndexSet(reduced)), k, free) = reduced
  <2>1. MaxBlock \in {MaxBlock, 2^ByteBits} /\ k = Cardinality(reduced)
    BY <1>8, <1>9
  <2> HIDE DEF k, free, reduced
  <2> QED BY <1>5, <1>8, <1>c, <2>1, RankField
<1>f. Gone(j + 1) = G \cup P
  <2>1. \A i : i \in 1 .. j + 1 <=> i \in 1 .. j \/ i = j + 1
    BY <1>1
  <2> QED BY <2>1 DEF Gone, Positioned, Positions
<1>g. Free(j + 1) = L \ P /\ n - Cardinality(Gone(j + 1)) = free - k
  <2>1. Free(j + 1) = L \ P
    BY <1>f DEF Free
  <2>2. n - (Cardinality(G) + k) = (n - Cardinality(G)) - k
    <3> DEFINE g == Cardinality(G)
    <3>1. g \in Int /\ n \in Int /\ k \in Int
      BY <1>3, <1>4
    <3> HIDE DEF g, k
    <3> QED BY <3>1 DEF g
  <2> QED BY <1>3, <1>f, <2>1, <2>2
<1> HIDE DEF f1, f2
<1>h. OwnFields(j, G, free)[1] = f1 /\ OwnFields(j, G, free)[2] = f2 /\ Len(OwnFields(j, G, free)) = 2
  BY <1>a
<1>i. OwnFields(j, G, free) \in Seq(FieldRecords) /\ \A y \in 1 .. 2 : GoodField(OwnFields(j, G, free)[y])
  <2>1. f1 \in FieldRecords /\ f2 \in FieldRecords
    BY <1>d, <1>e DEF GoodField
  <2>2. \A y \in 1 .. 2 : y = 1 \/ y = 2
    OBVIOUS
  <2>3. <<f1, f2>> \in Seq(FieldRecords)
    BY <2>1
  <2> DEFINE fields == OwnFields(j, G, free)
  <2>4. fields \in Seq(FieldRecords) /\ fields[1] = f1 /\ fields[2] = f2
    BY <1>a, <1>h, <2>3
  <2> HIDE DEF fields
  <2>5. \A y \in 1 .. 2 : GoodField(fields[y])
    BY <1>d, <1>e, <2>2, <2>4
  <2> QED BY <2>4, <2>5 DEF fields
<1> QED BY <1>5, <1>7, <1>8, <1>e, <1>f, <1>g, <1>h, <1>i DEF f1, f2

-----------------------------------------------------------------------------
(* The steps of the encoder.                                               *)

(* The fields are those of the block and of the reference alphabet.        *)
LEMMA SameFields ==
  ASSUME UNCHANGED <<mode, reference, file, at>>
  PROVE  /\ UNCHANGED <<OwnHeader, OwnCountBits, OwnMost>>
         /\ \A j : Gone(j)' = Gone(j)
         /\ \A j, gone, free : OwnFields(j, gone, free)' = OwnFields(j, gone, free)
         /\ \A x : SentHeader(x)' = SentHeader(x)
         /\ \A j, y : SentSymbol(j, y)' = SentSymbol(j, y)
<1>1. UNCHANGED <<block, n, OwnSymbols>>
  BY SameBlock
<1>2. UNCHANGED Alphabet
  BY <1>1 DEF Alphabet
<1>3. \A v : Positions(v)' = Positions(v)
  BY <1>1 DEF Positions
<1>4. \A v : Count(v)' = Count(v)
  BY <1>3 DEF Count
<1>5. UNCHANGED OwnMost
  BY <1>2, <1>4 DEF OwnMost
<1>6. UNCHANGED OwnCountBits
  BY <1>2, <1>4, <1>5 DEF OwnCountBits
<1>7. UNCHANGED OwnHeader
  BY <1>1, <1>2, <1>5, <1>6 DEF OwnHeader, Difference
<1>8. \A j : Gone(j)' = Gone(j)
  BY <1>1 DEF Gone
<1>9. ASSUME NEW j, NEW gone, NEW free PROVE OwnFields(j, gone, free)' = OwnFields(j, gone, free)
  BY <1>1, <1>3, <1>6 DEF OwnFields
<1>a. \A rank : Ciphered(rank)' = Ciphered(rank)
  BY DEF Ciphered
<1>b. ASSUME NEW f PROVE Sent(f)' = Sent(f)
  BY <1>a DEF Sent
<1>c. ASSUME NEW x PROVE SentHeader(x)' = SentHeader(x)
  BY <1>7, <1>a DEF SentHeader, Sent
<1>d. ASSUME NEW j, NEW y PROVE SentSymbol(j, y)' = SentSymbol(j, y)
  BY <1>1, <1>3, <1>6, <1>8, <1>a DEF SentSymbol, OwnFields, Sent
<1> QED BY <1>5, <1>6, <1>7, <1>8, <1>9, <1>c, <1>d

(* What was encoded stays so.                                              *)
LEMMA EncodedStays ==
  ASSUME UNCHANGED <<mode, reference, file, at, out>>, NEW k, Encoded(k)
  PROVE  Encoded(k)'
BY SameFields DEF Encoded

(* Fields of a block are written after the ones before.                    *)
LEMMA WriteFieldsLaw ==
  ASSUME Source, NEW before \in Seq(FieldRecords), NEW fields \in Seq(FieldRecords),
         \A x \in 1 .. Len(fields) : GoodField(fields[x]),
         NEW w, Sound(w), PackedTo(Held(w), before, Len(before)), Write(w, before, fields)
  PROVE  /\ out' \in Seq(FieldRecords) /\ Len(out') = Len(before) + Len(fields)
         /\ \A x \in 1 .. Len(before) : out'[x] = before[x]
         /\ \A x \in 1 .. Len(fields) : out'[Len(before) + x] = Sent(fields[x]) /\ Writable(Sent(fields[x]))
         /\ Sound(writer') /\ PackedTo(Held(writer'), out', Len(out'))
<1> DEFINE sending == [x \in 1 .. Len(fields) |-> Sent(fields[x])]
<1>1. Len(before) \in Nat /\ Len(fields) \in Nat
  OBVIOUS
<1>2. \A x \in 1 .. Len(fields) : Writable(Sent(fields[x]))
  BY SentLaw
<1>3. sending \in Seq(FieldRecords) /\ Len(sending) = Len(fields) /\ \A x \in 1 .. Len(fields) : sending[x] = Sent(fields[x])
  <2>1. sending \in [1 .. Len(fields) -> FieldRecords]
    BY <1>2 DEF Writable
  <2> QED BY <1>1, <2>1
<1>4. writer' = Written(w, sending) /\ out' = before \o sending
  BY DEF Write
<1> HIDE DEF sending
<1>5. /\ out' \in Seq(FieldRecords) /\ Len(out') = Len(before) + Len(fields)
      /\ \A x \in 1 .. Len(before) : out'[x] = before[x]
      /\ \A x \in 1 .. Len(fields) : out'[Len(before) + x] = sending[x]
  <2> DEFINE t == before \o sending
  <2>1. /\ t \in Seq(FieldRecords) /\ Len(t) = Len(before) + Len(sending)
        /\ \A i \in 1 .. Len(before) + Len(sending) : t[i] = IF i <= Len(before) THEN before[i] ELSE sending[i - Len(before)]
    <3>1. PICK b \in Seq(FieldRecords) : b = before
      OBVIOUS
    <3>2. PICK s \in Seq(FieldRecords) : s = sending
      BY <1>3
    <3> QED BY <3>1, <3>2, ConcatProperties
  <2> HIDE DEF t
  <2>2. \A x \in 1 .. Len(before) : t[x] = before[x]
    BY <1>1, <1>3, <2>1
  <2>3. ASSUME NEW x \in 1 .. Len(fields) PROVE t[Len(before) + x] = sending[x]
    <3>1. Len(before) + x \in 1 .. Len(before) + Len(sending) /\ ~(Len(before) + x <= Len(before)) /\ (Len(before) + x) - Len(before) = x
      BY <1>1, <1>3
    <3> QED BY <2>1, <3>1
  <2> QED BY <1>3, <1>4, <2>1, <2>2, <2>3 DEF t
<1>6. Sound(writer') /\ PackedTo(Held(writer'), out', Len(out'))
  <2> DEFINE t == out'
  <2>1. /\ t \in Seq(FieldRecords) /\ Len(t) = Len(before) + Len(sending)
        /\ \A x \in 1 .. Len(before) : t[x] = before[x]
        /\ \A x \in 1 .. Len(sending) : t[Len(before) + x] = sending[x]
        /\ \A x \in 1 .. Len(sending) : Writable(sending[x])
    BY <1>2, <1>3, <1>5
  <2> HIDE DEF t
  <2>2. Sound(Written(w, sending)) /\ PackedTo(Held(Written(w, sending)), t, Len(t))
    BY <1>3, <2>1, WrittenLaw
  <2> QED BY <1>4, <2>2 DEF t
<1> QED BY <1>2, <1>3, <1>5, <1>6

(* Nothing is written yet.                                                 *)
LEMMA EmptyPacked ==
  Sound(EmptyWriter) /\ <<>> \in Seq(FieldRecords) /\ Len(<<>>) = 0 /\ PackedTo(Held(EmptyWriter), <<>>, 0)
<1> DEFINE w == EmptyWriter
<1>1. w.buf = <<>> /\ w.acc = 0 /\ w.nAcc = 0 /\ w = [buf |-> <<>>, acc |-> 0, nAcc |-> 0]
  BY DEF EmptyWriter
<1>2. Sound(w)
  <2>1. 0 \in 0 .. ByteBits - 1 /\ 2^0 = 1 /\ <<>> \in Seq(Bytes)
    BY ByteTypes
  <2> QED BY <1>1, <2>1 DEF Sound, Writers
<1> HIDE DEF w
<1>3. Len(Held(w)) = 0
  <2>1. Unpacked(w.buf) \in Seq(Bit) /\ Len(Unpacked(w.buf)) = ByteBits * Len(w.buf) /\ Len(w.buf) = 0 /\ ByteBits \in Nat
    BY <1>1, <1>2, HeldTypes, UnpackedTypes, ByteTypes
  <2>2. BitsOf(w.acc, w.nAcc) \in Seq(Bit) /\ Len(BitsOf(w.acc, w.nAcc)) = 0
    BY <1>1, BitsTypes
  <2>3. Len(Held(w)) = Len(Unpacked(w.buf)) + Len(BitsOf(w.acc, w.nAcc))
    BY <2>1, <2>2, JoinedLaw DEF Held
  <2> QED BY <2>1, <2>2, <2>3
<1>4. <<>> \in Seq(FieldRecords) /\ Len(<<>>) = 0
  OBVIOUS
<1>5. Ends(<<>>)[0] = 0
  BY <1>4, EndsLaw DEF EndPositions
<1>6. PackedTo(Held(w), <<>>, 0)
  <2>1. 1 .. 0 = {}
    OBVIOUS
  <2> QED BY <1>3, <1>5, <2>1 DEF PackedTo
<1> QED BY <1>2, <1>4, <1>6 DEF w

(* The header goes first ...                                               *)
LEMMA HeaderWritten ==
  ASSUME IInv, CInv, EncodeHeader
  PROVE  Fitting' /\ Encoding'
<1>1. Write(EmptyWriter, <<>>, OwnHeader) /\ sent' = 0 /\ UNCHANGED <<mode, reference, file, at>>
  BY HeaderSent DEF IInv, EncodeHeader, stream
<1>2. Source /\ reference \in SUBSET Bytes
  BY DEF IInv, CInv, Agreed
<1>3. Len(OwnHeader) = 4 /\ OwnHeader \in Seq(FieldRecords) /\ \A x \in 1 .. 4 : GoodField(OwnHeader[x])
  BY <1>2, HeaderLaw
<1> DEFINE before == <<>>
           fields == OwnHeader
<1>4. /\ Sound(EmptyWriter) /\ before \in Seq(FieldRecords) /\ Len(before) = 0 /\ PackedTo(Held(EmptyWriter), before, Len(before))
  BY EmptyPacked
<1> HIDE DEF before, fields
<1>5. /\ out' \in Seq(FieldRecords) /\ Len(out') = Len(before) + Len(fields)
      /\ \A x \in 1 .. Len(fields) : out'[Len(before) + x] = Sent(fields[x]) /\ Writable(Sent(fields[x]))
      /\ Sound(writer') /\ PackedTo(Held(writer'), out', Len(out'))
  BY <1>1, <1>2, <1>3, <1>4, WriteFieldsLaw DEF before, fields
<1>6. /\ Len(out') = 4
      /\ \A x \in 1 .. 4 : out'[x] = SentHeader(x) /\ Writable(SentHeader(x))
  <2>1. Len(out') = 4 /\ Len(fields) = 4
    BY <1>3, <1>4, <1>5 DEF fields
  <2>2. ASSUME NEW x \in 1 .. 4 PROVE out'[x] = SentHeader(x) /\ Writable(SentHeader(x))
    <3>1. Len(before) + x = x /\ x \in 1 .. Len(fields)
      BY <1>4, <2>1
    <3> QED BY <1>5, <3>1 DEF SentHeader, fields
  <2> QED BY <2>1, <2>2
<1>7. Fitting'
  <2>1. \A x \in 1 .. Len(out') : out'[x].val < 2^(out'[x].width)
    BY <1>6 DEF Writable
  <2> QED BY <1>5, <2>1 DEF Fitting
<1>8. Encoded(0)'
  <2>1. \A x \in 1 .. 4 : SentHeader(x)' = SentHeader(x)
    BY <1>1, SameFields
  <2>2. 0 .. 0 - 1 = {} /\ 4 + 2 * 0 = 4
    OBVIOUS
  <2> QED BY <1>5, <1>6, <2>1, <2>2 DEF Encoded
<1>9. Encoding'
  BY <1>1, <1>5, <1>8 DEF Encoding
<1> QED BY <1>7, <1>9

(* ... and the symbols follow it.                                          *)
LEMMA SymbolWritten ==
  ASSUME IInv, CInv, EncodeSymbol
  PROVE  Fitting' /\ Encoding'
<1>0. PICK j : j = sent
  OBVIOUS
<1> DEFINE fields == OwnFields(j, Gone(j), n - Cardinality(Gone(j)))
<1>1. /\ pc = "symbols" /\ sent' = sent + 1 /\ UNCHANGED <<mode, reference, file, at>>
      /\ Write(writer, out, OwnFields(sent, removed, room)) /\ sent < Len(OwnSymbols) - 1
  <2>1. Source /\ counts = Tally
    BY DEF IInv, Sending, EncodeSymbol
  <2> QED BY <2>1, SymbolSent DEF EncodeSymbol, stream
<1>2. Source /\ removed = Gone(j) /\ room = n - Cardinality(Gone(j)) /\ j \in Nat
  <2>1. Source /\ removed = Gone(j) /\ room = n - Cardinality(removed) /\ sent \in 0 .. Len(OwnSymbols) - 1
    BY <1>0, <1>1 DEF IInv, Sending, Gone
  <2> QED BY <1>0, <2>1
<1>3. Encoded(j) /\ Sound(writer) /\ PackedTo(Held(writer), out, Len(out)) /\ Fitting
  BY <1>0, <1>1 DEF CInv, Encoding
<1>4. /\ out \in Seq(FieldRecords) /\ Len(out) = 4 + 2 * j
      /\ \A x \in 1 .. 4 : out[x] = SentHeader(x)
      /\ \A i \in 0 .. j - 1, y \in 1 .. 2 : out[4 + 2 * i + y] = SentSymbol(i, y)
  BY <1>3 DEF Encoded
<1>5. Len(fields) = 2 /\ fields \in Seq(FieldRecords) /\ \A y \in 1 .. 2 : GoodField(fields[y])
  <2>1. j \in 0 .. Len(OwnSymbols) - 2
    <3>1. Len(OwnSymbols) \in Nat
      BY <1>2, SymbolsLaw
    <3> QED BY <1>0, <1>1, <1>2, <3>1
  <2> QED BY <1>2, <2>1, SymbolLaw
<1>6. \A y : Sent(fields[y]) = SentSymbol(j, y)
  BY DEF SentSymbol
<1>7. Write(writer, out, fields)
  BY <1>0, <1>1, <1>2
<1> HIDE DEF fields
<1>8. /\ out' \in Seq(FieldRecords) /\ Len(out') = Len(out) + Len(fields)
      /\ \A x \in 1 .. Len(out) : out'[x] = out[x]
      /\ \A x \in 1 .. Len(fields) : out'[Len(out) + x] = Sent(fields[x]) /\ Writable(Sent(fields[x]))
      /\ Sound(writer') /\ PackedTo(Held(writer'), out', Len(out'))
  BY <1>2, <1>3, <1>4, <1>5, <1>7, WriteFieldsLaw
<1>9. /\ Len(out') = 4 + 2 * (j + 1)
      /\ \A y \in 1 .. 2 : out'[4 + 2 * j + y] = SentSymbol(j, y) /\ Writable(SentSymbol(j, y))
      /\ \A x \in 1 .. 4 + 2 * j : out'[x] = out[x]
  BY <1>2, <1>4, <1>5, <1>6, <1>8
<1>a. Fitting'
  <2>1. ASSUME NEW x \in 1 .. Len(out') PROVE out'[x].val < 2^(out'[x].width)
    <3>1. CASE x \in 1 .. 4 + 2 * j
      BY <1>3, <1>4, <1>9, <3>1 DEF Fitting
    <3>2. CASE x \notin 1 .. 4 + 2 * j
      <4>1. x - (4 + 2 * j) \in 1 .. 2 /\ x = 4 + 2 * j + (x - (4 + 2 * j))
        BY <1>2, <1>9, <3>2
      <4>2. \A y \in 1 .. 2 : out'[4 + 2 * j + y].val < 2^(out'[4 + 2 * j + y].width)
        BY <1>9 DEF Writable
      <4> QED BY <4>1, <4>2
    <3> QED BY <3>1, <3>2
  <2> QED BY <1>8, <2>1 DEF Fitting
<1>b. Encoded(j + 1)'
  <2>1. /\ \A x \in 1 .. 4 : SentHeader(x)' = SentHeader(x)
        /\ \A i, y : SentSymbol(i, y)' = SentSymbol(i, y)
    BY <1>1, SameFields
  <2>2. ASSUME NEW x \in 1 .. 4 PROVE out'[x] = SentHeader(x)
    <3>1. x \in 1 .. 4 + 2 * j
      BY <1>2
    <3> QED BY <1>4, <1>9, <3>1
  <2>3. ASSUME NEW i \in 0 .. (j + 1) - 1, NEW y \in 1 .. 2 PROVE out'[4 + 2 * i + y] = SentSymbol(i, y)
    <3>1. CASE i = j
      BY <1>9, <3>1
    <3>2. CASE i # j
      <4>1. i \in 0 .. j - 1 /\ 4 + 2 * i + y \in 1 .. 4 + 2 * j
        BY <1>2, <3>2
      <4> QED BY <1>4, <1>9, <4>1
    <3> QED BY <3>1, <3>2
  <2> QED BY <1>8, <1>9, <2>1, <2>2, <2>3 DEF Encoded
<1>c. Encoding'
  <2>1. sent' = j + 1
    BY <1>0, <1>1
  <2> QED BY <1>8, <1>b, <2>1 DEF Encoding, Encoded
<1> QED BY <1>a, <1>c

(* Bytes that hold more bits than the fields carry them.                   *)
LEMMA PackedCarries ==
  ASSUME NEW t \in Seq(FieldRecords), NEW bits \in Seq(Bit), PackedTo(bits, t, Len(t)), NEW more \in Seq(Bit)
  PROVE  Carries(Joined(bits, more), t)
<1> DEFINE e == Ends(t)
           all == Joined(bits, more)
<1>1. Len(bits) = e[Len(t)] /\ Len(all) = Len(bits) + Len(more) /\ Len(more) \in Nat /\ Len(bits) \in Nat /\ Len(t) \in Nat
  <2>1. Len(bits) = e[Len(t)]
    BY DEF PackedTo
  <2>2. Len(all) = Len(bits) + Len(more)
    BY JoinedLaw
  <2> QED BY <2>1, <2>2
<1>2. ASSUME NEW x \in 1 .. Len(t) PROVE e[x] <= Len(all) /\ InBits(all, t[x], e[x - 1])
  <2>1. x \in 0 .. Len(t) /\ Len(t) \in x .. Len(t) /\ x - 1 \in 0 .. Len(t)
    BY <1>1
  <2>2. e[x] <= e[Len(t)] /\ e[x] \in Nat
    BY <2>1, EndsGrow
  <2>3. e[x - 1] \in Nat /\ t[x].width \in Nat /\ e[x] = e[x - 1] + t[x].width
    BY <2>1, EndsLaw, FieldTypes DEF EndPositions
  <2>4. InBits(bits, t[x], e[x - 1])
    BY DEF PackedTo
  <2> HIDE DEF e
  <2>5. e[x - 1] + t[x].width <= Len(bits)
    BY <1>1, <2>2, <2>3
  <2>6. Slice(all, e[x - 1], t[x].width) = Slice(bits, e[x - 1], t[x].width)
    BY <2>3, <2>5, SliceKept
  <2>7. e[x] <= Len(all)
    <3> HIDE DEF all
    <3> QED BY <1>1, <2>2
  <2> QED BY <2>4, <2>6, <2>7 DEF InBits
<1> QED BY <1>2 DEF Carries

(* The packed block holds all of them.                                     *)
LEMMA BlockHandedOver ==
  ASSUME IInv, CInv, HandOver
  PROVE  Fitting' /\ Carried'
<1>1. /\ pc = "symbols" /\ sent = Len(OwnSymbols) - 1 /\ data' = Flushed(writer).buf /\ UNCHANGED <<mode, reference, file, at, out>>
  <2>1. Source /\ counts = Tally
    BY DEF IInv, Sending, HandOver
  <2> QED BY <2>1, TallyTells DEF HandOver, stream
<1>2. Encoded(sent) /\ Sound(writer) /\ PackedTo(Held(writer), out, Len(out)) /\ Fitting /\ out \in Seq(FieldRecords)
  BY <1>1 DEF CInv, Encoding, Fitting
<1>3. Fitting'
  BY <1>1, <1>2 DEF Fitting
<1>4. Encoded(Len(OwnSymbols) - 1)'
  <2>1. PICK k : k = sent
    OBVIOUS
  <2>2. Encoded(k)'
    BY <1>1, <1>2, <2>1, EncodedStays
  <2>3. Len(OwnSymbols)' - 1 = k
    BY <1>1, <2>1, SameBlock
  <2> QED BY <2>2, <2>3 DEF Encoded
<1> DEFINE x == Flushed(writer)
           fill == ByteBits * Len(x.buf) - Len(Held(writer))
<1>5. Sound(x) /\ fill \in 0 .. ByteBits - 1 /\ Unpacked(x.buf) = Joined(Held(writer), BitsOf(0, fill))
  BY <1>2, FlushedLaw
<1> HIDE DEF x, fill
<1>6. data' = x.buf /\ x.buf \in Seq(Bytes)
  BY <1>1, <1>5 DEF x, Sound, Writers
<1>7. Held(writer) \in Seq(Bit) /\ BitsOf(0, fill) \in Seq(Bit)
  <2>1. fill \in Nat
    BY <1>5, ByteTypes
  <2> QED BY <1>2, <2>1, HeldTypes, BitsTypes
<1>8. Carries(Unpacked(data'), out)
  <2>1. Carries(Joined(Held(writer), BitsOf(0, fill)), out)
    BY <1>2, <1>7, PackedCarries
  <2> QED BY <1>5, <1>6, <2>1
<1>9. Carries(Unpacked(data'), out')
  BY <1>1, <1>8
<1> QED BY <1>3, <1>4, <1>6, <1>9 DEF Carried

-----------------------------------------------------------------------------
(* The steps of the decoder with the right key.                            *)

(* A field is where the decoder reads it.                                  *)
ReadAt(x, f) ==
  LET pos == Ends(out)[x - 1] IN
  /\ pos \in Nat /\ f.width \in Nat
  /\ Ends(out)[x] = pos + f.width /\ Ends(out)[x] <= EndOfData
  /\ ReadField(pos, f.width, f.modulus, f.index, f.rank) = f.val

(* With the right key the decoder reads a field at its place as it was.    *)
LEMMA FieldRead ==
  ASSUME Source, data \in Seq(Bytes), out \in Seq(FieldRecords), Carries(Unpacked(data), out), key = "right",
         NEW x \in 1 .. Len(out), NEW f, GoodField(f), out[x] = Sent(f)
  PROVE  ReadAt(x, f)
<1> DEFINE g == Sent(f)
           pos == Ends(out)[x - 1]
<1>1. Writable(g) /\ g.width = f.width /\ g.rank = f.rank /\ Taken(g.val, f.modulus, f.index, f.rank) = f.val
  BY SentLaw
<1>2. out[x] = g
  OBVIOUS
<1> HIDE DEF g
<1>3. pos \in Nat /\ f.width \in Nat /\ Ends(out)[x] = pos + f.width
  <2>1. x - 1 \in 0 .. Len(out) /\ Len(out) \in Nat
    OBVIOUS
  <2>2. out[x].width \in Nat
    BY FieldTypes
  <2> QED BY <1>1, <1>2, <2>1, <2>2, EndsLaw DEF EndPositions
<1>4. InBits(Unpacked(data), g, pos) /\ Ends(out)[x] <= EndOfData
  <2>1. InBits(Unpacked(data), out[x], pos) /\ Ends(out)[x] <= Len(Unpacked(data))
    BY DEF Carries
  <2>2. data \in Seq(Nat)
    BY ByteTypes, SeqWithin
  <2>3. Len(Unpacked(data)) = EndOfData
    BY <2>2, UnpackedTypes DEF EndOfData
  <2> QED BY <1>2, <2>1, <2>3
<1> HIDE DEF pos
<1>5. ReadField(pos, g.width, f.modulus, f.index, g.rank) = Taken(g.val, f.modulus, f.index, g.rank)
  <2>1. pos + g.width <= EndOfData
    BY <1>1, <1>3, <1>4
  <2> QED BY <1>1, <1>3, <1>4, <2>1, ReadFieldLaw
<1> QED BY <1>1, <1>3, <1>4, <1>5 DEF pos, ReadAt

(* So it reads the header ...                                              *)
LEMMA HeaderRead ==
  ASSUME IInv, CInv, pc = "decode", key = "right"
  PROVE  LET c == Cardinality(Difference)
             coefficient == BinCoef(2^ByteBits, c)
             mostAt == ByteBits + 1 + BitLength(coefficient)
             end == mostAt + ByteBits + BitLength(n) IN
         /\ c \in 0 .. 2^ByteBits
         /\ ReadField(0, ByteBits + 1, 2^(ByteBits + 1), FieldAlphabetCardinality, FALSE) = c
         /\ ReadField(ByteBits + 1, BitLength(coefficient), coefficient, FieldAlphabetRank, TRUE)
              = Rank(IndexSet(Difference))
         /\ ReadField(mostAt, ByteBits, 2^ByteBits, FieldMostFrequent, FALSE) = OwnMost
         /\ ReadField(end - BitLength(n), BitLength(n), 2^BitLength(n), FieldCountWidth, FALSE) = OwnCountBits
         /\ end <= EndOfData /\ end = Ends(out)[4]
<1> DEFINE c == Cardinality(Difference)
           u == 2^ByteBits
           coefficient == BinCoef(u, c)
           w1 == ByteBits + 1
           w2 == BitLength(coefficient)
           w4 == BitLength(n)
           m1 == 2^w1
           m4 == 2^w4
           rank == Rank(IndexSet(Difference))
           e == Ends(out)
           f1 == Field(c, w1, m1, FieldAlphabetCardinality, FALSE)
           f2 == Field(rank, w2, coefficient, FieldAlphabetRank, TRUE)
           f3 == Field(OwnMost, ByteBits, u, FieldMostFrequent, FALSE)
           f4 == Field(OwnCountBits, w4, m4, FieldCountWidth, FALSE)
<1>1. Source /\ reference \in SUBSET Bytes
  BY DEF IInv, CInv, Agreed
<1>2. /\ c \in 0 .. u /\ \A x \in 1 .. 4 : GoodField(OwnHeader[x])
      /\ OwnHeader[1] = f1 /\ OwnHeader[2] = f2 /\ OwnHeader[3] = f3 /\ OwnHeader[4] = f4
  BY <1>1, HeaderLaw
<1>3. /\ Encoded(Len(OwnSymbols) - 1) /\ data \in Seq(Bytes) /\ Carries(Unpacked(data), out)
  BY DEF CInv, Carried
<1>4. out \in Seq(FieldRecords) /\ Len(out) >= 4 /\ Len(out) \in Nat /\ \A x \in 1 .. 4 : out[x] = SentHeader(x)
  <2>1. Len(OwnSymbols) \in Nat /\ Len(OwnSymbols) >= 1
    BY <1>1, SymbolsLaw
  <2>2. out \in Seq(FieldRecords) /\ Len(out) = 4 + 2 * (Len(OwnSymbols) - 1) /\ \A x \in 1 .. 4 : out[x] = SentHeader(x)
    BY <1>3 DEF Encoded
  <2> QED BY <2>1, <2>2
<1> HIDE DEF c, u, coefficient, w1, w2, w4, m1, m4, rank, e
<1>5. /\ GoodField(f1) /\ GoodField(f2) /\ GoodField(f3) /\ GoodField(f4)
      /\ out[1] = Sent(f1) /\ out[2] = Sent(f2) /\ out[3] = Sent(f3) /\ out[4] = Sent(f4)
  <2> HIDE DEF f1, f2, f3, f4
  <2>1. \A x \in 1 .. 4 : out[x] = Sent(OwnHeader[x])
    BY <1>4 DEF SentHeader
  <2>2. 1 \in 1 .. 4 /\ 2 \in 1 .. 4 /\ 3 \in 1 .. 4 /\ 4 \in 1 .. 4
    OBVIOUS
  <2> QED BY <1>2, <2>1, <2>2
<1>6. 1 \in 1 .. Len(out) /\ 2 \in 1 .. Len(out) /\ 3 \in 1 .. Len(out) /\ 4 \in 1 .. Len(out)
  BY <1>4
<1>7. /\ e[0] \in Nat /\ w1 \in Nat /\ e[1] = e[0] + w1 /\ e[1] <= EndOfData
      /\ ReadField(e[0], w1, m1, FieldAlphabetCardinality, FALSE) = c
  <2>1. f1.val = c /\ f1.width = w1 /\ f1.modulus = m1 /\ f1.index = FieldAlphabetCardinality /\ f1.rank = FALSE
    BY DEF Field
  <2>2. 1 - 1 = 0
    OBVIOUS
  <2> HIDE DEF f1
  <2>3. ReadAt(1, f1)
    BY <1>1, <1>3, <1>4, <1>5, <1>6, FieldRead
  <2> QED BY <2>1, <2>2, <2>3 DEF ReadAt, e
<1>8. /\ e[1] \in Nat /\ w2 \in Nat /\ e[2] = e[1] + w2 /\ e[2] <= EndOfData
      /\ ReadField(e[1], w2, coefficient, FieldAlphabetRank, TRUE) = rank
  <2>1. f2.val = rank /\ f2.width = w2 /\ f2.modulus = coefficient /\ f2.index = FieldAlphabetRank /\ f2.rank = TRUE
    BY DEF Field
  <2>2. 2 - 1 = 1
    OBVIOUS
  <2> HIDE DEF f2
  <2>3. ReadAt(2, f2)
    BY <1>1, <1>3, <1>4, <1>5, <1>6, FieldRead
  <2> QED BY <2>1, <2>2, <2>3 DEF ReadAt, e
<1>9. /\ e[2] \in Nat /\ ByteBits \in Nat /\ e[3] = e[2] + ByteBits /\ e[3] <= EndOfData
      /\ ReadField(e[2], ByteBits, u, FieldMostFrequent, FALSE) = OwnMost
  <2>1. f3.val = OwnMost /\ f3.width = ByteBits /\ f3.modulus = u /\ f3.index = FieldMostFrequent /\ f3.rank = FALSE
    BY DEF Field
  <2>2. 3 - 1 = 2
    OBVIOUS
  <2> HIDE DEF f3
  <2>3. ReadAt(3, f3)
    BY <1>1, <1>3, <1>4, <1>5, <1>6, FieldRead
  <2> QED BY <2>1, <2>2, <2>3 DEF ReadAt, e
<1>a. /\ e[3] \in Nat /\ w4 \in Nat /\ e[4] = e[3] + w4 /\ e[4] <= EndOfData
      /\ ReadField(e[3], w4, m4, FieldCountWidth, FALSE) = OwnCountBits
  <2>1. f4.val = OwnCountBits /\ f4.width = w4 /\ f4.modulus = m4 /\ f4.index = FieldCountWidth /\ f4.rank = FALSE
    BY DEF Field
  <2>2. 4 - 1 = 3
    OBVIOUS
  <2> HIDE DEF f4
  <2>3. ReadAt(4, f4)
    BY <1>1, <1>3, <1>4, <1>5, <1>6, FieldRead
  <2> QED BY <2>1, <2>2, <2>3 DEF ReadAt, e
<1>b. e[0] = 0 /\ e[1] = w1
  <2>1. e[0] = 0
    BY <1>4, EndsLaw DEF EndPositions, e
  <2> QED BY <1>7, <2>1
<1>c. e[2] = w1 + w2 /\ e[3] = w1 + w2 + ByteBits /\ e[4] = w1 + w2 + ByteBits + w4
      /\ (w1 + w2 + ByteBits + w4) - w4 = e[3]
  <2>1. e[2] = w1 + w2
    BY <1>8, <1>b
  <2>2. e[3] = w1 + w2 + ByteBits
    BY <1>9, <2>1
  <2>3. e[4] = w1 + w2 + ByteBits + w4
    BY <1>a, <2>2
  <2>4. (w1 + w2 + ByteBits + w4) - w4 = w1 + w2 + ByteBits
    BY <1>7, <1>8, <1>9, <1>a
  <2> QED BY <2>1, <2>2, <2>3, <2>4
<1>d. /\ ReadField(0, w1, m1, FieldAlphabetCardinality, FALSE) = c
      /\ ReadField(w1, w2, coefficient, FieldAlphabetRank, TRUE) = rank
      /\ ReadField(w1 + w2, ByteBits, u, FieldMostFrequent, FALSE) = OwnMost
      /\ ReadField((w1 + w2 + ByteBits + w4) - w4, w4, m4, FieldCountWidth, FALSE) = OwnCountBits
      /\ w1 + w2 + ByteBits + w4 <= EndOfData /\ w1 + w2 + ByteBits + w4 = e[4]
  BY <1>7, <1>8, <1>9, <1>a, <1>b, <1>c
<1> QED BY <1>2, <1>d DEF c, u, coefficient, w1, w2, w4, m1, m4, rank, e

(* ... and is ready for the first value.                                   *)
LEMMA HeaderDecoded ==
  ASSUME IInv, CInv, DecodeHeader, key = "right"
  PROVE  pc' = "rehydrate" /\ Following'
<1> DEFINE cardinality == ReadField(0, ByteBits + 1, 2^(ByteBits + 1), FieldAlphabetCardinality, FALSE)
           modulus == BinCoef(2^ByteBits, cardinality)
           mostAt == ByteBits + 1 + BitLength(modulus)
           end == mostAt + ByteBits + BitLength(n)
           rank == ReadField(ByteBits + 1, BitLength(modulus), modulus, FieldAlphabetRank, TRUE)
           most == ReadField(mostAt, ByteBits, 2^ByteBits, FieldMostFrequent, FALSE)
           kb == ReadField(end - BitLength(n), BitLength(n), 2^BitLength(n), FieldCountWidth, FALSE)
           c == Cardinality(Difference)
<1>1. /\ pc = "decode" /\ size' = Max({size, n}) /\ UNCHANGED <<mode, key, reference, file, at, out, result>>
  BY DEF DecodeHeader, stream, encoder
<1>2. \/ mode = "full" /\ cardinality > 2^ByteBits
      \/ cardinality <= 2^ByteBits /\ end > EndOfData
      \/ /\ keys' = SortedKeys(SymmetricDifference(Unrank(rank, cardinality, 2^ByteBits), seen), most)
         /\ kBits' = kb /\ read' = end /\ left' = Unoccupied(size') /\ vacant' = n /\ got' = 0
         /\ pc' = "rehydrate"
  BY DEF DecodeHeader
<1>3. /\ c \in 0 .. 2^ByteBits /\ cardinality = c
      /\ rank = Rank(IndexSet(Difference)) /\ most = OwnMost /\ kb = OwnCountBits
      /\ end <= EndOfData /\ end = Ends(out)[4]
  BY <1>1, HeaderRead
<1> HIDE DEF cardinality, end, rank, most, kb
<1>4. Source /\ reference \in SUBSET Bytes /\ seen = reference /\ size \in Nat /\ out \in Seq(FieldRecords)
  BY DEF IInv, CInv, Agreed, Memory, Fitting
<1>5. ~(cardinality > 2^ByteBits) /\ ~(end > EndOfData)
  <2> DEFINE u == 2^ByteBits
  <2>1. u \in Nat /\ EndOfData \in Int /\ end \in Int
    <3>1. EndOfData \in Int
      BY ByteTypes DEF EndOfData, CInv, Carried
    <3>2. end \in Nat
      <4>1. Len(OwnSymbols) \in Nat /\ Len(OwnSymbols) >= 1
        BY <1>4, SymbolsLaw
      <4>2. Encoded(Len(OwnSymbols) - 1)
        BY <1>1 DEF CInv, Carried
      <4>3. Len(out) = 4 + 2 * (Len(OwnSymbols) - 1)
        BY <4>2 DEF Encoded
      <4>4. 4 \in 0 .. Len(out)
        BY <4>1, <4>3
      <4>5. Ends(out)[4] \in Nat
        BY <1>4, <4>4, EndsLaw DEF EndPositions
      <4> QED BY <1>3, <4>5
    <3> QED BY <3>1, <3>2, ByteTypes
  <2>2. cardinality \in 0 .. u
    BY <1>3
  <2> HIDE DEF u
  <2>3. ~(cardinality > u)
    BY <2>1, <2>2
  <2>4. ~(end > EndOfData)
    BY <1>3, <2>1
  <2> QED BY <2>3, <2>4 DEF u
<1>6. /\ keys' = SortedKeys(SymmetricDifference(Unrank(rank, cardinality, 2^ByteBits), seen), most)
      /\ kBits' = kb /\ read' = end /\ left' = Unoccupied(size') /\ vacant' = n /\ got' = 0
      /\ pc' = "rehydrate"
  BY <1>2, <1>5
<1>7. keys' = OwnSymbols
  <2>1. Unrank(Rank(IndexSet(Difference)), c, 2^ByteBits) = Difference
        /\ SortedKeys(SymmetricDifference(Difference, reference), OwnMost) = OwnSymbols
    BY <1>4, HeaderLaw
  <2> QED BY <1>3, <1>4, <1>6, <2>1
<1>8. Gone(0) = {} /\ Cardinality(Gone(0)) = 0
  <2>1. Gone(0) = {}
    BY DEF Gone
  <2> QED BY <2>1, FS_EmptySet
<1>9. left' = 0 .. n - 1
  <2>1. n \in Nat /\ size' \in Nat /\ size' >= n
    <3>1. n \in Nat
      BY <1>4, BlockTypes
    <3>2. Max({size, n}) \in Nat /\ Max({size, n}) >= n
      BY <1>4, <3>1, LargerLaw
    <3> QED BY <1>1, <3>1, <3>2
  <2>2. Unoccupied(size') = (0 .. size' - 1) \ (n .. size' - 1)
    BY DEF Unoccupied
  <2>3. (0 .. size' - 1) \ (n .. size' - 1) = 0 .. n - 1
    BY <2>1
  <2> QED BY <1>6, <2>2, <2>3
<1>a. UNCHANGED <<n, OwnSymbols, OwnCountBits>> /\ \A j : Gone(j)' = Gone(j)
  BY <1>1, SameBlock, SameFields
<1>b. /\ got' \in 0 .. Len(OwnSymbols) - 1 /\ left' = (0 .. n - 1) \ Gone(0) /\ vacant' = n - Cardinality(Gone(0))
      /\ read' = Ends(out')[4 + 2 * got']
  <2>1. Len(OwnSymbols) \in Nat /\ Len(OwnSymbols) >= 1 /\ n \in Nat
    BY <1>4, SymbolsLaw, BlockTypes
  <2> QED BY <1>1, <1>3, <1>6, <1>8, <1>9, <2>1
<1>c. Following'
  <2>1. Gone(0)' = {}
    BY <1>8, <1>a
  <2>2. Gone(got)' = {} /\ Gone(0) = {}
    <3>1. got' = 0
      BY <1>6
    <3> QED BY <1>8, <3>1, <1>a DEF Gone
  <2> QED BY <1>1, <1>3, <1>6, <1>7, <1>a, <1>b, <2>2 DEF Following
<1> QED BY <1>6, <1>c

(* It reads a value's count and rank where the encoder wrote them, ...     *)
LEMMA SymbolRead ==
  ASSUME Source, Encoded(Len(OwnSymbols) - 1), data \in Seq(Bytes), Carries(Unpacked(data), out), key = "right",
         NEW j \in 0 .. Len(OwnSymbols) - 2
  PROVE  LET k == Count(OwnSymbols[j + 1])
             coefficient == BinCoef(n - Cardinality(Gone(j)), k)
             pos == Ends(out)[4 + 2 * j]
             end == pos + OwnCountBits + BitLength(coefficient) IN
         /\ pos \in Nat /\ end \in Nat /\ 2^OwnCountBits % Word = 2^OwnCountBits
         /\ pos + OwnCountBits <= EndOfData /\ end <= EndOfData
         /\ ReadField(pos, OwnCountBits, 2^OwnCountBits, SymbolCountField(j), FALSE) = k
         /\ ReadField(pos + OwnCountBits, BitLength(coefficient), coefficient, SymbolRankField(j), TRUE)
              = Rank(IndexSet(Reduced(Positioned(j), Free(j))))
         /\ end = Ends(out)[4 + 2 * (j + 1)]
<1> DEFINE k == Count(OwnSymbols[j + 1])
           free == n - Cardinality(Gone(j))
           coefficient == BinCoef(free, k)
           rank == Rank(IndexSet(Reduced(Positioned(j), Free(j))))
           fields == OwnFields(j, Gone(j), free)
           w == OwnCountBits
           v == BitLength(coefficient)
           m == 2^w
           f1 == Field(k, w, m, SymbolCountField(j), FALSE)
           f2 == Field(rank, v, coefficient, SymbolRankField(j), TRUE)
           e == Ends(out)
           p == 4 + 2 * j
<1>1. fields[1] = f1 /\ fields[2] = f2 /\ \A y \in 1 .. 2 : GoodField(fields[y])
  BY SymbolLaw
<1>2. out \in Seq(FieldRecords) /\ Len(out) = 4 + 2 * (Len(OwnSymbols) - 1)
      /\ \A i \in 0 .. (Len(OwnSymbols) - 1) - 1, y \in 1 .. 2 : out[4 + 2 * i + y] = SentSymbol(i, y)
  BY DEF Encoded
<1>3. \A y \in 1 .. 2 : SentSymbol(j, y) = Sent(fields[y])
  BY DEF SentSymbol
<1>4. w \in Nat /\ w <= MaxWidth /\ MaxWidth \in Int
  BY CountBitsLaw, BitAssumption DEF MaxWidth
<1> HIDE DEF fields, f1, f2, e
<1>5. p \in Nat /\ p + 1 \in 1 .. Len(out) /\ p + 2 \in 1 .. Len(out) /\ (p + 1) - 1 = p /\ (p + 2) - 1 = p + 1
      /\ 4 + 2 * (j + 1) = p + 2 /\ j \in 0 .. (Len(OwnSymbols) - 1) - 1
  <2> DEFINE l == Len(OwnSymbols)
  <2>1. l \in Nat /\ l >= 1 /\ j \in 0 .. l - 2 /\ Len(out) = 4 + 2 * (l - 1)
    BY <1>2, SymbolsLaw
  <2> HIDE DEF l
  <2>2. p \in Nat /\ p + 1 \in 1 .. Len(out) /\ p + 2 \in 1 .. Len(out) /\ (p + 1) - 1 = p /\ (p + 2) - 1 = p + 1
        /\ 4 + 2 * (j + 1) = p + 2 /\ j \in 0 .. (l - 1) - 1
    BY <2>1
  <2> QED BY <2>2 DEF l
<1>6. out[p + 1] = Sent(f1) /\ out[p + 2] = Sent(f2) /\ GoodField(f1) /\ GoodField(f2)
  <2>1. 1 \in 1 .. 2 /\ 2 \in 1 .. 2
    OBVIOUS
  <2>2. out[p + 1] = Sent(fields[1]) /\ out[p + 2] = Sent(fields[2])
    BY <1>2, <1>3, <1>5, <2>1
  <2> QED BY <1>1, <2>1, <2>2
<1>7. f1.val = k /\ f1.width = w /\ f1.modulus = m /\ f1.index = SymbolCountField(j) /\ f1.rank = FALSE
  BY DEF Field, f1
<1>8. f2.val = rank /\ f2.width = v /\ f2.modulus = coefficient /\ f2.index = SymbolRankField(j) /\ f2.rank = TRUE
  BY DEF Field, f2
<1>9. ReadAt(p + 1, f1) /\ ReadAt(p + 2, f2)
  <2> HIDE DEF p
  <2> QED BY <1>2, <1>5, <1>6, FieldRead
<1>a. m % Word = m
  <2>1. m \in Nat \ {0} /\ m <= m
    BY <1>4, PowerPositive
  <2> HIDE DEF w
  <2> DEFINE d == 2^w
  <2>2. d \in Nat /\ d <= 2^w /\ d # 0
    BY <2>1
  <2> HIDE DEF d
  <2>3. Word \in Nat /\ 2 * d <= Word
    BY <1>4, <2>2, ModulusInWord
  <2>4. d < Word /\ Word \in Int
    BY <2>2, <2>3
  <2>5. d % Word = d
    BY <2>2, <2>4, Within
  <2> QED BY <2>5 DEF d
<1> HIDE DEF k, coefficient, rank, w, v, m, p, f1, f2
<1>b. /\ e[p] \in Nat /\ w \in Nat /\ e[p + 1] = e[p] + w /\ e[p + 1] <= EndOfData
      /\ ReadField(e[p], w, m, SymbolCountField(j), FALSE) = k
  BY <1>5, <1>7, <1>9 DEF ReadAt, e
<1>c. /\ e[p + 1] \in Nat /\ v \in Nat /\ e[p + 2] = e[p + 1] + v /\ e[p + 2] <= EndOfData
      /\ ReadField(e[p + 1], v, coefficient, SymbolRankField(j), TRUE) = rank
  BY <1>5, <1>8, <1>9 DEF ReadAt, e
<1>d. e[p] + w + v = e[p + 2] /\ e[p] + w = e[p + 1] /\ e[p + 2] \in Nat
  BY <1>b, <1>c
<1>e. 4 + 2 * (j + 1) = p + 2
  BY <1>5
<1>f. /\ e[p] \in Nat /\ e[p] + w + v \in Nat /\ e[p] + w <= EndOfData /\ e[p] + w + v <= EndOfData
      /\ ReadField(e[p] + w, v, coefficient, SymbolRankField(j), TRUE) = rank
      /\ e[p] + w + v = e[4 + 2 * (j + 1)]
  BY <1>b, <1>c, <1>d, <1>e
<1> QED BY <1>a, <1>b, <1>f DEF k, coefficient, rank, w, v, m, p, e

(* ... and puts it into the positions it had in the block.                 *)
LEMMA Assigned ==
  ASSUME Source, NEW j \in 0 .. Len(OwnSymbols) - 2, left = Free(j), NEW v,
         Assign(Reduced(Positioned(j), Free(j)), v)
  PROVE  /\ left' = Free(j + 1)
         /\ result' = [x \in DOMAIN result |-> IF x \in Positioned(j) THEN v ELSE result[x]]
<1> DEFINE chosen == Reduced(Positioned(j), Free(j))
           taken == {IndexSet(left)[p + 1] : p \in chosen \cap 0 .. Len(IndexSet(left)) - 1}
<1>1. Restored(chosen, Free(j)) = Positioned(j) /\ Free(j + 1) = Free(j) \ Positioned(j)
  BY SymbolLaw
<1>2. taken = Positioned(j)
  <2> HIDE DEF chosen
  <2>1. taken = Restored(chosen, Free(j))
    BY DEF Restored
  <2> QED BY <1>1, <2>1
<1>3. result' = [x \in DOMAIN result |-> IF x \in taken THEN v ELSE result[x]] /\ left' = left \ taken
  BY DEF Assign
<1> HIDE DEF taken
<1> QED BY <1>1, <1>2, <1>3

(* A value of the block is decoded as the encoder sent it.                 *)
LEMMA SymbolDecoded ==
  ASSUME IInv, CInv, DecodeSymbol, key = "right"
  PROVE  pc' = "rehydrate" /\ Following'
<1>0. PICK j : j = got
  OBVIOUS
<1> DEFINE counted == read + kBits <= EndOfData
           k == ReadField(read, kBits, 2^kBits % Word, SymbolCountField(got), FALSE)
           modulus == BinCoef(vacant, k)
           end == read + kBits + BitLength(modulus)
           rank == ReadField(read + kBits, BitLength(modulus), modulus, SymbolRankField(got), TRUE)
           c == Count(OwnSymbols[j + 1])
           free == n - Cardinality(Gone(j))
           reduced == Reduced(Positioned(j), Free(j))
           pos == Ends(out)[4 + 2 * j]
<1>1. /\ pc = "rehydrate" /\ got < Len(keys) - 1 /\ UNCHANGED <<mode, key, reference, file, at, out, keys, kBits>>
  BY DEF DecodeSymbol, stream, encoder
<1>2. \/ ~counted
      \/ counted /\ k > vacant
      \/ counted /\ k <= vacant /\ end > EndOfData
      \/ /\ Assign(Unrank(rank, k, vacant), keys[got + 1])
         /\ vacant' = vacant - k /\ read' = end /\ got' = got + 1 /\ pc' = pc
  BY DEF DecodeSymbol
<1>3. Source /\ Encoded(Len(OwnSymbols) - 1) /\ data \in Seq(Bytes) /\ Carries(Unpacked(data), out)
  BY <1>1 DEF IInv, CInv, Carried
<1>4. /\ j \in 0 .. Len(OwnSymbols) - 1 /\ keys = OwnSymbols /\ kBits = OwnCountBits
      /\ left = Free(j) /\ vacant = free /\ read = pos
      /\ \A x \in Gone(j) : result[x] = block[x + 1]
      /\ DOMAIN result = 0 .. MaxBlock - 1
  BY <1>0, <1>1 DEF CInv, Following, Free, Memory
<1>5. j \in 0 .. Len(OwnSymbols) - 2 /\ j + 1 \in 0 .. Len(OwnSymbols) - 1 /\ j \in Nat
  <2> DEFINE l == Len(OwnSymbols)
  <2>1. l \in Nat /\ j \in 0 .. l - 1 /\ j < l - 1
    BY <1>0, <1>1, <1>3, <1>4, SymbolsLaw
  <2> HIDE DEF l
  <2>2. j \in 0 .. l - 2 /\ j + 1 \in 0 .. l - 1 /\ j \in Nat
    BY <2>1
  <2> QED BY <2>2 DEF l
<1> DEFINE coefficient == BinCoef(free, c)
           to == pos + OwnCountBits + BitLength(coefficient)
<1>6. /\ pos \in Nat /\ to \in Nat /\ 2^OwnCountBits % Word = 2^OwnCountBits
      /\ pos + OwnCountBits <= EndOfData /\ to <= EndOfData
      /\ ReadField(pos, OwnCountBits, 2^OwnCountBits, SymbolCountField(j), FALSE) = c
      /\ ReadField(pos + OwnCountBits, BitLength(coefficient), coefficient, SymbolRankField(j), TRUE) = Rank(IndexSet(reduced))
      /\ to = Ends(out)[4 + 2 * (j + 1)]
  BY <1>1, <1>3, <1>5, SymbolRead
<1>7. /\ c \in 1 .. free /\ free \in Nat /\ Unrank(Rank(IndexSet(reduced)), c, free) = reduced
      /\ Gone(j + 1) = Gone(j) \cup Positioned(j) /\ n - Cardinality(Gone(j + 1)) = free - c
  BY <1>3, <1>5, SymbolLaw
<1> HIDE DEF c, free, reduced, pos
<1>8. k = c
  BY <1>0, <1>4, <1>6
<1> HIDE DEF k
<1>9. modulus = coefficient
  BY <1>4, <1>8
<1>a. rank = Rank(IndexSet(reduced)) /\ end = to
  BY <1>0, <1>4, <1>6, <1>9
<1>b. counted
  BY <1>4, <1>6
<1>c. EndOfData \in Int
  BY <1>3, ByteTypes DEF EndOfData
<1> HIDE DEF modulus, rank, counted, end, to, coefficient
<1>d. ~(k > vacant) /\ ~(end > EndOfData)
  <2>1. ~(k > vacant)
    BY <1>4, <1>7, <1>8
  <2>2. ~(end > EndOfData)
    BY <1>6, <1>a, <1>c
  <2> QED BY <2>1, <2>2
<1>e. /\ Assign(Unrank(rank, k, vacant), keys[got + 1])
      /\ vacant' = vacant - k /\ read' = end /\ got' = got + 1 /\ pc' = pc
  BY <1>2, <1>b, <1>d
<1>f. Assign(reduced, OwnSymbols[j + 1])
  <2>1. Unrank(rank, k, vacant) = reduced
    BY <1>4, <1>7, <1>8, <1>a
  <2> QED BY <1>0, <1>4, <1>e, <2>1
<1>g. /\ left' = Free(j + 1)
      /\ result' = [x \in DOMAIN result |-> IF x \in Positioned(j) THEN OwnSymbols[j + 1] ELSE result[x]]
  BY <1>3, <1>4, <1>5, <1>f, Assigned DEF reduced
<1>h. UNCHANGED <<block, n, OwnSymbols, OwnCountBits>> /\ \A i : Gone(i)' = Gone(i)
  BY <1>1, SameBlock, SameFields
<1>i. \A x \in Gone(j + 1) : result'[x] = block[x + 1]
  <2>1. ASSUME NEW x \in Gone(j + 1) PROVE result'[x] = block[x + 1]
    <3>1. x \in DOMAIN result
      <4>1. x \in 0 .. n - 1
        BY <2>1 DEF Gone
      <4>2. n \in 1 .. MaxBlock /\ MaxBlock \in Nat
        BY <1>3, AlphabetTypes
      <4>3. x \in 0 .. MaxBlock - 1
        BY <4>1, <4>2
      <4> QED BY <1>4, <4>3
    <3>2. CASE x \in Positioned(j)
      <4>1. block[x + 1] = OwnSymbols[j + 1]
        BY <3>2 DEF Positioned, Positions
      <4> QED BY <1>g, <3>1, <3>2, <4>1
    <3>3. CASE x \notin Positioned(j)
      <4>1. x \in Gone(j)
        BY <1>7, <3>3
      <4> QED BY <1>4, <1>g, <3>1, <3>3, <4>1
    <3> QED BY <3>2, <3>3
  <2> QED BY <2>1
<1>j. PICK i : i = j + 1
  OBVIOUS
<1>k. /\ got' = i /\ i \in 0 .. Len(OwnSymbols) - 1 /\ keys' = OwnSymbols /\ kBits' = OwnCountBits
      /\ left' = (0 .. n - 1) \ Gone(i) /\ vacant' = n - Cardinality(Gone(i))
      /\ read' = Ends(out)[4 + 2 * i] /\ \A x \in Gone(i) : result'[x] = block[x + 1]
  <2>1. got' = i
    BY <1>0, <1>e, <1>j
  <2>2. i \in 0 .. Len(OwnSymbols) - 1
    BY <1>5, <1>j
  <2>3. keys' = OwnSymbols /\ kBits' = OwnCountBits
    BY <1>1, <1>4
  <2>4. left' = (0 .. n - 1) \ Gone(i)
    BY <1>g, <1>j DEF Free
  <2>5. vacant' = n - Cardinality(Gone(i))
    BY <1>4, <1>7, <1>8, <1>e, <1>j
  <2>6. read' = Ends(out)[4 + 2 * i]
    BY <1>6, <1>a, <1>e, <1>j
  <2> QED BY <1>i, <1>j, <2>1, <2>2, <2>3, <2>4, <2>5, <2>6
<1>l. Gone(i)' = Gone(i) /\ Gone(got)' = Gone(i)
  <2>1. Gone(i)' = Gone(i)
    BY <1>h
  <2>2. Gone(got)' = Gone(i)'
    BY <1>k DEF Gone
  <2> QED BY <2>1, <2>2
<1>m. Following'
  <2>1. Ends(out') = Ends(out)
    BY <1>1
  <2> QED BY <1>h, <1>k, <1>l, <2>1 DEF Following
<1> QED BY <1>1, <1>e, <1>m

(* The last value takes the positions that are left.                       *)
LEMMA LastDecoded ==
  ASSUME IInv, CInv, DecodeLast, key = "right"
  PROVE  pc' = "done" /\ Lossless'
<1>0. PICK j : j = Len(OwnSymbols) - 1
  OBVIOUS
<1> DEFINE most == OwnSymbols[Len(OwnSymbols)]
           free == IndexSet(left)
           taken == {free[p + 1] : p \in (0 .. size - 1) \cap 0 .. Len(free) - 1}
<1>1. /\ pc = "rehydrate" /\ pc' = "done" /\ got >= Len(keys) - 1
      /\ UNCHANGED <<mode, key, reference, file, at, out, read>>
      /\ (keys # <<>> => Assign(0 .. size - 1, keys[Len(keys)]))
  BY DEF DecodeLast, stream, encoder
<1>2. Source /\ Encoded(j) /\ size \in Nat /\ size >= n /\ DOMAIN result = 0 .. MaxBlock - 1
  BY <1>0, <1>1 DEF IInv, CInv, Carried, Memory
<1>3. Len(OwnSymbols) \in Nat /\ Len(OwnSymbols) >= 1 /\ OwnSymbols # <<>> /\ n \in 1 .. MaxBlock /\ MaxBlock \in Nat
  <2>1. Len(OwnSymbols) \in Nat /\ Len(OwnSymbols) >= 1 /\ n \in 1 .. MaxBlock /\ MaxBlock \in Nat
    BY <1>2, SymbolsLaw, AlphabetTypes
  <2>2. Len(<<>>) = 0
    OBVIOUS
  <2> DEFINE s == OwnSymbols
  <2> HIDE DEF s
  <2>3. Len(s) >= 1
    BY <2>1 DEF s
  <2>4. s # <<>>
    BY <2>2, <2>3
  <2> QED BY <2>1, <2>4 DEF s
<1>4. /\ got \in 0 .. Len(OwnSymbols) - 1 /\ keys = OwnSymbols /\ left = (0 .. n - 1) \ Gone(got)
      /\ read = Ends(out)[4 + 2 * got] /\ \A x \in Gone(got) : result[x] = block[x + 1]
  BY <1>1 DEF CInv, Following
<1>5. got = j /\ j \in Nat /\ Len(OwnSymbols) = j + 1
  <2> DEFINE l == Len(OwnSymbols)
  <2>1. l \in Nat /\ l >= 1 /\ got \in 0 .. l - 1 /\ got >= l - 1 /\ j = l - 1
    BY <1>0, <1>1, <1>3, <1>4
  <2> HIDE DEF l
  <2>2. got = j /\ j \in Nat /\ l = j + 1
    BY <2>1
  <2> QED BY <2>2 DEF l
<1>6. /\ result' = [x \in DOMAIN result |-> IF x \in taken THEN most ELSE result[x]]
  <2>1. Assign(0 .. size - 1, most)
    BY <1>1, <1>3, <1>4
  <2> QED BY <2>1 DEF Assign
<1>7. taken = left
  <2>1. left \in SUBSET (0 .. n - 1) /\ left \in SUBSET Int /\ n \in Nat
    BY <1>3, <1>4
  <2>2. IsFiniteSet(left) /\ Cardinality(left) <= n /\ Cardinality(left) \in Nat
    <3> DEFINE U == 0 .. n - 1
    <3>1. IsFiniteSet(U) /\ Cardinality(U) = n /\ left \in SUBSET U
      BY <2>1, UpTo
    <3> HIDE DEF U
    <3>2. IsFiniteSet(left) /\ Cardinality(left) <= n
      BY <3>1, FS_Subset
    <3> QED BY <3>2, FS_CardinalityType
  <2> DEFINE c == Cardinality(left)
  <2>3. /\ free \in Seq(left) /\ Len(free) = c
        /\ \A x \in left : \E i \in 1 .. c : free[i] = x
    BY <2>1, <2>2, IndexSetAscends
  <2> HIDE DEF free
  <2>4. c \in Nat /\ c <= size
    BY <1>2, <2>1, <2>2
  <2> HIDE DEF c
  <2>5. ASSUME NEW x \in left PROVE x \in taken
    <3>1. PICK i \in 1 .. c : free[i] = x
      BY <2>3
    <3>2. i - 1 \in (0 .. size - 1) \cap 0 .. Len(free) - 1 /\ (i - 1) + 1 = i
      BY <1>2, <2>3, <2>4
    <3> QED BY <3>1, <3>2
  <2>6. ASSUME NEW x \in taken PROVE x \in left
    <3>1. PICK p \in 0 .. Len(free) - 1 : x = free[p + 1]
      BY <2>6
    <3>2. p + 1 \in 1 .. Len(free)
      BY <2>3, <2>4
    <3> QED BY <2>3, <3>1, <3>2, ElementOfSeq
  <2> QED BY <2>5, <2>6
<1>8. ASSUME NEW x \in 0 .. n - 1 PROVE result'[x] = block[x + 1]
  <2>1. x \in DOMAIN result
    BY <1>2, <1>3, <1>8
  <2>2. CASE x \in left
    <3>1. PICK i \in 1 .. Len(OwnSymbols) : OwnSymbols[i] = block[x + 1]
      <4>1. block[x + 1] \in Alphabet
        BY <1>2, AlphabetTypes
      <4> QED BY <1>2, <4>1, SymbolsLaw
    <3>2. i \notin 1 .. j
      BY <1>4, <1>5, <2>2, <3>1 DEF Gone
    <3>3. i = Len(OwnSymbols)
      BY <1>5, <3>1, <3>2
    <3> QED BY <1>6, <1>7, <2>1, <2>2, <3>1, <3>3
  <2>3. CASE x \notin left
    <3>1. x \in Gone(got)
      BY <1>4, <2>3
    <3> QED BY <1>4, <1>6, <1>7, <2>1, <2>3, <3>1
  <2> QED BY <2>2, <2>3
<1>9. read' = Ends(out')[Len(out')]
  <2>1. Len(out) = 4 + 2 * j
    BY <1>2 DEF Encoded
  <2> QED BY <1>1, <1>4, <1>5, <2>1
<1>a. UNCHANGED <<block, n>>
  BY <1>1, SameBlock
<1> QED BY <1>1, <1>8, <1>9, <1>a DEF Lossless

-----------------------------------------------------------------------------
(* The second invariant is kept.                                           *)

(* What was sent stays as it is, while it is decoded.                      *)
LEMMA CarriedStays ==
  ASSUME CInv, UNCHANGED <<mode, reference, file, at, out, data>>, pc \notin {"encode", "symbols"}
  PROVE  Carried'
<1>1. PICK k : k = Len(OwnSymbols) - 1
  OBVIOUS
<1>2. Encoded(k) /\ data \in Seq(Bytes) /\ Carries(Unpacked(data), out)
  BY <1>1 DEF CInv, Carried
<1>3. Encoded(k)'
  BY <1>2, EncodedStays
<1>4. Len(OwnSymbols)' - 1 = k
  BY <1>1, SameBlock
<1>5. Encoded(Len(OwnSymbols) - 1)'
  BY <1>3, <1>4 DEF Encoded
<1>6. data' \in Seq(Bytes) /\ Carries(Unpacked(data'), out')
  BY <1>2
<1> QED BY <1>5, <1>6 DEF Carried

(* The pooled memory of the decoder is large enough for the block.         *)
LEMMA MemoryKept ==
  ASSUME IInv, CInv, [Next]_vars
  PROVE  Memory'
<1>1. DOMAIN result = 0 .. MaxBlock - 1 /\ size \in Nat /\ (pc = "rehydrate" => size >= n) /\ n \in Nat
  BY BlockTypes DEF IInv, CInv, Memory
<1>2. CASE DecodeHeader
  <2>1. size' = Max({size, n}) /\ UNCHANGED <<file, at, result>>
    BY <1>2 DEF DecodeHeader, stream
  <2>2. size' \in Nat /\ size' >= n
    BY <1>1, <2>1, LargerLaw
  <2> QED BY <1>1, <2>1, <2>2, SameBlock DEF Memory
<1>3. CASE DecodeSymbol
  <2>1. pc = "rehydrate" /\ UNCHANGED <<file, at, size>>
    BY <1>3 DEF DecodeSymbol, stream
  <2>2. UNCHANGED result \/ \E chosen, v : Assign(chosen, v)
    BY <1>3 DEF DecodeSymbol
  <2>3. DOMAIN result' = DOMAIN result
    BY <2>2 DEF Assign
  <2> QED BY <1>1, <2>1, <2>3, SameBlock DEF Memory
<1>4. CASE DecodeLast
  <2>1. pc' = "done" /\ UNCHANGED size
    BY <1>4 DEF DecodeLast
  <2>2. UNCHANGED result \/ \E chosen, v : Assign(chosen, v)
    BY <1>4 DEF DecodeLast
  <2>3. DOMAIN result' = DOMAIN result
    BY <2>2 DEF Assign
  <2> QED BY <1>1, <2>1, <2>3 DEF Memory
<1>5. CASE EncodeHeader \/ EncodeSymbol \/ HandOver \/ NextBlock
  <2>1. pc' # "rehydrate" /\ UNCHANGED <<size, result>>
    BY <1>5 DEF EncodeHeader, EncodeSymbol, HandOver, NextBlock, decoder
  <2> QED BY <1>1, <2>1 DEF Memory
<1>6. CASE Finished \/ UNCHANGED vars
  <2>1. UNCHANGED <<pc, file, at, size, result>>
    BY <1>6 DEF Finished, vars, stream, decoder
  <2> QED BY <1>1, <2>1, SameBlock DEF Memory
<1> QED BY <1>2, <1>3, <1>4, <1>5, <1>6 DEF Next

(* A decoder with the right key takes the same reference alphabet.         *)
LEMMA CodecInit == Init => CInv
<1> SUFFICES ASSUME Init PROVE CInv
  OBVIOUS
<1>1. mode \in {"clear", "query", "full"} /\ key \in Keys /\ reference \in SUBSET Bytes
  BY CodecAssumption DEF Init
<1>2. ASSUME key = "right" PROVE seen = reference
  <2>1. CASE mode = "clear"
    BY <2>1 DEF Init
  <2>2. CASE mode # "clear"
    <3>1. seen = AlphabetIn(DecryptBytesField(EncryptBytesField(AlphabetBytes(reference), "right", ReferenceAlphabetNonce),
                                              key, ReferenceAlphabetNonce))
      BY <2>2 DEF Init
    <3>2. DigestBytesOnly("right", ReferenceAlphabetNonce)
      BY <1>1, <1>2, AlphabetDigests
    <3> QED BY <1>1, <1>2, <3>1, <3>2, AlphabetRoundTrip
  <2> QED BY <2>1, <2>2
<1>3. pc = "encode" /\ out = <<>> /\ size = 0 /\ DOMAIN result = 0 .. MaxBlock - 1
  BY DEF Init
<1>4. Fitting
  <2>1. <<>> \in Seq(FieldRecords) /\ Len(<<>>) = 0 /\ 1 .. 0 = {}
    OBVIOUS
  <2> QED BY <1>3, <2>1 DEF Fitting
<1>5. Memory /\ Agreed
  BY <1>1, <1>2, <1>3 DEF Memory, Agreed
<1> QED BY <1>3, <1>4, <1>5 DEF CInv, Encoding, Carried, Following, Lossless

(* What the steps of the encoder keep ...                                  *)
LEMMA EncoderKeeps ==
  ASSUME IInv, CInv, EncodeHeader \/ EncodeSymbol \/ HandOver \/ NextBlock
  PROVE  CInv'
<1>1. pc' \notin {"rehydrate", "done", "refused", "panic"} /\ UNCHANGED <<mode, key, reference, seen>>
  BY DEF EncodeHeader, EncodeSymbol, HandOver, NextBlock, stream
<1>2. Agreed' /\ Following' /\ Lossless'
  BY <1>1 DEF CInv, Agreed, Following, Lossless
<1>3. Memory'
  BY MemoryKept DEF Next
<1>4. CASE EncodeHeader \/ EncodeSymbol
  <2>1. pc' = "symbols"
    BY <1>4 DEF EncodeHeader, EncodeSymbol
  <2>2. Carried'
    BY <2>1 DEF Carried
  <2> QED BY <1>2, <1>3, <1>4, <2>2, HeaderWritten, SymbolWritten DEF CInv
<1>5. CASE HandOver
  <2>1. pc' = "decode"
    BY <1>5 DEF HandOver
  <2> QED BY <1>2, <1>3, <1>5, <2>1, BlockHandedOver DEF CInv, Encoding
<1>6. CASE NextBlock
  <2>1. pc' = "encode" /\ UNCHANGED out
    BY <1>6 DEF NextBlock, encoder
  <2> QED BY <1>2, <1>3, <2>1 DEF CInv, Fitting, Encoding, Carried
<1> QED BY <1>4, <1>5, <1>6

(* ... and those of the decoder.                                           *)
LEMMA DecoderKeeps ==
  ASSUME IInv, CInv, DecodeHeader \/ DecodeSymbol \/ DecodeLast
  PROVE  CInv'
<1>1. /\ pc \notin {"encode", "symbols"} /\ pc' \notin {"encode", "symbols"}
      /\ UNCHANGED <<mode, key, reference, seen, file, at, out, data>>
  BY DEF DecodeHeader, DecodeSymbol, DecodeLast, stream, encoder
<1>2. Fitting' /\ Encoding'
  BY <1>1 DEF CInv, Fitting, Encoding
<1>3. Carried' /\ Memory'
  BY <1>1, CarriedStays, MemoryKept DEF Next
<1>4. CASE key # "right"
  <2>1. Agreed' /\ Following' /\ Lossless'
    BY <1>1, <1>4 DEF CInv, Agreed, Following, Lossless
  <2> QED BY <1>2, <1>3, <2>1 DEF CInv
<1>5. CASE key = "right"
  <2>1. CASE DecodeHeader \/ DecodeSymbol
    <3>1. pc' = "rehydrate" /\ Following'
      BY <1>5, <2>1, HeaderDecoded, SymbolDecoded
    <3>2. Agreed' /\ Lossless'
      BY <1>1, <3>1 DEF CInv, Agreed, Lossless
    <3> QED BY <1>2, <1>3, <3>1, <3>2 DEF CInv
  <2>2. CASE DecodeLast
    <3>1. pc' = "done" /\ Lossless'
      BY <1>5, <2>2, LastDecoded
    <3>2. Agreed' /\ Following'
      BY <1>1, <3>1 DEF CInv, Agreed, Following
    <3> QED BY <1>2, <1>3, <3>1, <3>2 DEF CInv
  <2> QED BY <2>1, <2>2
<1> QED BY <1>4, <1>5

(* A step that changes nothing keeps it, too.                              *)
LEMMA StutterKeeps ==
  ASSUME IInv, CInv, UNCHANGED vars
  PROVE  CInv'
<1>1. UNCHANGED <<mode, key, reference, seen, file, at, pc, out, data, sent, writer, read, keys, kBits, size, left, vacant, got, result>>
  BY DEF vars, stream, encoder, decoder
<1>2. Memory'
  BY MemoryKept
<1>3. Fitting' /\ Agreed'
  BY <1>1 DEF CInv, Fitting, Agreed
<1>4. Encoding'
  <2>1. PICK k : k = sent
    OBVIOUS
  <2>2. ASSUME pc = "symbols" PROVE Encoded(sent)' /\ Sound(writer') /\ PackedTo(Held(writer'), out', Len(out'))
    <3>1. Encoded(k) /\ Sound(writer) /\ PackedTo(Held(writer), out, Len(out))
      BY <2>1, <2>2 DEF CInv, Encoding
    <3>2. Encoded(k)'
      BY <1>1, <3>1, EncodedStays
    <3>3. sent' = k
      BY <1>1, <2>1
    <3>4. Encoded(sent)'
      BY <3>2, <3>3 DEF Encoded
    <3> QED BY <1>1, <3>1, <3>4
  <2> QED BY <1>1, <2>2 DEF Encoding
<1>5. Carried'
  <2>1. CASE pc \in {"encode", "symbols"}
    BY <1>1, <2>1 DEF Carried
  <2>2. CASE pc \notin {"encode", "symbols"}
    BY <1>1, <2>2, CarriedStays
  <2> QED BY <2>1, <2>2
<1>6. UNCHANGED <<block, n, OwnSymbols, OwnCountBits>> /\ \A i : Gone(i)' = Gone(i)
  BY <1>1, SameBlock, SameFields
<1>7. Lossless'
  BY <1>1, <1>6 DEF CInv, Lossless
<1>8. Following'
  <2>1. PICK j : j = got
    OBVIOUS
  <2>2. Gone(got)' = Gone(got)
    <3>1. Gone(j)' = Gone(j) /\ got' = j
      BY <1>1, <1>6, <2>1
    <3>2. Gone(got)' = Gone(j)'
      BY <3>1 DEF Gone
    <3> QED BY <2>1, <3>1, <3>2
  <2> QED BY <1>1, <1>6, <2>2 DEF CInv, Following
<1> QED BY <1>2, <1>3, <1>4, <1>5, <1>7, <1>8 DEF CInv

(* Every step keeps both invariants.                                       *)
LEMMA CodecStep == IInv /\ CInv /\ [Next]_vars => CInv'
<1> SUFFICES ASSUME IInv, CInv, [Next]_vars PROVE CInv'
  OBVIOUS
<1>1. CASE Finished
  <2>1. UNCHANGED vars
    BY <1>1 DEF Finished
  <2> QED BY <2>1, StutterKeeps
<1> QED BY <1>1, EncoderKeeps, DecoderKeeps, StutterKeeps DEF Next

-----------------------------------------------------------------------------
(* Types, with any key.                                                    *)

(* Any bits make a number, whatever the key makes of it; it is below the   *)
(* modulus, if the bits can hold no more than that.                        *)
LEMMA NumberRead ==
  ASSUME Source, key \in Keys, data \in Seq(Bytes), NEW pos \in Nat, NEW width \in Nat, pos + width <= EndOfData,
         NEW modulus \in Nat, NEW index \in Nat, index < FieldSpace
  PROVE  /\ ReadField(pos, width, modulus, index, FALSE) \in Nat
         /\ modulus = 2^width /\ width <= MaxWidth => ReadField(pos, width, modulus, index, FALSE) < modulus
<1> DEFINE val == ReadBits(data, pos, width)
           nonce == BlockFieldNonce(at, index)
           k == RankKeystream(key, nonce, modulus)
           plain == DecryptUint(val, modulus, key, nonce)
<1>1. data \in Seq(Nat) /\ pos + width <= ByteBits * Len(data)
  BY ByteTypes, SeqWithin DEF EndOfData
<1>2. val \in Nat /\ (width <= MaxWidth => val \in 0 .. 2^width - 1)
  BY <1>1, ReadBitsValues DEF Reads
<1>3. ReadField(pos, width, modulus, index, FALSE) = IF Ciphered(FALSE) THEN plain ELSE val
  BY DEF ReadField
<1>4. ASSUME modulus <= 1 PROVE plain \in Nat /\ (modulus = 2^width => plain < modulus)
  <2>1. plain = 0
    BY <1>4 DEF DecryptUint
  <2>2. modulus = 2^width => modulus # 0
    BY PowerPositive
  <2> HIDE DEF plain, val
  <2> QED BY <2>1, <2>2
<1>5. ASSUME modulus > 1 PROVE plain \in Nat /\ plain < modulus
  <2>1. k \in 0 .. modulus - 1
    <3>1. modulus \in Nat \ {0}
      BY <1>5
    <3>2. DigestBytesOnly(key, nonce)
      BY BlockDigests
    <3> HIDE DEF nonce
    <3> QED BY <3>1, <3>2, KeystreamBelowModulus
  <2>2. plain = ((val + modulus - k) % Word) % modulus
    BY <1>5 DEF DecryptUint
  <2>3. Word \in Nat \ {0}
    BY BitAssumption, PowerPositive DEF Word
  <2> HIDE DEF k, plain, val
  <2> DEFINE b == val + modulus - k
             a == b % Word
  <2>4. b \in Nat
    BY <1>2, <2>1
  <2>5. a \in Nat /\ modulus \in Nat \ {0}
    <3> HIDE DEF b
    <3>1. b % Word \in 0 .. Word - 1
      BY <2>3, <2>4, Division
    <3>2. a \in Nat
      BY <2>3, <3>1
    <3> QED BY <1>5, <3>2
  <2> HIDE DEF a
  <2>6. a % modulus \in 0 .. modulus - 1
    BY <2>5, Division
  <2>7. plain \in Nat /\ plain < modulus
    BY <2>2, <2>5, <2>6 DEF a
  <2> QED BY <2>7
<1>6. modulus <= 1 \/ modulus > 1
  OBVIOUS
<1>7. modulus = 2^width /\ width <= MaxWidth => val < modulus
  BY <1>2
<1> HIDE DEF plain, val
<1> QED BY <1>2, <1>3, <1>4, <1>5, <1>6, <1>7

(* A rank is below its coefficient with any key, where ranks are encrypted.*)
LEMMA RankRead ==
  ASSUME Source, key \in Keys, data \in Seq(Bytes), NEW pos \in Nat, NEW width \in Nat, pos + width <= EndOfData,
         NEW modulus \in Nat \ {0}, NEW index \in Nat, index < FieldSpace, Ciphered(TRUE)
  PROVE  ReadField(pos, width, modulus, index, TRUE) \in 0 .. modulus - 1
<1> DEFINE val == ReadBigInt(data, pos, width)
           nonce == BlockFieldNonce(at, index)
           k == RankKeystream(key, nonce, modulus)
<1>1. data \in Seq(Nat) /\ pos + width <= ByteBits * Len(data)
  BY ByteTypes, SeqWithin DEF EndOfData
<1>2. val \in 0 .. 2^width - 1
  BY <1>1, ReadBigIntLaw DEF Reads
<1>3. ReadField(pos, width, modulus, index, TRUE) = DecryptRank(val, modulus, key, nonce)
  BY DEF ReadField
<1>4. DigestBytesOnly(key, nonce)
  BY BlockDigests
<1> HIDE DEF val, nonce
<1>5. k \in 0 .. modulus - 1
  BY <1>4, KeystreamBelowModulus
<1>6. DecryptRank(val, modulus, key, nonce) = (val - k) % modulus
  BY DEF DecryptRank
<1> HIDE DEF k
<1>7. val \in Int
  BY <1>2
<1>8. (val - k) % modulus \in 0 .. modulus - 1
  BY <1>5, <1>7
<1> QED BY <1>3, <1>6, <1>8

(* Keys made of bytes are bytes.                                           *)
LEMMA KeysTypes ==
  ASSUME NEW S \in SUBSET Bytes, NEW most \in Bytes
  PROVE  SortedKeys(S, most) \in Seq(Bytes)
<1> DEFINE rest == S \ {most}
           p == IndexSet(rest)
           q == IF most \in S THEN <<most>> ELSE <<>>
<1>1. rest \in SUBSET Bytes /\ rest \in SUBSET Int /\ IsFiniteSet(rest)
  <2>1. rest \in SUBSET Bytes
    OBVIOUS
  <2>2. IsFiniteSet(Bytes) /\ Bytes \subseteq Int
    <3>1. 0 \in Int /\ 2^ByteBits - 1 \in Int /\ Bytes = 0 .. 2^ByteBits - 1 /\ Bytes \subseteq Nat
      BY ByteTypes
    <3> QED BY <3>1, FS_Interval
  <2> HIDE DEF rest
  <2> QED BY <2>1, <2>2, FS_Subset
<1> HIDE DEF rest
<1>2. p \in Seq(Bytes)
  BY <1>1, IndexSetAscends, SeqWithin
<1>3. q \in Seq(Bytes)
  OBVIOUS
<1> HIDE DEF p, q
<1>4. p \o q \in Seq(Bytes)
  BY <1>2, <1>3, ConcatProperties
<1> QED BY <1>4 DEF SortedKeys, p, q, rest

(* There are bits for the first field of a block.                          *)
LEMMA CardinalityHeld ==
  ASSUME Source, reference \in SUBSET Bytes, Encoded(Len(OwnSymbols) - 1), data \in Seq(Bytes), Carries(Unpacked(data), out)
  PROVE  ByteBits + 1 <= EndOfData
<1> DEFINE f == OwnHeader[1]
           w == ByteBits + 1
<1>1. GoodField(f) /\ f.width = w
  <2>1. OwnHeader[1] = Field(Cardinality(Difference), w, 2^w, FieldAlphabetCardinality, FALSE)
        /\ \A x \in 1 .. 4 : GoodField(OwnHeader[x])
    BY HeaderLaw
  <2> QED BY <2>1 DEF Field
<1>2. out \in Seq(FieldRecords) /\ out[1] = Sent(f) /\ 1 \in 1 .. Len(out)
  <2>1. Len(OwnSymbols) \in Nat /\ Len(OwnSymbols) >= 1
    BY SymbolsLaw
  <2>2. out \in Seq(FieldRecords) /\ Len(out) = 4 + 2 * (Len(OwnSymbols) - 1) /\ \A x \in 1 .. 4 : out[x] = SentHeader(x)
    BY DEF Encoded
  <2>3. 1 \in 1 .. 4 /\ 1 \in 1 .. Len(out)
    BY <2>1, <2>2
  <2> QED BY <2>2, <2>3 DEF SentHeader
<1> HIDE DEF f
<1>3. out[1].width = w
  BY <1>1, <1>2, SentLaw
<1>4. Ends(out)[0] = 0 /\ Ends(out)[1] = Ends(out)[0] + out[1].width
  <2>1. 1 - 1 = 0
    OBVIOUS
  <2> QED BY <1>2, <2>1, EndsLaw DEF EndPositions
<1>5. Ends(out)[1] <= EndOfData
  <2>1. data \in Seq(Nat)
    BY ByteTypes, SeqWithin
  <2>2. Len(Unpacked(data)) = EndOfData
    BY <2>1, UnpackedTypes DEF EndOfData
  <2> QED BY <1>2, <2>2 DEF Carries
<1>6. w \in Nat
  BY ByteTypes
<1> QED BY <1>3, <1>4, <1>5, <1>6

(* The header with any key: what it does not refuse makes an alphabet.     *)
HeaderTaken ==
  keys' \in Seq(Bytes) /\ kBits' \in Nat /\ read' \in Nat /\ got' \in Nat /\ vacant' \in 0 .. n

(* So it is with any key, where ranks are encrypted.                       *)
LEMMA HeaderOfAnyKey ==
  ASSUME IInv, CInv, DecodeHeader, seen \subseteq Bytes, Ciphered(TRUE), pc' = "rehydrate"
  PROVE  HeaderTaken
<1> DEFINE u == 2^ByteBits
           w1 == ByteBits + 1
           cardinality == ReadField(0, w1, 2^w1, FieldAlphabetCardinality, FALSE)
           modulus == BinCoef(u, cardinality)
           w2 == BitLength(modulus)
           w4 == BitLength(n)
           mostAt == w1 + w2
           end == mostAt + ByteBits + w4
           rank == ReadField(w1, w2, modulus, FieldAlphabetRank, TRUE)
           most == ReadField(mostAt, ByteBits, u, FieldMostFrequent, FALSE)
           kb == ReadField(end - w4, w4, 2^w4, FieldCountWidth, FALSE)
           differ == Unrank(rank, cardinality, u)
<1>1. /\ cardinality <= u /\ end <= EndOfData
      /\ keys' = SortedKeys(SymmetricDifference(differ, seen), most)
      /\ kBits' = kb /\ read' = end /\ vacant' = n /\ got' = 0
  BY DEF DecodeHeader
<1>2. /\ Source /\ key \in Keys /\ reference \in SUBSET Bytes
      /\ Encoded(Len(OwnSymbols) - 1) /\ data \in Seq(Bytes) /\ Carries(Unpacked(data), out)
  BY DEF DecodeHeader, IInv, CInv, Agreed, Carried
<1>3. u \in Nat \ {0} /\ Bytes = 0 .. u - 1 /\ ByteBits \in Nat \ {0} /\ w1 \in Nat /\ w1 <= MaxWidth /\ ByteBits <= MaxWidth
  <2>1. ByteBits + 1 <= MaxWidth /\ MaxWidth \in Int
    BY CodecAssumption, BitAssumption DEF MaxWidth
  <2> QED BY <2>1, ByteTypes
<1>4. 4 <= FieldSpace /\ FieldSpace \in Nat
  BY <1>2, CodecAssumption, CipherAssumption, SymbolsEnumerate, BlockTypes
<1>5. EndOfData \in Int /\ w1 <= EndOfData
  BY <1>2, CardinalityHeld, ByteTypes DEF EndOfData
<1>6. cardinality \in 0 .. u
  <2> DEFINE m == 2^w1
  <2>1. m \in Nat
    BY <1>3, PowerPositive
  <2>2. 0 \in Nat /\ 0 + w1 <= EndOfData /\ 0 < FieldSpace
    BY <1>3, <1>4, <1>5
  <2> HIDE DEF m, w1
  <2>3. ReadField(0, w1, m, 0, FALSE) \in Nat
    BY <1>2, <1>3, <2>1, <2>2, NumberRead
  <2>4. cardinality \in Nat
    BY <2>3 DEF m, FieldAlphabetCardinality
  <2> HIDE DEF cardinality, u
  <2> QED BY <1>1, <1>3, <2>4
<1> HIDE DEF cardinality
<1>7. modulus \in Nat \ {0} /\ w2 \in Nat /\ u \in 1 .. CacheN
  <2>1. u \in 1 .. CacheN /\ u \in 0 .. CacheN
    <3>1. u <= u /\ u \in {MaxBlock, 2^ByteBits}
      BY <1>3
    <3>2. u \in 1 .. CacheN
      BY <1>3, <3>1, Universe
    <3> QED BY <1>3, <3>2, CacheTypes
  <2> HIDE DEF u
  <2>2. cardinality \in Nat /\ cardinality <= u
    BY <1>3, <1>6
  <2>3. modulus \in Nat \ {0}
    BY <2>1, <2>2, CoefficientTypes
  <2> HIDE DEF modulus
  <2> QED BY <2>1, <2>3, BitLengthHolds
<1>8. w4 \in Nat /\ w4 <= MaxWidth
  BY <1>2, CountBitsLaw
<1> HIDE DEF u, w1, w2, w4, modulus
<1>9. /\ mostAt \in Nat /\ end \in Nat /\ end - w4 = mostAt + ByteBits /\ end - w4 \in Nat /\ (end - w4) + w4 <= EndOfData
      /\ w1 + w2 <= EndOfData /\ mostAt + ByteBits <= EndOfData
  BY <1>1, <1>3, <1>5, <1>7, <1>8
<1>a. rank \in 0 .. modulus - 1
  <2>1. 1 \in Nat /\ 1 < FieldSpace
    BY <1>4
  <2> QED BY <1>2, <1>3, <1>7, <1>9, <2>1, RankRead DEF FieldAlphabetRank
<1>b. most \in Bytes
  <2>1. 2 \in Nat /\ 2 < FieldSpace
    BY <1>4
  <2> HIDE DEF mostAt
  <2>2. most \in Nat /\ most < u
    BY <1>2, <1>3, <1>9, <2>1, NumberRead DEF FieldMostFrequent, u
  <2> HIDE DEF most
  <2> QED BY <1>3, <2>2
<1>c. kb \in Nat
  <2> DEFINE m == 2^w4
             pos == end - w4
  <2>1. m \in Nat /\ 3 \in Nat /\ 3 < FieldSpace
    BY <1>4, <1>8, PowerPositive
  <2>2. pos \in Nat /\ pos + w4 <= EndOfData
    BY <1>9
  <2> HIDE DEF m, pos
  <2>3. ReadField(pos, w4, m, 3, FALSE) \in Nat
    BY <1>2, <1>8, <2>1, <2>2, NumberRead
  <2> QED BY <2>3 DEF FieldCountWidth, m, pos
<1>d. differ \in SUBSET Bytes
  <2> HIDE DEF rank
  <2>1. rank \in Nat /\ rank < modulus
    BY <1>7, <1>a
  <2>2. Unrank(rank, cardinality, u) \in SUBSET (0 .. u - 1)
    BY <1>6, <1>7, <2>1, UnrankWithin DEF modulus
  <2> QED BY <1>3, <2>2
<1>e. SymmetricDifference(differ, seen) \in SUBSET Bytes
  <2> HIDE DEF differ
  <2> QED BY <1>d DEF SymmetricDifference
<1>f. keys' \in Seq(Bytes)
  <2> HIDE DEF differ, most
  <2> QED BY <1>1, <1>b, <1>e, KeysTypes
<1>g. vacant' \in 0 .. n
  BY <1>1, <1>2, BlockTypes
<1> QED BY <1>1, <1>9, <1>c, <1>f, <1>g DEF HeaderTaken

(* With the right key it is the block's.                                   *)
LEMMA HeaderOfRightKey ==
  ASSUME IInv, CInv, DecodeHeader, key = "right"
  PROVE  HeaderTaken
<1>1. /\ pc' = "rehydrate" /\ Following'
  BY HeaderDecoded
<1>2. UNCHANGED <<mode, key, reference, file, at, out>> /\ pc = "decode"
  BY DEF DecodeHeader, stream, encoder
<1>3. vacant' = n /\ got' = 0
  BY <1>1 DEF DecodeHeader
<1>4. Source /\ Encoded(Len(OwnSymbols) - 1)
  BY <1>2 DEF IInv, CInv, Carried
<1>5. UNCHANGED <<n, OwnSymbols, OwnCountBits>>
  BY <1>2, SameBlock, SameFields
<1>6. keys' = OwnSymbols /\ kBits' = OwnCountBits /\ read' = Ends(out)[4 + 2 * got']
  BY <1>1, <1>2, <1>5 DEF Following
<1>7. OwnSymbols \in Seq(Bytes) /\ OwnCountBits \in Nat
  <2>1. OwnSymbols \in Seq(Alphabet) /\ Alphabet \subseteq Bytes
    BY <1>4, SymbolsEnumerate, AlphabetTypes
  <2> QED BY <1>4, <2>1, SeqWithin, CountBitsLaw
<1>8. read' \in Nat
  <2>1. Len(OwnSymbols) \in Nat /\ Len(OwnSymbols) >= 1
    BY <1>4, SymbolsLaw
  <2>2. out \in Seq(FieldRecords) /\ Len(out) = 4 + 2 * (Len(OwnSymbols) - 1)
    BY <1>4 DEF Encoded
  <2>3. 4 \in 0 .. Len(out) /\ 4 + 2 * 0 = 4
    BY <2>1, <2>2
  <2>4. Ends(out)[4] \in Nat
    BY <2>2, <2>3, EndsLaw DEF EndPositions
  <2> QED BY <1>3, <1>6, <2>3, <2>4
<1>9. vacant' \in 0 .. n /\ got' \in Nat
  BY <1>3, <1>4, BlockTypes
<1> QED BY <1>6, <1>7, <1>8, <1>9 DEF HeaderTaken

(* Types of the encoder's variables ...                                    *)
EncoderTyped ==
  /\ removed \subseteq 0 .. MaxBlock - 1 /\ room \in 0 .. MaxBlock /\ sent \in 0 .. 2^ByteBits
  /\ counts \in [Bytes -> 0 .. MaxBlock] /\ alphabet \subseteq Bytes /\ data \in Seq(Bytes)

(* ... and of the decoder's, which without a cipher has the right key.     *)
DecoderTyped ==
  /\ pc \in {"encode", "symbols", "decode", "rehydrate", "done", "refused", "panic"}
  /\ seen \subseteq Bytes /\ (mode = "clear" => key = "right")
  /\ keys \in Seq(Bytes) /\ kBits \in Nat /\ size \in 0 .. MaxBlock
  /\ pc = "rehydrate" => read \in Nat /\ got \in Nat
  /\ pc \in {"rehydrate", "done"} => left \subseteq 0 .. n - 1 /\ vacant \in 0 .. n
  /\ result \in [0 .. MaxBlock - 1 -> Bytes]

(* The types of all variables, which are kept with the other invariants    *)
(* ...                                                                     *)
Typed == EncoderTyped /\ DecoderTyped

(* ... and are those of TypeOK.                                            *)
LEMMA TypedImplies == IInv /\ CInv /\ Typed => TypeOK
<1> SUFFICES ASSUME IInv, CInv, Typed PROVE TypeOK
  OBVIOUS
<1>1. at \in 0 .. Len(file) - 1
  BY DEF IInv, Source
<1>2. \A x \in DOMAIN out : out[x].val \in Nat /\ out[x].width \in Nat
  <2>1. out \in Seq(FieldRecords)
    BY DEF CInv, Fitting
  <2>2. ASSUME NEW x \in DOMAIN out PROVE out[x] \in FieldRecords
    BY <2>1
  <2> QED BY <2>2 DEF FieldRecords
<1> QED BY <1>1, <1>2 DEF TypeOK, Typed, EncoderTyped, DecoderTyped

(* They hold initially.                                                    *)
LEMMA TypedInit == Init => Typed
<1> SUFFICES ASSUME Init PROVE Typed
  OBVIOUS
<1>1. MaxBlock \in Nat /\ 2^ByteBits \in Nat /\ 0 \in Bytes /\ reference \subseteq Bytes
  BY CodecAssumption, ByteTypes DEF Init
<1>2. seen \subseteq Bytes
  <2>1. seen = reference \/ \E bytes : seen = AlphabetIn(bytes)
    BY DEF Init
  <2>2. \A bytes : AlphabetIn(bytes) \subseteq Bytes
    BY DEF AlphabetIn
  <2> QED BY <1>1, <2>1, <2>2
<1>3. /\ removed = {} /\ room = 0 /\ sent = 0 /\ data = <<>>
      /\ counts = [v \in Bytes |-> 0] /\ alphabet = {}
  BY DEF Init
<1>4. EncoderTyped
  BY <1>1, <1>3 DEF EncoderTyped
<1>5. /\ pc = "encode" /\ keys = <<>> /\ kBits = 0 /\ size = 0 /\ result = [x \in 0 .. MaxBlock - 1 |-> 0]
      /\ (mode = "clear" => key = "right")
  BY DEF Init
<1>6. DecoderTyped
  BY <1>1, <1>2, <1>5 DEF DecoderTyped
<1> QED BY <1>4, <1>6 DEF Typed

(* What is counted and collected for the header is in range.               *)
LEMMA ScratchTyped ==
  ASSUME IInv, CInv, EncodeHeader
  PROVE  counts' \in [Bytes -> 0 .. MaxBlock] /\ alphabet' \subseteq Bytes
<1>1. Source /\ n \in 1 .. MaxBlock /\ MaxBlock \in Nat /\ reference \subseteq Bytes /\ Alphabet \subseteq Bytes
  BY AlphabetTypes DEF IInv, CInv, Agreed
<1>2. counts' = Tally /\ alphabet' = Difference
  BY <1>1, HeaderSent
<1>3. ASSUME NEW v \in Bytes PROVE Count(v) \in 0 .. MaxBlock
  <2>1. Count(v) \in 0 .. n
    BY <1>1, AlphabetTypes
  <2> QED BY <1>1, <2>1
<1>4. Difference \subseteq Bytes
  BY <1>1 DEF Difference, SymmetricDifference
<1> QED BY <1>2, <1>3, <1>4 DEF Tally

(* What the encoder removes are positions of the block.                    *)
LEMMA EncoderTypedStep ==
  ASSUME IInv, CInv, Typed, [Next]_vars
  PROVE  EncoderTyped'
<1>1. IInv' /\ CInv'
  BY InvariantStep, CodecStep
<1>2. Source /\ n \in 1 .. MaxBlock /\ MaxBlock \in Nat /\ 2^ByteBits \in Nat /\ EncoderTyped
  BY AlphabetTypes, ByteTypes DEF IInv, Typed
<1>3. CASE EncodeHeader \/ EncodeSymbol
  <2>1. UNCHANGED <<file, at, data>> /\ pc' = "symbols"
    BY <1>3 DEF EncodeHeader, EncodeSymbol, stream
  <2>2. UNCHANGED n
    BY <2>1, SameBlock
  <2>3. removed' \subseteq 0 .. n - 1
    BY <1>1, <2>1, <2>2 DEF IInv, Sending
  <2>4. room' \in 0 .. n
    <3>1. room' = n - Cardinality(removed')
      BY <1>1, <2>1, <2>2 DEF IInv, Sending
    <3> DEFINE S == 0 .. n - 1
    <3>2. IsFiniteSet(S) /\ Cardinality(S) = n
      BY <1>2, UpTo
    <3>3. removed' \in SUBSET S
      BY <2>3
    <3> HIDE DEF S
    <3>4. IsFiniteSet(removed') /\ Cardinality(removed') <= n
      BY <3>2, <3>3, FS_Subset
    <3>5. Cardinality(removed') \in Nat
      BY <3>4, FS_CardinalityType
    <3> QED BY <1>2, <3>1, <3>4, <3>5
  <2>5. sent' \in 0 .. 2^ByteBits
    <3>1. sent' \in 0 .. Len(OwnSymbols) - 1
      <4>1. UNCHANGED OwnSymbols
        BY <2>1, SameBlock
      <4> QED BY <1>1, <2>1, <4>1 DEF IInv, Sending
    <3>2. Len(OwnSymbols) \in 1 .. 2^ByteBits
      <4> DEFINE u == 2^ByteBits
      <4>1. u \in Nat /\ Bytes = 0 .. u - 1
        BY ByteTypes
      <4> HIDE DEF u
      <4>2. Cardinality(Bytes) = u
        BY <4>1, UpTo
      <4>3. Len(OwnSymbols) \in 1 .. u
        BY <1>2, <4>2, SymbolsEnumerate
      <4> QED BY <4>3 DEF u
    <3> QED BY <1>2, <3>1, <3>2
  <2>6. removed' \subseteq 0 .. MaxBlock - 1 /\ room' \in 0 .. MaxBlock
    BY <1>2, <2>3, <2>4
  <2>7. counts' \in [Bytes -> 0 .. MaxBlock] /\ alphabet' \subseteq Bytes
    <3>1. CASE EncodeHeader
      BY <3>1, ScratchTyped
    <3>2. CASE EncodeSymbol
      BY <1>2, <3>2 DEF EncodeSymbol, EncoderTyped
    <3> QED BY <1>3, <3>1, <3>2
  <2> QED BY <1>2, <2>1, <2>5, <2>6, <2>7 DEF EncoderTyped
<1>4. CASE HandOver
  <2>1. UNCHANGED <<removed, room, sent, counts, alphabet>> /\ pc' = "decode"
    BY <1>4 DEF HandOver
  <2>2. data' \in Seq(Bytes)
    BY <1>1, <2>1 DEF CInv, Carried
  <2> QED BY <1>2, <2>1, <2>2 DEF EncoderTyped
<1>5. CASE DecodeHeader \/ DecodeSymbol \/ DecodeLast \/ NextBlock \/ Finished \/ UNCHANGED vars
  <2>1. UNCHANGED encoder
    BY <1>5 DEF DecodeHeader, DecodeSymbol, DecodeLast, NextBlock, Finished, vars
  <2> QED BY <1>2, <2>1 DEF EncoderTyped, encoder
<1> QED BY <1>3, <1>4, <1>5 DEF Next

(* The header's types.                                                     *)
LEMMA HeaderTyped ==
  ASSUME IInv, CInv, Typed, DecodeHeader
  PROVE  DecoderTyped'
<1>1. /\ Source /\ DecoderTyped /\ n \in 1 .. MaxBlock /\ MaxBlock \in Nat
      /\ mode \in {"clear", "query", "full"}
  BY AlphabetTypes DEF IInv, CInv, Agreed, Typed
<1>2. /\ UNCHANGED <<mode, key, seen, file, at, result>> /\ size' = Max({size, n})
      /\ \/ pc' \in {"refused", "panic"} /\ UNCHANGED <<keys, kBits>>
         \/ pc' = "rehydrate"
  BY DEF DecodeHeader, stream
<1>3. UNCHANGED n
  BY <1>2, SameBlock
<1>4. size' \in 0 .. MaxBlock
  <2>1. size \in 0 .. MaxBlock
    BY <1>1 DEF DecoderTyped
  <2>2. Max({size, n}) \in {size, n}
    BY <1>1, <2>1, LargerLaw
  <2> QED BY <1>1, <1>2, <2>1, <2>2
<1>5. CASE pc' \in {"refused", "panic"} /\ UNCHANGED <<keys, kBits>>
  BY <1>1, <1>2, <1>4, <1>5 DEF DecoderTyped
<1>6. CASE pc' = "rehydrate"
  <2>1. HeaderTaken
    <3>1. CASE key = "right"
      BY <3>1, HeaderOfRightKey
    <3>2. CASE key # "right"
      <4>1. Ciphered(TRUE) /\ seen \subseteq Bytes
        BY <1>1, <3>2 DEF DecoderTyped, Ciphered
      <4> QED BY <1>6, <4>1, HeaderOfAnyKey
    <3> QED BY <3>1, <3>2
  <2>2. left' \subseteq 0 .. n - 1
    <3>1. Inside'
      BY DecoderStays DEF Next
    <3> QED BY <1>3, <1>6, <3>1 DEF Inside
  <2> QED BY <1>1, <1>2, <1>3, <1>4, <1>6, <2>1, <2>2 DEF DecoderTyped, HeaderTaken
<1> QED BY <1>2, <1>5, <1>6

(* A position that is assigned gets a byte.                                *)
LEMMA AssignTypes ==
  ASSUME result \in [0 .. MaxBlock - 1 -> Bytes], NEW chosen, NEW v \in Bytes, Assign(chosen, v)
  PROVE  result' \in [0 .. MaxBlock - 1 -> Bytes]
BY DEF Assign

(* A value's types.                                                        *)
LEMMA SymbolTyped ==
  ASSUME IInv, CInv, Typed, DecodeSymbol
  PROVE  DecoderTyped'
<1> DEFINE m == 2^kBits % Word
           k == ReadField(read, kBits, m, SymbolCountField(got), FALSE)
           modulus == BinCoef(vacant, k)
           w == BitLength(modulus)
           rank == ReadField(read + kBits, w, modulus, SymbolRankField(got), TRUE)
           chosen == Unrank(rank, k, vacant)
<1>1. /\ Source /\ DecoderTyped /\ n \in 1 .. MaxBlock /\ MaxBlock \in Nat /\ key \in Keys
  BY AlphabetTypes DEF IInv, CInv, Agreed, Typed
<1>2. /\ pc = "rehydrate" /\ got < Len(keys) - 1 /\ UNCHANGED <<mode, key, seen, file, at, keys, kBits, size>>
      /\ \/ pc' \in {"refused", "panic"} /\ UNCHANGED result
         \/ /\ pc' = pc /\ read + kBits <= EndOfData /\ k <= vacant
            /\ Assign(chosen, keys[got + 1])
            /\ vacant' = vacant - k /\ read' = read + kBits + w /\ got' = got + 1
  BY DEF DecodeSymbol, stream
<1>3. UNCHANGED n
  BY <1>2, SameBlock
<1>4. CASE pc' \in {"refused", "panic"} /\ UNCHANGED result
  BY <1>1, <1>2, <1>4 DEF DecoderTyped
<1>5. ASSUME pc' = pc, read + kBits <= EndOfData, k <= vacant, Assign(chosen, keys[got + 1]),
             vacant' = vacant - k, read' = read + kBits + w, got' = got + 1
      PROVE  DecoderTyped'
  <2>1. /\ read \in Nat /\ got \in Nat /\ kBits \in Nat /\ keys \in Seq(Bytes) /\ vacant \in 0 .. n
        /\ left \subseteq 0 .. n - 1 /\ result \in [0 .. MaxBlock - 1 -> Bytes] /\ data \in Seq(Bytes)
    BY <1>1, <1>2 DEF DecoderTyped, CInv, Carried
  <2>2. k \in Nat
    <3> DEFINE index == SymbolCountField(got)
    <3>1. m \in Nat
      <4>1. Word \in Nat \ {0} /\ 2^kBits \in Nat
        BY <2>1, BitAssumption, PowerPositive DEF Word
      <4> DEFINE d == 2^kBits
      <4>2. d \in Nat
        BY <4>1
      <4> HIDE DEF d
      <4>3. d % Word \in 0 .. Word - 1
        BY <4>1, <4>2, Division
      <4>4. d % Word \in Nat
        BY <4>1, <4>3
      <4> QED BY <4>4 DEF d
    <3>2. index \in Nat /\ index < FieldSpace
      <4>1. FieldSpace \in Nat \ {0} /\ 4 + 2 * got \in Nat
        BY <2>1, CipherAssumption
      <4>2. (4 + 2 * got) % FieldSpace \in 0 .. FieldSpace - 1
        BY <4>1, Division
      <4> QED BY <4>1, <4>2 DEF SymbolCountField
    <3> HIDE DEF m, index
    <3> QED BY <1>1, <1>5, <2>1, <3>1, <3>2, NumberRead DEF index
  <2> HIDE DEF k
  <2>3. w \in Nat
    <3>1. vacant \in 0 .. CacheN
      <4>1. CacheN >= MaxBlock /\ CacheN \in Nat
        BY CodecAssumption, CacheTypes
      <4> QED BY <1>1, <2>1, <4>1
    <3>2. modulus \in Nat
      BY <2>2, <3>1, CoefficientTypes
    <3> HIDE DEF modulus
    <3> QED BY <3>2, BitLengthHolds
  <2> HIDE DEF w
  <2>4. vacant' \in 0 .. n /\ read' \in Nat /\ got' \in Nat
    BY <1>1, <1>5, <2>1, <2>2, <2>3
  <2>5. keys[got + 1] \in Bytes
    <3>1. got + 1 \in 1 .. Len(keys)
      BY <1>2, <2>1
    <3> QED BY <2>1, <3>1, ElementOfSeq
  <2> HIDE DEF chosen
  <2>6. result' \in [0 .. MaxBlock - 1 -> Bytes]
    BY <1>5, <2>1, <2>5, AssignTypes
  <2>7. left' \subseteq 0 .. n - 1
    <3>1. left' \subseteq left
      BY <1>1, <1>5, <2>1, AssignLaw
    <3> QED BY <2>1, <3>1
  <2> QED BY <1>1, <1>2, <1>3, <1>5, <2>4, <2>6, <2>7 DEF DecoderTyped
<1> HIDE DEF k, w, chosen
<1> QED BY <1>2, <1>4, <1>5

(* The last value's.                                                       *)
LEMMA LastTyped ==
  ASSUME IInv, CInv, Typed, DecodeLast
  PROVE  DecoderTyped'
<1>1. /\ Source /\ DecoderTyped
  BY DEF IInv, Typed
<1>2. /\ pc = "rehydrate" /\ pc' = "done" /\ UNCHANGED <<mode, key, seen, file, at, read, keys, kBits, size, vacant, got>>
      /\ (keys = <<>> => UNCHANGED <<result, left>>)
      /\ (keys # <<>> => Assign(0 .. size - 1, keys[Len(keys)]))
  BY DEF DecodeLast, stream
<1>3. UNCHANGED n
  BY <1>2, SameBlock
<1>4. /\ keys \in Seq(Bytes) /\ left \subseteq 0 .. n - 1 /\ vacant \in 0 .. n /\ result \in [0 .. MaxBlock - 1 -> Bytes]
  BY <1>1, <1>2 DEF DecoderTyped
<1>5. left' \subseteq 0 .. n - 1 /\ result' \in [0 .. MaxBlock - 1 -> Bytes]
  <2>1. CASE keys = <<>>
    BY <1>2, <1>4, <2>1
  <2>2. CASE keys # <<>>
    <3> DEFINE chosen == 0 .. size - 1
               v == keys[Len(keys)]
    <3>1. v \in Bytes
      <4>1. Len(keys) \in 1 .. Len(keys)
        BY <1>4, <2>2
      <4> QED BY <1>4, <4>1, ElementOfSeq
    <3>2. Assign(chosen, v)
      BY <1>2, <2>2
    <3> HIDE DEF chosen, v
    <3>3. result' \in [0 .. MaxBlock - 1 -> Bytes]
      BY <1>4, <3>1, <3>2, AssignTypes
    <3>4. left' \subseteq left
      BY <1>1, <1>4, <3>2, AssignLaw
    <3> QED BY <1>4, <3>3, <3>4
  <2> QED BY <2>1, <2>2
<1> QED BY <1>1, <1>2, <1>3, <1>4, <1>5 DEF DecoderTyped

(* The types of all variables are kept.                                    *)
LEMMA TypedStep == IInv /\ CInv /\ Typed /\ [Next]_vars => Typed'
<1> SUFFICES ASSUME IInv, CInv, Typed, [Next]_vars PROVE DecoderTyped'
  BY EncoderTypedStep DEF Typed
<1>1. DecoderTyped
  BY DEF Typed
<1>2. CASE EncodeHeader \/ EncodeSymbol \/ HandOver \/ NextBlock
  <2>1. pc' \in {"encode", "symbols", "decode"} /\ UNCHANGED <<mode, key, seen, keys, kBits, size, result>>
    BY <1>2 DEF EncodeHeader, EncodeSymbol, HandOver, NextBlock, stream, decoder
  <2> QED BY <1>1, <2>1 DEF DecoderTyped
<1>3. CASE Finished \/ UNCHANGED vars
  <2>1. UNCHANGED <<mode, key, seen, file, at, pc>> /\ UNCHANGED decoder
    BY <1>3 DEF Finished, vars, stream
  <2>2. UNCHANGED n
    BY <2>1, SameBlock
  <2> QED BY <1>1, <2>1, <2>2 DEF DecoderTyped, decoder
<1> QED BY <1>2, <1>3, HeaderTyped, SymbolTyped, LastTyped DEF Next

-----------------------------------------------------------------------------
(* The theorems.                                                           *)

(* The second inductive invariant: what the encoder wrote, the decoder     *)
(* reads (process in compressor.go and in decompressor.go).                *)
THEOREM CodecInvariance == Spec => []CInv
BY CodecInit, CodecStep, Invariance, PTL DEF Spec

(* "Lossless" (README.md): with the right key every block is decoded to    *)
(* its own bytes, whatever blocks came before it and whatever the output   *)
(* slice held, and the decoder has read exactly what the encoder wrote.    *)
THEOREM RoundTripCorrect == Spec => []RoundTrip
<1>1. CInv => RoundTrip
  BY DEF CInv, Agreed, Lossless, RoundTrip
<1> QED BY <1>1, CodecInvariance, PTL

(* util.go: no field is cut. WriteBits and WriteBigIntBits are given no    *)
(* value that needs more bits than the field has.                          *)
THEOREM FieldsFitCorrect == Spec => []FieldsFit
<1>1. CInv => FieldsFit
  <2> SUFFICES ASSUME CInv, NEW x \in DOMAIN out PROVE out[x].val < 2^out[x].width
    BY DEF FieldsFit
  <2>1. x \in 1 .. Len(out)
    BY DEF CInv, Fitting
  <2> QED BY <2>1 DEF CInv, Fitting
<1> QED BY <1>1, CodecInvariance, PTL

(* compressor.go 318 to 349 and decompressor.go 176 to 229: after each     *)
(* value the decoder's free positions are those that the encoder has not   *)
(* removed.                                                                *)
THEOREM InStepCorrect == Spec => []InStep
<1>1. IInv /\ CInv => InStep
  <2>0. Source => CountBits(Tally) = OwnCountBits /\ Symbols(Tally) = OwnSymbols
    BY TallyTells
  <2> SUFFICES ASSUME IInv, CInv, key = "right", pc = "rehydrate"
               PROVE  /\ left = {x \in 0 .. n - 1 : \A i \in 1 .. got : block[x + 1] # OwnSymbols[i]}
                      /\ vacant = Cardinality(left) /\ keys = OwnSymbols /\ kBits = OwnCountBits
    BY <2>0 DEF InStep, IInv
  <2>1. /\ got \in 0 .. Len(OwnSymbols) - 1 /\ left = (0 .. n - 1) \ Gone(got)
        /\ vacant = n - Cardinality(Gone(got)) /\ keys = OwnSymbols /\ kBits = OwnCountBits
    BY DEF CInv, Following
  <2>2. left = {x \in 0 .. n - 1 : \A i \in 1 .. got : block[x + 1] # OwnSymbols[i]}
    BY <2>1 DEF Gone
  <2>3. vacant = Cardinality(left)
    <3> DEFINE S == 0 .. n - 1
               G == Gone(got)
    <3>1. n \in Nat
      BY BlockTypes DEF IInv
    <3>2. IsFiniteSet(S) /\ Cardinality(S) = n /\ G \in SUBSET S
      BY <3>1, UpTo DEF Gone
    <3> HIDE DEF S, G
    <3>3. IsFiniteSet(G) /\ S \cap G = G
      BY <3>2, FS_Subset
    <3>4. Cardinality(S \ G) = Cardinality(S) - Cardinality(G)
      BY <3>2, <3>3, FS_Difference
    <3> QED BY <2>1, <3>2, <3>4 DEF S, G
  <2> QED BY <2>1, <2>2, <2>3
<1> QED BY <1>1, Invariance, CodecInvariance, PTL

(* Types; in particular no position beyond the block is ever free, however *)
(* long the blocks before it were and whatever the decoder's key.          *)
THEOREM BlockTypesCorrect == Spec => []TypeOK
<1>1. Spec => []Typed
  BY TypedInit, TypedStep, Invariance, CodecInvariance, PTL DEF Spec
<1> QED BY <1>1, TypedImplies, Invariance, CodecInvariance, PTL
=============================================================================
