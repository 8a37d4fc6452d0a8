----------------------------- MODULE FieldCipher -----------------------------
(***************************************************************************)
(* The cipher of one field (util/cipher.go), its keystream                 *)
(* (util/keystream.go) and its nonces (util/nonce.go).                     *)
(*                                                                         *)
(* A field is a number below a modulus that both sides know, and is        *)
(* encrypted by adding a keystream number modulo the modulus.  Of SHA-256  *)
(* only that it is a function is used; the alternative generators, which   *)
(* no command selects, are left out.                                       *)
(***************************************************************************)
EXTENDS BitStream

CONSTANTS DigestBytes,       \* 32: bytes of a digest
          ExtraBytes,        \* 16: keystream bytes beyond those of the modulus
          Digest(_, _, _),   \* SHA-256 of a key, a nonce and a counter: DigestBytes bytes
          CounterSpace,      \* 2^32: counters of one nonce
          FieldSpace,        \* 2^16: nonces per block
          BlockSpace         \* 2^32: block indices

ASSUME CipherAssumption ==
  /\ DigestBytes \in Nat \ {0} /\ ExtraBytes \in Nat /\ CounterSpace \in Nat \ {0}
  /\ FieldSpace \in Nat \ {0} /\ BlockSpace \in Nat \ {0}

-----------------------------------------------------------------------------
(* util/nonce.go                                                           *)

FieldAlphabetCardinality == 0
FieldAlphabetRank == 1
FieldMostFrequent == 2
FieldCountWidth == 3
SymbolCountField(j) == (4 + 2 * j) % FieldSpace

\* bug: a symbol's count and its rank have the same field index
SymbolRankFieldSame(j) == (4 + 2 * j) % FieldSpace

SymbolRankField(j) == (4 + 2 * j + 1) % FieldSpace

\* domain, block index and field index side by side
BlockFieldNonce(b, field) == b * FieldSpace + field
ReferenceAlphabetNonce == BlockSpace * FieldSpace
HashNonce == 2 * BlockSpace * FieldSpace

-----------------------------------------------------------------------------
(* util/keystream.go                                                       *)

\* sha256Keystream: n bytes of the digests under counters 0, 1, ...
Keystream(key, nonce, n) ==
  [b \in 1 .. n |-> LET counter == ((b - 1) \div DigestBytes) % CounterSpace
                    IN Digest(key, nonce, counter)[((b - 1) % DigestBytes) + 1]]

-----------------------------------------------------------------------------
(* util/cipher.go                                                          *)

RankKeystream(key, nonce, modulus) ==
  IF modulus <= 0 THEN 0
  ELSE NumberOf(Keystream(key, nonce, BytesFor(BitLength(modulus)) + ExtraBytes)) % modulus

EncryptRank(rank, modulus, key, nonce) == (rank + RankKeystream(key, nonce, modulus)) % modulus

DecryptRank(cipher, modulus, key, nonce) == (cipher - RankKeystream(key, nonce, modulus)) % modulus

\* in uint64
EncryptUint(val, modulus, key, nonce) ==
  IF modulus <= 1 THEN 0 ELSE ((val + RankKeystream(key, nonce, modulus)) % Word) % modulus

DecryptUint(cipher, modulus, key, nonce) ==
  IF modulus <= 1 THEN 0
  ELSE ((cipher + modulus - RankKeystream(key, nonce, modulus)) % Word) % modulus

\* a field of bytes, as one number
EncryptBytesField(b, key, nonce) ==
  BytesOf(EncryptRank(NumberOf(b), 2^(ByteBits * Len(b)), key, nonce), Len(b))

DecryptBytesField(b, key, nonce) ==
  BytesOf(DecryptRank(NumberOf(b), 2^(ByteBits * Len(b)), key, nonce), Len(b))
=============================================================================
