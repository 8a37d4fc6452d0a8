------------------------- MODULE FileLifecycleProofs -------------------------
(***************************************************************************)
(* Proofs about FileLifecycle, for files of any length and any number of   *)
(* runs: no loss goes unnoticed, and without a mishap nothing is lost.     *)
(*                                                                         *)
(* They need what the program needs.  The block count of the file fits in  *)
(* its 32 bits (Fits).  The output of a decompression can be created, or   *)
(* is not empty: an empty one needs no write that could fail (Creatable).  *)
(* The runs that violate Lossless show both to be necessary.               *)
(***************************************************************************)
EXTENDS FileLifecycle, SequenceTheorems, FiniteSetTheorems, TLAPS

(* The number of blocks of a file of l bytes fits in the header.           *)
Fits == \A l \in Lengths : l \div BlockSize + (IF l % BlockSize # 0 THEN 1 ELSE 0) < CountMod

(* If os.Create may fail, there is something to write that will fail, too. *)
Creatable == "create" \in Faults => 0 \notin Lengths

-----------------------------------------------------------------------------
(* The inductive invariant: what the types need, then the rest.            *)

Compressing == pc \in {"create", "header", "block", "flush", "remove"}
Appending == pc \in {"block", "flush", "remove"}
Decompressing == pc \in {"open", "decode", "hash", "check"}
Decoding == pc \in {"decode", "hash", "check"}

AtStart == i = 0 /\ hashed = <<>> /\ wbuf = <<>> /\ ~werr

(* The files and the key a run works with are there.                       *)
Present ==
  /\ Compressing => f # Absent /\ key # "wrong"
  /\ Appending => key \in OwnKeys
  /\ Compressing /\ pc # "create" => arch # Absent
  /\ Decompressing => arch # Absent /\ key \in Keys
  /\ pc \in {"create", "header", "open"} => AtStart
  /\ Decoding => Acceptable
  /\ pc = "decode" /\ created => f # Absent

(* There was at most one kind of mishap, and none that keeps a compression *)
(* from reading the bytes of original, in order.                           *)
Single == \E m \in Mishaps : mishaps \subseteq {m}
Clean == mishaps \cap {"short", "grow", "shrink"} = {}

(* d agrees with original as far as that goes.                             *)
Like(d) == \A x \in 1 .. Len(d) : x <= Len(original) => d[x] = original[x]

(* The bytes of the first m blocks of original.                            *)
Blocks(m) == SubSeq(original, 1, Upto(m))

(* No byte of d, or of any block of a, is from a damaged record.           *)
Unmarked(d) == \A x \in 1 .. Len(d) : d[x] # Damaged
UnmarkedBlocks(a) == \A k \in 1 .. Len(a) : a[k].kind = "block" => Unmarked(a[k].data)

(* A record as a compression wrote it: its hash is that of original, or at *)
(* least that of bytes that start like original.                           *)
Genuine(rec) ==
  /\ rec.kind # "magic"
  /\ rec.kind = "block" => (Clean => Unmarked(rec.data))
  /\ rec.kind = "hash" => Like(rec.sum) /\ (Clean => rec.sum = original)

OwnHeader(rec) == \E k \in OwnKeys : rec = Header(Len(original), k)

(* Part of an archive as a compression wrote it, and an archive of which   *)
(* one record was damaged later.                                           *)
Fresh(a) == /\ \A k \in 1 .. Len(a) : Genuine(a[k])
            /\ a # <<>> => OwnHeader(a[1])
Struck(a) == \A k \in 1 .. Len(a) : a[k].kind = "hash" =>
               a[k].sum = original \/ (a[k].sum = <<Damaged>> /\ UnmarkedBlocks(a))

(* An archive of the first m blocks of original, and one of all of it.     *)
Begun(a, k, m) ==
  /\ Len(a) = m + 1 /\ a[1] = Header(Len(original), k)
  /\ \A b \in 1 .. m : a[b + 1] = Block(Piece(b), k)
Whole(a, k) ==
  LET m == Count(Len(original)) IN
  /\ Len(a) = m + 2 /\ a[1] = Header(Len(original), k)
  /\ \A b \in 1 .. m : a[b + 1] = Block(Piece(b), k)
  /\ a[m + 2] = Hash(original, k)

Origin == original \in { [x \in 1 .. l |-> x] : l \in Lengths }

(* The archive is what a compression wrote, or a damaged one.              *)
Archive == arch # Absent => Fresh(arch) \/ ("damage" \in mishaps /\ Struck(arch))

(* During a compression: f starts like original, and arch with what is     *)
(* still buffered is an archive of the bytes read so far.                  *)
Reading ==
  /\ Compressing => size = Len(original) /\ Like(f) /\ (Clean => f = original)
  /\ Compressing /\ pc # "create" => ~archived
  /\ pc = "header" => arch = <<>>
  /\ Appending => Fresh(arch \o wbuf)
  /\ pc = "block" => /\ arch \o wbuf # <<>> /\ Like(hashed)
                     /\ Clean => hashed = Blocks(i)
                     /\ mishaps = {} /\ ~werr => Begun(arch \o wbuf, key, i)
  /\ pc = "flush" => ~werr /\ (mishaps = {} => Whole(arch \o wbuf, key))
  /\ pc = "remove" /\ mishaps = {} => Whole(arch, key)

(* What was decoded so far has the length the header says, no byte that is *)
(* in none of the blocks, and the bytes of original if all is well.        *)
Output ==
  /\ i <= arch[1].blocks
  /\ OwnHeader(arch[1]) => Len(hashed) = Upto(i)
  /\ UnmarkedBlocks(arch) => Unmarked(hashed)
  /\ mishaps = {} /\ arch[1].key \in {"none", key} => hashed = Blocks(i)

(* What is compared is the hash of the archive, or no hash at all.         *)
Compared == buffer64 = NoSum \/ (HashFound /\ buffer64 = arch[HashPlace].sum)

(* During a decompression: all that is in the output file or on its way.   *)
Writing ==
  /\ Decompressing => archived
  /\ Decoding => Output
  /\ Decoding /\ ~werr => IF created THEN f # Absent /\ f \o wbuf = hashed
                          ELSE wbuf = hashed /\ "create" \in Faults
  /\ pc \in {"hash", "check"} => i = arch[1].blocks /\ ~werr /\ wbuf = <<>>
  /\ Decompressing /\ pc # "check" => buffer64 = NoSum
  /\ pc = "check" => Compared

(* Until a mishap, the archive of a complete compression is whole, and     *)
(* between runs there is such an archive or f is untouched.                *)
Kept ==
  mishaps = {} =>
    /\ archived /\ arch # Absent => \E k \in OwnKeys : Whole(arch, k)
    /\ pc = "idle" => f = original \/ (archived /\ arch # Absent)

Types == TypeOK /\ Present /\ Origin
Contents == Single => Archive /\ Reading /\ Writing /\ Kept
IInv == Types /\ Contents

-----------------------------------------------------------------------------
(* The buffered writer.                                                    *)

(* With what is buffered, new is old and d; new is old and all of it; new  *)
(* is old and some of it, from the start.                                  *)
Continued(old, d, new) == new \o wbuf' = (old \o wbuf) \o d
Emptied(old, new) == new = old \o wbuf
Start(s, m) == SubSeq(s, 1, m)
Spilled(old, new) == \E m \in 0 .. Len(wbuf) : new = old \o Start(wbuf, m)

(* What Write appends is in the file or in the buffer.                     *)
LEMMA WrittenLaw ==
  ASSUME NEW S, wbuf \in Seq(S), NEW d \in Seq(S), NEW old, NEW new, NEW open \in BOOLEAN,
         open => old \in Seq(S), Written(d, old, new, open)
  PROVE  /\ ~werr /\ werr' = werr /\ wbuf' \in Seq(S)
         /\ open => new \in Seq(S) /\ Continued(old, d, new)
         /\ ~open => new = old /\ wbuf' = wbuf \o d
<1>1. wbuf \o d \in Seq(S)
  BY ConcatProperties
<1>2. CASE wbuf' = wbuf \o d /\ new = old
  <2>1. open => (old \o wbuf) \o d = old \o (wbuf \o d)
    BY ConcatAssociative
  <2> QED BY <1>1, <1>2, <2>1 DEF Written, Continued
<1>3. CASE open /\ new = old \o wbuf /\ wbuf' = d
  <2>1. old \o wbuf \in Seq(S)
    BY <1>3, ConcatProperties
  <2> QED BY <1>3, <2>1 DEF Written, Continued
<1> QED BY <1>2, <1>3 DEF Written

(* A failed Write leaves some of the buffer in the file.                   *)
LEMMA FailedLaw ==
  ASSUME NEW S, wbuf \in Seq(S), NEW fault, NEW old, NEW new, NEW open \in BOOLEAN,
         open => old \in Seq(S), WriteFailed(fault, old, new, open)
  PROVE  /\ open => new \in Seq(S) /\ Spilled(old, new)
         /\ ~open => new = old
<1>n. Len(wbuf) \in Nat
  BY LenProperties
<1>1. CASE new = old
  <2>1. SubSeq(wbuf, 1, 0) = <<>>
    BY SubSeqEmpty
  <2>2. open => old = old \o Start(wbuf, 0)
    BY <2>1, ConcatEmptySeq DEF Start
  <2> QED BY <1>n, <1>1, <2>2 DEF Spilled
<1>2. CASE open /\ \E m \in 0 .. Len(wbuf) - 1 : new = old \o SubSeq(wbuf, 1, m)
  <2>1. PICK m \in 0 .. Len(wbuf) - 1 : new = old \o SubSeq(wbuf, 1, m)
    BY <1>2
  <2>2. \A x \in 1 .. m : wbuf[x] \in S
    BY <1>n, <2>1, ElementOfSeq
  <2>3. SubSeq(wbuf, 1, m) \in Seq(S)
    BY <2>1, <2>2, SubSeqProperties
  <2>4. new \in Seq(S)
    BY <1>2, <2>1, <2>3, ConcatProperties
  <2>5. m \in 0 .. Len(wbuf)
    BY <1>n, <2>1
  <2>6. new = old \o Start(wbuf, m)
    BY <2>1 DEF Start
  <2> QED BY <1>2, <2>4, <2>5, <2>6 DEF Spilled
<1> QED BY <1>1, <1>2 DEF WriteFailed

(* Flush leaves all of the buffer in the file.                             *)
LEMMA FlushedLaw ==
  ASSUME NEW S, wbuf \in Seq(S), NEW old, NEW new, NEW open \in BOOLEAN,
         open => old \in Seq(S), Flushed(old, new, open)
  PROVE  /\ ~werr
         /\ open => new \in Seq(S) /\ Emptied(old, new)
         /\ ~open => new = old /\ wbuf = <<>>
BY ConcatProperties, ConcatEmptySeq DEF Flushed, Emptied

-----------------------------------------------------------------------------
(* Types.                                                                  *)

(* Min, of the two numbers it is used for.                                 *)
LEMMA MinOfTwo ==
  ASSUME NEW a \in Int, NEW b \in Int
  PROVE  Min({a, b}) = IF a <= b THEN a ELSE b
<1> DEFINE m == IF a <= b THEN a ELSE b
<1>1. m \in {a, b} /\ \A y \in {a, b} : m <= y
  OBVIOUS
<1>2. \A x \in {a, b} : (\A y \in {a, b} : x <= y) => x = m
  OBVIOUS
<1> QED BY <1>1, <1>2 DEF Min

(* The records the program writes.                                         *)
LEMMA RecordTypes ==
  /\ \A s \in Nat : Count(s) \in Nat
  /\ \A s \in Nat, k \in OwnKeys : Header(s, k) \in Records
  /\ \A d \in Seq(Int), k \in OwnKeys : Block(d, k) \in Records /\ Hash(d, k) \in Records
<1>1. \A s \in Nat : Count(s) \in Nat /\ s % BlockSize \in Nat
  BY FileAssumption DEF Count
<1> QED BY <1>1 DEF Header, Block, Hash, Records

(* What is read from f, and what a block decodes to, are bytes.            *)
LEMMA ReadTypes ==
  ASSUME f \in Seq(Int), hashed \in Seq(Int)
  PROVE  /\ Available \in Seq(Int)
         /\ \A data \in Reads : data \in Seq(Int)
<1> DEFINE from == Len(hashed) + 1
           to == Min({Len(f), Len(hashed) + BlockSize})
<1>n. Len(f) \in Nat /\ Len(hashed) \in Nat /\ BlockSize \in Nat
  BY FileAssumption, LenProperties
<1>m. to = IF Len(f) <= Len(hashed) + BlockSize THEN Len(f) ELSE Len(hashed) + BlockSize
  <2>1. Len(f) \in Int /\ Len(hashed) + BlockSize \in Int
    BY <1>n
  <2> QED BY <2>1, MinOfTwo
<1>1. from \in Int /\ 1 <= from /\ to \in Int /\ to <= Len(f)
  BY <1>n, <1>m
<1>2. Available \in Seq(Int)
  <2> HIDE DEF from, to
  <2>1. \A x \in from .. to : x \in 1 .. Len(f)
    BY <1>n, <1>1
  <2>2. \A x \in from .. to : f[x] \in Int
    BY <2>1, ElementOfSeq
  <2>3. SubSeq(f, from, to) \in Seq(Int)
    BY <1>1, <2>2, SubSeqProperties
  <2> QED BY <2>3 DEF Available, from, to
<1>3. \A m \in 1 .. Len(Available) : SubSeq(Available, 1, m) \in Seq(Int)
  BY <1>2, LenProperties, ElementOfSeq, SubSeqProperties
<1> QED BY <1>2, <1>3 DEF Reads

(* Every block decodes to as many bytes as main asks for.                  *)
LEMMA DecodedTypes ==
  ASSUME NEW h \in Records, h.kind = "header", NEW b \in Nat, NEW rec \in Records, NEW k
  PROVE  Decoded(h, b, rec, k) \in Seq(Int) /\ Len(Decoded(h, b, rec, k)) = BlockLength(h, b)
<1>1. BlockLength(h, b) \in Nat
  BY FileAssumption DEF Records, BlockLength
<1>2. Garbage \in Int
  BY DEF Garbage
<1>3. /\ [x \in 1 .. BlockLength(h, b) |-> Garbage] \in Seq(Int)
      /\ Len([x \in 1 .. BlockLength(h, b) |-> Garbage]) = BlockLength(h, b)
  BY <1>1, <1>2
<1>4. CASE Decodes(h, b, rec, k)
  BY <1>4 DEF Decoded, Decodes, Records
<1>5. CASE ~Decodes(h, b, rec, k)
  BY <1>3, <1>5 DEF Decoded
<1> QED BY <1>4, <1>5

(* A damaged record is a record, and what a power failure leaves a file.   *)
LEMMA DamagedTypes == \A rec \in Records : DamagedForms(rec) \subseteq Records
<1> SUFFICES ASSUME NEW rec \in Records PROVE DamagedForms(rec) \subseteq Records
  OBVIOUS
<1>1. CASE rec.kind \in {"header", "magic"}
  <2>1. rec \in [kind : {"header", "magic"}, blocks : Nat, remainder : Nat, sound : BOOLEAN, key : OwnKeys]
    BY <1>1 DEF Records
  <2>2. \A c \in 0 .. rec.blocks + 1, m \in 0 .. BlockSize + 1 : c \in Nat /\ m \in Nat
    BY <2>1, FileAssumption
  <2>3. [rec EXCEPT !.kind = "magic"] \in Records /\ [rec EXCEPT !.sound = FALSE] \in Records
    BY <2>1 DEF Records
  <2>4. \A c \in 0 .. rec.blocks + 1 : [rec EXCEPT !.blocks = c] \in Records
    BY <2>1, <2>2 DEF Records
  <2>5. \A m \in 0 .. BlockSize + 1 : [rec EXCEPT !.remainder = m] \in Records
    BY <2>1, <2>2 DEF Records
  <2> QED BY <1>1, <2>3, <2>4, <2>5 DEF DamagedForms
<1>2. CASE rec.kind = "block"
  <2>1. rec \in [kind : {"block"}, data : Seq(Int), key : OwnKeys]
    BY <1>2 DEF Records
  <2>2. [x \in DOMAIN rec.data |-> Damaged] \in Seq(Int)
    <3>1. DOMAIN rec.data = 1 .. Len(rec.data) /\ Len(rec.data) \in Nat
      BY <2>1, LenProperties
    <3> QED BY <3>1 DEF Damaged
  <2> QED BY <1>2, <2>1, <2>2 DEF DamagedForms, Records
<1>3. CASE rec.kind = "hash"
  <2>1. rec \in [kind : {"hash"}, sum : Seq(Int), key : OwnKeys]
    BY <1>3 DEF Records
  <2>2. <<Damaged>> \in Seq(Int)
    BY DEF Damaged
  <2> QED BY <1>3, <2>1, <2>2 DEF DamagedForms, Records
<1> QED BY <1>1, <1>2, <1>3 DEF Records

(* A power failure leaves a file, if there is one, a part of itself.       *)
LEMMA SurvivesTypes ==
  ASSUME NEW S, NEW content, NEW new, NEW file,
         content = Absent \/ content \in Seq(S), Survives(content, new, file)
  PROVE  /\ new = Absent \/ new \in Seq(S)
         /\ new = content \/ (content \in Seq(S) /\ \E l \in 0 .. Len(content) : new = SubSeq(content, 1, l))
<1>1. CASE content = Absent \/ file \notin written
  BY <1>1 DEF Survives
<1>2. CASE content # Absent /\ file \in written
  <2>1. PICK l \in 0 .. Len(content) : new = SubSeq(content, 1, l)
    BY <1>2 DEF Survives
  <2>2. Len(content) \in Nat /\ \A x \in 1 .. l : content[x] \in S
    BY <1>2, <2>1, ElementOfSeq, LenProperties
  <2>3. new \in Seq(S)
    BY <2>1, <2>2, SubSeqProperties
  <2> QED BY <1>2, <2>1, <2>3
<1> QED BY <1>1, <1>2

(* Types hold in every reachable state, whatever the constants.            *)
LEMMA TypesInit == Init => Types
<1> SUFFICES ASSUME Init PROVE Types
  OBVIOUS
<1>1. PICK l \in Lengths : original = [x \in 1 .. l |-> x]
  BY DEF Init
<1>2. original \in Seq(Int)
  BY <1>1, FileAssumption
<1>3. <<>> \in Seq(Records) /\ <<>> \in Seq(Int)
  OBVIOUS
<1>4. TypeOK
  <2>1. /\ f \in Seq(Int) /\ wbuf \in Seq(Records) /\ hashed \in Seq(Int) /\ arch = Absent
        /\ pc = "idle" /\ wbuf = <<>> /\ werr = FALSE /\ buffer64 = NoSum
    BY <1>2, <1>3 DEF Init
  <2>2. /\ archived \in BOOLEAN /\ keep \in BOOLEAN /\ created \in BOOLEAN /\ werr \in BOOLEAN
        /\ key \in Keys \cup {"missing"} /\ written \subseteq {"f", "arch"} /\ mishaps \subseteq Mishaps
    BY DEF Init, Keys
  <2>3. size \in Nat /\ i \in Nat /\ runs \in 0 .. MaxRuns
    BY FileAssumption DEF Init
  <2> QED BY <2>1, <2>2, <2>3 DEF TypeOK, Steps
<1>5. Present
  BY DEF Init, Present, Compressing, Appending, Decompressing, Decoding
<1>6. Origin
  BY DEF Init, Origin
<1> QED BY <1>4, <1>5, <1>6 DEF Types

(* Every step keeps the types.                                             *)
LEMMA TypesStep == Types /\ [Next]_vars => Types'
<1> SUFFICES ASSUME TypeOK, Present, Origin, [Next]_vars PROVE TypeOK' /\ Present' /\ Origin'
  BY DEF Types
<1> USE DEF files, run, world, Steps, Exit
<1>o. Origin'
  BY DEF Origin, Next, vars, RunCompress, RunDecompress, Compress, Decompress, Outside, Rest, CreateArchive,
         WriteHeader, CompressBlock, CompressReadFails, WriteHash, FlushArchive, RemoveInput, RefuseArchive,
         CreateOutput, DecompressBlock, DecompressReadFails, DecompressPanics, FlushOutput, ReadHash, CheckHash, Kill,
         Grow, Shrink, Damage, PowerFails
<1>e. <<>> \in Seq(Records) /\ <<>> \in Seq(Int)
  OBVIOUS
<1>1. CASE RunCompress
  <2>1. f # Absent /\ f \in Seq(Int)
    <3>1. f = original
      BY <1>1 DEF RunCompress
    <3>2. original \in Seq(Int)
      <4>1. PICK l \in Lengths : original = [x \in 1 .. l |-> x]
        BY DEF Origin
      <4>2. l \in Nat
        BY <4>1, FileAssumption
      <4> QED BY <4>1, <4>2
    <3> QED BY <3>1, <3>2, FileAssumption
  <2>2. TypeOK'
    BY <1>e, <1>1, <2>1, FileAssumption, LenProperties DEF RunCompress, TypeOK, Keys
  <2>3. Present'
    BY <1>1, <2>1 DEF RunCompress, TypeOK, Present, Compressing, Appending, Decompressing, Decoding, AtStart, Acceptable
  <2> QED BY <2>2, <2>3, <1>o
<1>2. CASE CreateArchive
  <2>1. TypeOK'
    BY <1>e, <1>2, FileAssumption DEF CreateArchive, TypeOK, Present, AtStart
  <2>2. Present'
    BY <1>e, <1>2, FileAssumption DEF CreateArchive, Present, Compressing, Appending, Decompressing, Decoding, AtStart
  <2> QED BY <2>1, <2>2, <1>o
<1>3. CASE WriteHeader
  <2>1. key # "missing" => key \in OwnKeys
    BY <1>3 DEF WriteHeader, TypeOK, Present, Compressing, Keys, OwnKeys
  <2>2. key # "missing" => Header(size, key) \in Records
    BY <2>1, RecordTypes DEF TypeOK
  <2>3. key # "missing" => <<Header(size, key)>> \in Seq(Records)
    BY <2>2
  <2>4. Count(size) \in Nat
    BY RecordTypes DEF TypeOK
  <2>5. TypeOK'
    <3>1. i = 0 /\ wbuf = <<>> /\ ~werr
      BY <1>3 DEF WriteHeader, Present, AtStart
    <3>2. CASE key = "missing"
      BY <1>e, <1>3, <3>2 DEF WriteHeader, TypeOK
    <3>3. CASE key # "missing"
      <4>1. /\ pc' = "block" /\ wbuf' \in Seq(Records) /\ werr' = werr
            /\ UNCHANGED <<files, archived, run, world, size, i, hashed, created>>
        BY <1>3, <2>3, <3>3 DEF WriteHeader
      <4> QED BY <2>4, <3>1, <4>1 DEF TypeOK
    <3> QED BY <3>2, <3>3
  <2>6. Present'
    BY <1>3, <2>1 DEF WriteHeader, Present, Compressing, Appending, Decompressing, Decoding, AtStart
  <2> QED BY <2>5, <2>6, <1>o
<1>4. CASE CompressBlock
  <2>1. PICK data \in Reads :
          /\ hashed' = hashed \o data
          /\ mishaps' = mishaps \cup (IF data = Available THEN {} ELSE {"short"})
          /\ \/ Written(<<Block(data, key)>>, arch, arch', TRUE)
             \/ WriteFailed("spill", arch, arch', TRUE) /\ Ignore
    BY <1>4 DEF CompressBlock
  <2>p. pc = "block" /\ f \in Seq(Int) /\ arch \in Seq(Records) /\ wbuf \in Seq(Records) /\ key \in OwnKeys
    BY <1>4 DEF CompressBlock, TypeOK, Present, Compressing, Appending
  <2>2. data \in Seq(Int) /\ hashed' \in Seq(Int)
    BY <2>1, <2>p, ReadTypes, ConcatProperties DEF TypeOK
  <2>3. <<Block(data, key)>> \in Seq(Records)
    BY <2>2, <2>p, RecordTypes
  <2>4. arch' \in Seq(Records) /\ wbuf' \in Seq(Records) /\ werr' \in BOOLEAN
    <3>1. CASE Written(<<Block(data, key)>>, arch, arch', TRUE)
      BY <2>p, <2>3, <3>1, WrittenLaw DEF TypeOK
    <3>2. CASE WriteFailed("spill", arch, arch', TRUE) /\ Ignore
      BY <2>p, <3>2, FailedLaw DEF Ignore
    <3> QED BY <2>1, <3>1, <3>2
  <2>5. mishaps' \subseteq Mishaps
    BY <2>1 DEF TypeOK, Mishaps
  <2>6. i' \in Nat /\ i' <= Count(size)
    BY <1>4, RecordTypes DEF CompressBlock, TypeOK
  <2>7. TypeOK'
    BY <1>4, <2>2, <2>4, <2>5, <2>6 DEF CompressBlock, TypeOK
  <2>8. Present'
    BY <1>4, <2>p, <2>4, FileAssumption
       DEF CompressBlock, Present, Compressing, Appending, Decompressing, Decoding, AtStart
  <2> QED BY <2>7, <2>8, <1>o
<1>5. CASE CompressReadFails \/ RefuseArchive \/ DecompressReadFails \/ DecompressPanics \/ Kill
  <2>1. pc' = "idle" /\ wbuf' = <<>> /\ werr' = FALSE
        /\ UNCHANGED <<files, archived, run, world, size, i, hashed, created>>
    BY <1>5 DEF CompressReadFails, RefuseArchive, DecompressReadFails, DecompressPanics, Kill
  <2>2. TypeOK'
    BY <1>e, <2>1 DEF TypeOK
  <2>3. Present'
    BY <2>1 DEF Present, Compressing, Appending, Decompressing, Decoding, AtStart
  <2> QED BY <2>2, <2>3, <1>o
<1>6. CASE WriteHash
  <2>p. pc = "block" /\ arch \in Seq(Records) /\ wbuf \in Seq(Records) /\ key \in OwnKeys
    BY <1>6 DEF WriteHash, TypeOK, Present, Compressing, Appending
  <2>1. <<Hash(hashed, key)>> \in Seq(Records)
    BY <2>p, RecordTypes DEF TypeOK
  <2>2. /\ arch' \in Seq(Records) /\ wbuf' \in Seq(Records) /\ werr' \in BOOLEAN
        /\ (pc' = "flush" \/ (pc' = "idle" /\ wbuf' = <<>> /\ ~werr'))
    <3>1. CASE Written(<<Hash(hashed, key)>>, arch, arch', TRUE) /\ pc' = "flush"
      BY <2>p, <2>1, <3>1, WrittenLaw DEF TypeOK
    <3>2. CASE WriteFailed("spill", arch, arch', TRUE) /\ Exit
      BY <1>e, <2>p, <3>2, FailedLaw
    <3> QED BY <1>6, <3>1, <3>2 DEF WriteHash
  <2>3. TypeOK'
    BY <1>6, <2>2 DEF WriteHash, TypeOK
  <2>4. Present'
    BY <1>6, <2>p, <2>2, FileAssumption
       DEF WriteHash, Present, Compressing, Appending, Decompressing, Decoding, AtStart
  <2> QED BY <2>3, <2>4, <1>o
<1>7. CASE FlushArchive
  <2>p. pc = "flush" /\ arch \in Seq(Records) /\ wbuf \in Seq(Records) /\ key \in OwnKeys
    BY <1>7 DEF FlushArchive, TypeOK, Present, Compressing, Appending
  <2>1. arch' \in Seq(Records) /\ wbuf' \in Seq(Records) /\ werr' \in BOOLEAN
    BY <1>e, <1>7, <2>p, FlushedLaw, FailedLaw DEF FlushArchive, Ignore, TypeOK
  <2>2. mishaps' \subseteq Mishaps
    BY <1>7 DEF FlushArchive, TypeOK, Mishaps
  <2>3. TypeOK'
    BY <1>7, <2>1, <2>2 DEF FlushArchive, TypeOK
  <2>4. Present'
    BY <1>7, <2>p, <2>1, FileAssumption
       DEF FlushArchive, Present, Compressing, Appending, Decompressing, Decoding, AtStart
  <2> QED BY <2>3, <2>4, <1>o
<1>8. CASE RemoveInput
  <2>1. TypeOK'
    BY <1>e, <1>8 DEF RemoveInput, TypeOK
  <2>2. Present'
    BY <1>8 DEF RemoveInput, Present, Compressing, Appending, Decompressing, Decoding, AtStart
  <2> QED BY <2>1, <2>2, <1>o
<1>9. CASE RunDecompress
  <2>1. TypeOK'
    BY <1>e, <1>9, FileAssumption DEF RunDecompress, TypeOK, Keys
  <2>2. Present'
    BY <1>9 DEF RunDecompress, TypeOK, Present, Compressing, Appending, Decompressing, Decoding, AtStart
  <2> QED BY <2>1, <2>2, <1>o
<1>10. CASE CreateOutput
  <2>1. pc = "open" /\ wbuf = <<>> /\ arch # Absent
    BY <1>10 DEF CreateOutput, Present, Decompressing, AtStart
  <2>2. TypeOK'
    BY <1>e, <1>10, <2>1 DEF CreateOutput, TypeOK
  <2>3. Present'
    BY <1>e, <1>10, <2>1, FileAssumption
       DEF CreateOutput, Present, Acceptable, Compressing, Appending, Decompressing, Decoding, AtStart
  <2> QED BY <2>2, <2>3, <1>o
<1>11. CASE DecompressBlock
  <2> DEFINE d == Decoded(arch[1], i, arch[i + 2], key)
  <2>p. /\ pc = "decode" /\ arch \in Seq(Records) /\ wbuf \in Seq(Int) /\ Acceptable
        /\ created => f \in Seq(Int)
    BY <1>11 DEF DecompressBlock, TypeOK, Present, Decompressing, Decoding, AtStart
  <2>1. /\ arch[1] \in Records /\ arch[1].kind = "header" /\ arch[i + 2] \in Records /\ i \in Nat
        /\ arch[1].blocks \in Nat
    <3>1. Len(arch) \in Nat /\ i \in Nat /\ Len(arch) >= i + 2
      BY <1>11, <2>p, LenProperties DEF DecompressBlock, TypeOK
    <3>2. arch[1] \in Records /\ arch[i + 2] \in Records
      BY <2>p, <3>1, ElementOfSeq
    <3> QED BY <2>p, <3>1, <3>2 DEF Acceptable, Records
  <2>2. d \in Seq(Int) /\ hashed' = hashed \o d
    BY <1>11, <2>1, DecodedTypes DEF DecompressBlock
  <2>3. \/ Written(d, f, f', created)
        \/ WriteFailed("spill", f, f', created) /\ Ignore
    BY <1>11 DEF DecompressBlock
  <2> HIDE DEF d
  <2>4. hashed' \in Seq(Int)
    BY <2>2, ConcatProperties DEF TypeOK
  <2>5. /\ f' = Absent \/ f' \in Seq(Int)
        /\ wbuf' \in Seq(Int) /\ werr' \in BOOLEAN
        /\ created => f' \in Seq(Int)
    <3>1. created \in BOOLEAN /\ (f = Absent \/ f \in Seq(Int))
      BY DEF TypeOK
    <3>2. CASE Written(d, f, f', created)
      BY <2>p, <2>2, <3>1, <3>2, WrittenLaw DEF TypeOK
    <3>3. CASE WriteFailed("spill", f, f', created) /\ Ignore
      BY <2>p, <3>1, <3>3, FailedLaw DEF Ignore
    <3> QED BY <2>3, <3>2, <3>3
  <2>6. TypeOK'
    BY <1>11, <2>p, <2>4, <2>5 DEF DecompressBlock, TypeOK
  <2>7. Present'
    BY <1>11, <2>p, <2>5, FileAssumption
       DEF DecompressBlock, Present, Acceptable, Compressing, Appending, Decompressing, Decoding, AtStart
  <2> QED BY <2>6, <2>7, <1>o
<1>12. CASE FlushOutput
  <2>p. pc = "decode" /\ wbuf \in Seq(Int) /\ (created => f \in Seq(Int)) /\ created \in BOOLEAN
    BY <1>12 DEF FlushOutput, TypeOK, Present
  <2>1. /\ f' = Absent \/ f' \in Seq(Int)
        /\ wbuf' = <<>> /\ werr' = FALSE /\ pc' \in {"hash", "idle"}
    BY <1>12, <2>p, FlushedLaw, FailedLaw DEF FlushOutput, TypeOK
  <2>2. TypeOK'
    BY <1>e, <1>12, <2>1 DEF FlushOutput, TypeOK
  <2>3. Present'
    BY <1>12, <2>1
       DEF FlushOutput, Present, Acceptable, Compressing, Appending, Decompressing, Decoding, AtStart
  <2> QED BY <2>2, <2>3, <1>o
<1>13. CASE CheckHash
  <2>1. TypeOK'
    BY <1>e, <1>13 DEF CheckHash, TypeOK
  <2>2. Present'
    BY <1>13 DEF CheckHash, Present, Compressing, Appending, Decompressing, Decoding, AtStart
  <2> QED BY <2>1, <2>2, <1>o
<1>14. CASE Grow \/ Shrink
  <2>p. pc \in {"create", "header", "block"} /\ f \in Seq(Int)
    BY <1>14 DEF Grow, Shrink, TypeOK, Present, Compressing
  <2>1. ASSUME NEW l \in 0 .. Len(f) - 1 PROVE SubSeq(f, 1, l) \in Seq(Int)
    <3>1. Len(f) \in Nat
      BY <2>p, LenProperties
    <3>2. l \in Int /\ \A x \in 1 .. l : f[x] \in Int
      BY <2>p, <3>1, ElementOfSeq
    <3> QED BY <3>2, SubSeqProperties
  <2>2. f' \in Seq(Int)
    <3>1. CASE Grow
      <4>1. f' = Append(f, Appended) /\ Appended \in Int
        BY <3>1 DEF Grow, Appended
      <4> QED BY <2>p, <4>1, AppendProperties
    <3>2. CASE Shrink
      <4>1. \E l \in 0 .. Len(f) - 1 : f' = SubSeq(f, 1, l)
        BY <3>2 DEF Shrink
      <4> QED BY <2>1, <4>1
    <3> QED BY <1>14, <3>1, <3>2
  <2>3. /\ mishaps' \subseteq Mishaps
        /\ UNCHANGED <<original, arch, archived, pc, run, written, size, i, hashed, wbuf, werr, created>>
    BY <1>14 DEF Grow, Shrink, Mishap, TypeOK, Mishaps
  <2>4. TypeOK'
    BY <2>2, <2>3 DEF TypeOK
  <2>5. Present'
    BY <2>p, <2>2, <2>3, FileAssumption
       DEF Present, Acceptable, Compressing, Appending, Decompressing, Decoding, AtStart
  <2> QED BY <2>4, <2>5, <1>o
<1>15. CASE Damage
  <2>p. pc = "idle" /\ arch \in Seq(Records)
    BY <1>15 DEF Damage, TypeOK
  <2>1. \A rec \in Records : DamagedForms(rec) \subseteq Records
    BY DamagedTypes
  <2>2. PICK k \in DOMAIN arch : \E rec \in DamagedForms(arch[k]) : arch' = [arch EXCEPT ![k] = rec]
    BY <1>15 DEF Damage
  <2>3. k \in 1 .. Len(arch) /\ arch[k] \in Records
    BY <2>p, <2>2, LenProperties, ElementOfSeq
  <2>4. arch' \in Seq(Records)
    BY <2>p, <2>1, <2>2, <2>3, ExceptSeq
  <2>5. /\ mishaps' \subseteq Mishaps
        /\ UNCHANGED <<original, f, archived, pc, run, written, size, i, hashed, wbuf, werr, created>>
    BY <1>15 DEF Damage, Mishap, TypeOK, Mishaps
  <2>6. TypeOK'
    BY <2>4, <2>5 DEF TypeOK
  <2>7. Present'
    BY <2>p, <2>5 DEF Present, Compressing, Appending, Decompressing, Decoding, AtStart
  <2> QED BY <2>6, <2>7, <1>o
<1>16. CASE PowerFails
  <2>1. f' = Absent \/ f' \in Seq(Int)
    BY <1>16, SurvivesTypes DEF PowerFails, TypeOK
  <2>2. arch' = Absent \/ arch' \in Seq(Records)
    BY <1>16, SurvivesTypes DEF PowerFails, TypeOK
  <2>3. /\ mishaps' \subseteq Mishaps
        /\ pc' = "idle" /\ wbuf' = <<>> /\ werr' = FALSE
        /\ UNCHANGED <<original, archived, run, written, size, i, hashed, created>>
    BY <1>16 DEF PowerFails, Mishap, TypeOK, Mishaps
  <2>4. TypeOK'
    BY <1>e, <2>1, <2>2, <2>3 DEF TypeOK
  <2>5. Present'
    BY <2>3 DEF Present, Compressing, Appending, Decompressing, Decoding, AtStart
  <2> QED BY <2>4, <2>5, <1>o
<1>17. CASE ReadHash
  <2>1. /\ pc = "hash" /\ arch \in Seq(Records) /\ Acceptable /\ arch[1] \in Records
        /\ arch[1].kind = "header" /\ arch[1].blocks \in Nat
    <3>1. pc = "hash" /\ arch \in Seq(Records) /\ Acceptable /\ arch # <<>> /\ arch[1].kind = "header"
      BY <1>17 DEF ReadHash, TypeOK, Present, Decompressing, Decoding, Acceptable
    <3>2. 1 \in 1 .. Len(arch)
      BY <3>1, EmptySeq
    <3>3. arch[1] \in Records
      BY <3>1, <3>2, ElementOfSeq
    <3> QED BY <3>1, <3>3 DEF Records
  <2>2. ASSUME HashFound, Len(arch) >= HashPlace PROVE arch[HashPlace].sum \in Seq(Int)
    <3>1. HashPlace \in 1 .. Len(arch) /\ arch[HashPlace].kind = "hash"
      BY <2>1, <2>2, LenProperties DEF HashFound, HashPlace
    <3>2. arch[HashPlace] \in Records
      BY <2>1, <3>1, ElementOfSeq
    <3> QED BY <3>1, <3>2 DEF Records
  <2>3. buffer64' = NoSum \/ buffer64' \in Seq(Int)
    <3>1. \/ Len(arch) >= HashPlace /\ buffer64' = IF HashFound THEN arch[HashPlace].sum ELSE NoSum
          \/ buffer64' = IF arch[1].key = "none" THEN buffer64 ELSE NoSum
      BY <1>17 DEF ReadHash
    <3> QED BY <2>2, <3>1 DEF TypeOK
  <2>4. TypeOK'
    BY <1>17, <2>3 DEF ReadHash, TypeOK
  <2>5. Present'
    BY <1>17 DEF ReadHash, Present, Acceptable, Compressing, Appending, Decompressing, Decoding, AtStart
  <2> QED BY <2>4, <2>5, <1>o
<1>18. CASE UNCHANGED vars
  BY <1>o, <1>18 DEF vars, TypeOK, Present, Compressing, Appending, Decompressing, Decoding, AtStart, Acceptable
<1> QED BY <1>1, <1>2, <1>3, <1>4, <1>5, <1>6, <1>7, <1>8, <1>9, <1>10, <1>11, <1>12, <1>13, <1>14, <1>15, <1>16,
           <1>17, <1>18 DEF Next, Compress, Decompress, Outside, Rest

-----------------------------------------------------------------------------
(* Sizes.                                                                  *)

(* Multiplication is monotonic.                                            *)
LEMMA Multiples ==
  ASSUME NEW a \in Nat, NEW b \in Nat, a <= b, NEW m \in Nat
  PROVE  a * m <= b * m
<1>1. (b - a) * m >= 0
  OBVIOUS
<1> QED BY <1>1

(* What div and mod leave of a number.                                     *)
LEMMA Division ==
  ASSUME NEW l \in Nat, NEW m \in Nat \ {0}
  PROVE  /\ l \div m \in Nat /\ l % m \in 0 .. m - 1
         /\ l = (l \div m) * m + (l % m)
OBVIOUS

(* The file as it was: byte x is the number x.                             *)
LEMMA OriginFacts ==
  ASSUME Origin
  PROVE  /\ original \in Seq(Int) /\ Len(original) \in Lengths /\ Len(original) \in Nat
         /\ \A x \in 1 .. Len(original) : original[x] = x
<1>1. PICK l \in Lengths : original = [x \in 1 .. l |-> x]
  BY DEF Origin
<1>2. l \in Nat
  BY FileAssumption
<1> QED BY <1>1, <1>2

(* The count announced in the header is that of the blocks it takes to     *)
(* hold l bytes.                                                           *)
LEMMA CountFits ==
  ASSUME Fits, NEW l \in Lengths
  PROVE  Count(l) = l \div BlockSize + (IF l % BlockSize # 0 THEN 1 ELSE 0)
<1> DEFINE q == l \div BlockSize
<1>1. l \in Nat /\ BlockSize \in Nat \ {0} /\ CountMod \in Nat \ {0}
  BY FileAssumption
<1>2. q \in Nat
  BY <1>1, Division
<1>3. q + (IF l % BlockSize # 0 THEN 1 ELSE 0) < CountMod
  BY DEF Fits
<1> HIDE DEF q
<1>4. q % CountMod = q
  BY <1>1, <1>2, <1>3
<1>5. CASE l % BlockSize # 0
  <2>1. (q + 1) % CountMod = q + 1
    BY <1>1, <1>2, <1>3, <1>5
  <2> QED BY <1>4, <1>5, <2>1 DEF Count, q
<1>6. CASE l % BlockSize = 0
  BY <1>2, <1>4, <1>6 DEF Count, q
<1> QED BY <1>5, <1>6

(* The blocks cover the file, each as long as the decoder is told.         *)
LEMMA Sizes ==
  ASSUME Fits, Origin
  PROVE  LET l == Len(original) IN
         /\ Count(l) \in Nat /\ (l > 0 => Count(l) > 0)
         /\ Upto(0) = 0 /\ Upto(Count(l)) = l
         /\ \A b \in Nat : Upto(b) \in 0 .. l
         /\ \A b \in 0 .. Count(l) - 1 :
              /\ Upto(b) < l /\ Upto(b + 1) = Min({l, Upto(b) + BlockSize})
              /\ \A k : Upto(b + 1) = Upto(b) + BlockLength(Header(l, k), b)
<1> DEFINE l == Len(original)
           q == l \div BlockSize
           r == l % BlockSize
           c == Count(l)
<1>1. l \in Nat /\ l \in Lengths /\ BlockSize \in Nat \ {0}
  BY OriginFacts, FileAssumption
<1>2. q \in Nat /\ r \in 0 .. BlockSize - 1 /\ l = q * BlockSize + r
  BY <1>1, Division
<1>3. c = q + (IF r # 0 THEN 1 ELSE 0)
  BY <1>1, CountFits
<1>4. \A k : Header(l, k).blocks = c /\ Header(l, k).remainder = r
  BY DEF Header
<1>5. \A b : Upto(b) = Min({b * BlockSize, l})
  BY DEF Upto
<1> HIDE DEF l, q, r, c
<1>6. \A b \in Nat : Upto(b) = IF b * BlockSize <= l THEN b * BlockSize ELSE l
  <2> SUFFICES ASSUME NEW b \in Nat PROVE Upto(b) = IF b * BlockSize <= l THEN b * BlockSize ELSE l
    OBVIOUS
  <2>1. b * BlockSize \in Int /\ l \in Int
    BY <1>1
  <2> QED BY <1>5, <2>1, MinOfTwo
<1>7. c \in Nat /\ (l > 0 => c > 0)
  BY <1>1, <1>2, <1>3
<1>8. Upto(0) = 0
  BY <1>1, <1>6
<1>9. Upto(c) = l
  <2>1. CASE r = 0
    BY <1>1, <1>2, <1>3, <1>6, <2>1
  <2>2. CASE r # 0
    <3>1. c = q + 1 /\ c * BlockSize = q * BlockSize + BlockSize
      BY <1>1, <1>2, <1>3, <2>2
    <3>2. c * BlockSize > l
      BY <1>1, <1>2, <3>1
    <3> QED BY <1>1, <1>6, <1>7, <3>2
  <2> QED BY <2>1, <2>2
<1>10. ASSUME NEW b \in Nat PROVE Upto(b) \in 0 .. l
  <2>1. b * BlockSize \in Nat
    BY <1>1
  <2> QED BY <1>1, <1>6, <2>1
<1>11. ASSUME NEW b \in 0 .. c - 1
       PROVE  /\ Upto(b) < l /\ Upto(b + 1) = Min({l, Upto(b) + BlockSize})
              /\ \A k : Upto(b + 1) = Upto(b) + BlockLength(Header(l, k), b)
  <2> DEFINE at == b * BlockSize
  <2>1. b \in Nat /\ b + 1 \in Nat /\ b <= q
    BY <1>2, <1>3, <1>7
  <2>2. at \in Nat /\ (b + 1) * BlockSize = at + BlockSize
    BY <1>1, <2>1
  <2>3. at <= q * BlockSize
    BY <1>1, <1>2, <2>1, Multiples
  <2>4. b < q => at + BlockSize <= q * BlockSize
    BY <1>1, <1>2, <2>1, <2>2, Multiples
  <2>5. q * BlockSize \in Nat
    BY <1>1, <1>2
  <2>6. b = q => r # 0 /\ b = c - 1
    BY <1>2, <1>3, <1>7, <2>1
  <2>7. b = c - 1 /\ r # 0 => b = q
    BY <1>2, <1>3, <2>1
  <2> HIDE DEF at
  <2>8. at < l
    BY <1>1, <1>2, <2>1, <2>2, <2>3, <2>4, <2>5, <2>6
  <2>9. Upto(b) = at
    BY <1>1, <1>6, <2>1, <2>8 DEF at
  <2>10. Upto(b + 1) = IF at + BlockSize <= l THEN at + BlockSize ELSE l
    BY <1>6, <2>1, <2>2
  <2>11. Upto(b + 1) = Min({l, Upto(b) + BlockSize})
    <3>1. l \in Int /\ at + BlockSize \in Int
      BY <1>1, <2>2
    <3>2. Min({l, at + BlockSize}) = IF l <= at + BlockSize THEN l ELSE at + BlockSize
      BY <3>1, MinOfTwo
    <3> QED BY <2>9, <2>10, <3>1, <3>2
  <2>12. ASSUME NEW k PROVE Upto(b + 1) = Upto(b) + BlockLength(Header(l, k), b)
    <3>1. BlockLength(Header(l, k), b) = IF b = c - 1 /\ r > 0 THEN r ELSE BlockSize
      BY <1>4 DEF BlockLength
    <3>2. CASE b = c - 1 /\ r > 0
      <4>1. b = q
        BY <1>2, <2>7, <3>2
      <4>2. l = at + r /\ r < BlockSize
        BY <1>1, <1>2, <4>1 DEF at
      <4> QED BY <1>1, <1>2, <2>2, <2>9, <2>10, <3>1, <3>2, <4>2
    <3>3. CASE ~(b = c - 1 /\ r > 0)
      <4>1. b < q
        BY <1>2, <2>1, <2>6, <3>3
      <4>2. at + BlockSize <= l
        BY <1>1, <1>2, <2>2, <2>4, <2>5, <4>1
      <4> QED BY <2>9, <2>10, <3>1, <3>3, <4>2
    <3> QED BY <3>2, <3>3
  <2> QED BY <2>8, <2>9, <2>11, <2>12
<1> QED BY <1>7, <1>8, <1>9, <1>10, <1>11 DEF l, c

(* The bytes of a block, and how they come out of a whole archive.         *)
LEMMA Pieces ==
  ASSUME Fits, Origin
  PROVE  LET l == Len(original) IN
         /\ Blocks(0) = <<>> /\ Blocks(Count(l)) = original
         /\ \A b \in 0 .. Count(l) - 1 :
              /\ Piece(b + 1) \in Seq(Int)
              /\ Blocks(b) \o Piece(b + 1) = Blocks(b + 1)
              /\ \A k \in OwnKeys, kk \in Keys : k \in {"none", kk} =>
                   Decoded(Header(l, k), b, Block(Piece(b + 1), k), kk) = Piece(b + 1)
<1> DEFINE l == Len(original)
<1>1. original \in Seq(Int) /\ l \in Nat
  BY OriginFacts
<1>2. /\ Count(l) \in Nat /\ Upto(0) = 0 /\ Upto(Count(l)) = l
      /\ \A b \in Nat : Upto(b) \in 0 .. l
      /\ \A b \in 0 .. Count(l) - 1 :
           /\ Upto(b) < l /\ Upto(b + 1) = Min({l, Upto(b) + BlockSize})
           /\ \A k : Upto(b + 1) = Upto(b) + BlockLength(Header(l, k), b)
  BY Sizes
<1>3. Blocks(0) = <<>> /\ Blocks(Count(l)) = original
  BY <1>1, <1>2, SubSeqEmpty, SubSeqFull DEF Blocks
<1>4. ASSUME NEW b \in 0 .. Count(l) - 1
      PROVE  /\ Piece(b + 1) \in Seq(Int)
             /\ Blocks(b) \o Piece(b + 1) = Blocks(b + 1)
             /\ \A k \in OwnKeys, kk \in Keys : k \in {"none", kk} =>
                  Decoded(Header(l, k), b, Block(Piece(b + 1), k), kk) = Piece(b + 1)
  <2> DEFINE from == Upto(b)
             to == Upto(b + 1)
  <2>1. b \in Nat /\ b + 1 \in Nat /\ (b + 1) - 1 = b
    BY <1>2
  <2>2. from \in 0 .. l /\ to \in 0 .. l
    BY <1>2, <2>1
  <2>3. \A k : to = from + BlockLength(Header(l, k), b) /\ BlockLength(Header(l, k), b) \in Nat
    <3>1. l % BlockSize \in Nat /\ BlockSize \in Nat
      BY <1>1, FileAssumption
    <3>2. \A k : BlockLength(Header(l, k), b) \in Nat
      BY <3>1 DEF BlockLength, Header
    <3> QED BY <1>2, <3>2
  <2>4. Piece(b + 1) = SubSeq(original, from + 1, to)
    BY <2>1 DEF Piece
  <2> HIDE DEF from, to
  <2>5. from <= to
    <3>1. PICK n \in Nat : to = from + n
      BY <2>3
    <3> QED BY <2>2, <3>1
  <2>6. Piece(b + 1) \in Seq(Int) /\ Len(Piece(b + 1)) = to - from
    <3>1. from + 1 \in Int /\ to \in Int /\ \A x \in from + 1 .. to : x \in 1 .. l
      BY <1>1, <2>2
    <3>2. \A x \in from + 1 .. to : original[x] \in Int
      BY <1>1, <3>1, ElementOfSeq
    <3>3. /\ SubSeq(original, from + 1, to) \in Seq(Int)
          /\ Len(SubSeq(original, from + 1, to)) = IF from + 1 <= to THEN to - (from + 1) + 1 ELSE 0
      BY <3>1, <3>2, SubSeqProperties
    <3>4. Len(SubSeq(original, from + 1, to)) = to - from
      BY <1>1, <2>2, <2>5, <3>3
    <3> QED BY <2>4, <3>3, <3>4
  <2>7. Blocks(b) \o Piece(b + 1) = Blocks(b + 1)
    <3>1. 1 \in 1 .. l + 1 /\ from \in 1 - 1 .. l /\ to \in from .. l
      BY <1>1, <2>2, <2>5
    <3>2. SubSeq(original, 1, from) \o SubSeq(original, from + 1, to) = SubSeq(original, 1, to)
      BY <1>1, <3>1, ConcatAdjacentSubSeq
    <3> QED BY <2>4, <3>2 DEF Blocks, from, to
  <2>8. ASSUME NEW k \in OwnKeys, NEW kk \in Keys, k \in {"none", kk}
        PROVE  Decoded(Header(l, k), b, Block(Piece(b + 1), k), kk) = Piece(b + 1)
    <3>1. Len(Piece(b + 1)) = BlockLength(Header(l, k), b)
      <4>1. PICK n \in Nat : BlockLength(Header(l, k), b) = n
        BY <2>3
      <4>2. to = from + n
        BY <2>3, <4>1
      <4> QED BY <2>2, <2>6, <4>1, <4>2
    <3>2. /\ Block(Piece(b + 1), k).kind = "block" /\ Block(Piece(b + 1), k).key = k
          /\ Block(Piece(b + 1), k).data = Piece(b + 1) /\ Header(l, k).sound
      BY DEF Block, Header
    <3> QED BY <2>8, <3>1, <3>2 DEF Decoded, Decodes
  <2> QED BY <2>6, <2>7, <2>8
<1> QED BY <1>3, <1>4 DEF l

-----------------------------------------------------------------------------
(* What remains of an archive that was being written.                      *)

(* s has only elements of t, and begins with the same one.                 *)
Drawn(s, t) == /\ \A k \in 1 .. Len(s) : \E j \in 1 .. Len(t) : s[k] = t[j]
               /\ s # <<>> => t # <<>> /\ s[1] = t[1]

(* A part of t, from its start, is drawn from t.                           *)
LEMMA DrawnPrefix ==
  ASSUME NEW S, NEW t \in Seq(S), NEW m \in 0 .. Len(t)
  PROVE  Drawn(SubSeq(t, 1, m), t)
<1> DEFINE s == SubSeq(t, 1, m)
<1>1. Len(t) \in Nat /\ m \in Int /\ \A x \in 1 .. m : t[x] \in S
  BY ElementOfSeq, LenProperties
<1>2. s \in Seq(S) /\ Len(s) = m /\ \A x \in 1 .. m : s[x] = t[x]
  <2>1. /\ s \in Seq(S) /\ Len(s) = IF 1 <= m THEN m - 1 + 1 ELSE 0
        /\ \A x \in 1 .. m - 1 + 1 : s[x] = t[1 + x - 1]
    BY <1>1, SubSeqProperties
  <2> QED BY <1>1, <2>1
<1> HIDE DEF s
<1>3. s # <<>> => m >= 1
  BY <1>1, <1>2, EmptySeq
<1>4. s # <<>> => t # <<>>
  BY <1>1, <1>3, EmptySeq
<1>5. \A x \in 1 .. m : x \in 1 .. Len(t)
  BY <1>1
<1> QED BY <1>1, <1>2, <1>3, <1>4, <1>5 DEF Drawn, s

(* A failed write, that leaves m elements of the buffer in the file: the   *)
(* file alone, and with a buffer that is still to be written.              *)
LEMMA DrawnFailed ==
  ASSUME NEW S, NEW old \in Seq(S), NEW buf \in Seq(S), NEW m \in 0 .. Len(buf)
  PROVE  LET new == old \o Start(buf, m) IN
         Drawn(new, old \o buf) /\ Drawn(new \o buf, old \o buf)
<1> DEFINE s == SubSeq(buf, 1, m)
           new == old \o s
           t == old \o buf
           u == new \o buf
<1>1. /\ Len(old) \in Nat /\ Len(buf) \in Nat /\ m \in Int
      /\ \A x \in 1 .. m : buf[x] \in S
  BY ElementOfSeq, LenProperties
<1>2. s \in Seq(S) /\ Len(s) = m /\ \A x \in 1 .. m : s[x] = buf[x]
  <2>1. /\ s \in Seq(S) /\ Len(s) = IF 1 <= m THEN m - 1 + 1 ELSE 0
        /\ \A x \in 1 .. m - 1 + 1 : s[x] = buf[1 + x - 1]
    BY <1>1, SubSeqProperties
  <2> QED BY <1>1, <2>1
<1> HIDE DEF s
<1>3. /\ t \in Seq(S) /\ Len(t) = Len(old) + Len(buf)
      /\ \A x \in 1 .. Len(old) + Len(buf) : t[x] = IF x <= Len(old) THEN old[x] ELSE buf[x - Len(old)]
  BY ConcatProperties
<1>4. /\ new \in Seq(S) /\ Len(new) = Len(old) + m
      /\ \A x \in 1 .. Len(old) + m : new[x] = IF x <= Len(old) THEN old[x] ELSE s[x - Len(old)]
  BY <1>2, ConcatProperties
<1> HIDE DEF t, new
<1>5. /\ u \in Seq(S) /\ Len(u) = Len(old) + m + Len(buf)
      /\ \A x \in 1 .. Len(old) + m + Len(buf) :
           u[x] = IF x <= Len(old) + m THEN new[x] ELSE buf[x - (Len(old) + m)]
  BY <1>4, ConcatProperties
<1> HIDE DEF u
<1>m. m \in Nat /\ m <= Len(buf)
  BY <1>1
<1>6. ASSUME NEW x \in 1 .. Len(old) + m PROVE x \in 1 .. Len(t) /\ new[x] = t[x]
  <2>1. x \in 1 .. Len(old) + Len(buf) /\ x \in 1 .. Len(t)
    BY <1>1, <1>m, <1>3
  <2>2. CASE x <= Len(old)
    BY <1>3, <1>4, <2>1, <2>2
  <2>3. CASE ~(x <= Len(old))
    <3>1. x - Len(old) \in 1 .. m
      BY <1>1, <1>m, <2>3
    <3>2. new[x] = s[x - Len(old)] /\ t[x] = buf[x - Len(old)]
      BY <1>3, <1>4, <2>1, <2>3
    <3> QED BY <1>2, <2>1, <3>1, <3>2
  <2> QED BY <2>2, <2>3
<1>7. ASSUME NEW x \in Len(old) + m + 1 .. Len(u) PROVE x - m \in 1 .. Len(t) /\ u[x] = t[x - m]
  <2>1. /\ x \in 1 .. Len(old) + m + Len(buf) /\ ~(x <= Len(old) + m)
        /\ x - m \in 1 .. Len(old) + Len(buf) /\ ~(x - m <= Len(old))
        /\ x - (Len(old) + m) = (x - m) - Len(old)
    BY <1>1, <1>m, <1>5
  <2>2. u[x] = buf[x - (Len(old) + m)]
    BY <1>5, <2>1
  <2>3. t[x - m] = buf[(x - m) - Len(old)]
    BY <1>3, <2>1
  <2> QED BY <1>3, <2>1, <2>2, <2>3
<1>8. ASSUME NEW x \in 1 .. Len(old) + m PROVE x \in 1 .. Len(t) /\ u[x] = t[x]
  <2>1. x \in 1 .. Len(old) + m + Len(buf) /\ x <= Len(old) + m
    BY <1>1, <1>m
  <2>2. u[x] = new[x]
    BY <1>5, <2>1
  <2> QED BY <1>6, <2>2
<1>9. Drawn(new, t)
  <2>1. new # <<>> => Len(old) + m >= 1
    BY <1>1, <1>4, EmptySeq
  <2>2. new # <<>> => t # <<>> /\ new[1] = t[1]
    BY <1>1, <1>3, <1>6, <2>1, EmptySeq
  <2> QED BY <1>4, <1>6, <2>2 DEF Drawn
<1>10. Drawn(u, t)
  <2>1. \A x \in 1 .. Len(u) : \E j \in 1 .. Len(t) : u[x] = t[j]
    <3> SUFFICES ASSUME NEW x \in 1 .. Len(u) PROVE \E j \in 1 .. Len(t) : u[x] = t[j]
      OBVIOUS
    <3>1. CASE x <= Len(old) + m
      BY <1>1, <1>8, <3>1
    <3>2. CASE x > Len(old) + m
      <4>1. x \in Len(old) + m + 1 .. Len(u)
        BY <1>1, <1>m, <1>5, <3>2
      <4> QED BY <1>7, <4>1
    <3> QED BY <1>1, <1>5, <3>1, <3>2
  <2>2. u # <<>> => t # <<>> /\ u[1] = t[1]
    <3>1. CASE Len(old) + m >= 1
      BY <1>1, <1>3, <1>8, <3>1, EmptySeq
    <3>2. CASE Len(old) + m = 0
      <4>1. u # <<>> => Len(buf) >= 1
        BY <1>1, <1>5, <3>2, EmptySeq
      <4>2. u # <<>> => u[1] = t[1] /\ Len(t) >= 1
        BY <1>1, <1>3, <1>5, <3>2, <4>1
      <4> QED BY <1>3, <4>2, EmptySeq
    <3> QED BY <1>1, <3>1, <3>2
  <2> QED BY <2>1, <2>2 DEF Drawn
<1> QED BY <1>9, <1>10 DEF new, t, u, s, Start

(* So is what is in the file, from that with what is buffered.             *)
LEMMA DrawnStart ==
  ASSUME NEW S, NEW old \in Seq(S), NEW buf \in Seq(S)
  PROVE  Drawn(old, old \o buf)
<1>1. 0 \in 0 .. Len(buf) /\ SubSeq(buf, 1, 0) = <<>>
  BY LenProperties, SubSeqEmpty
<1>2. old \o Start(buf, 0) = old
  BY <1>1, ConcatEmptySeq DEF Start
<1> QED BY <1>1, <1>2, DrawnFailed

(* What is drawn from an archive as it was written is one, too.            *)
LEMMA FreshDrawn ==
  ASSUME NEW s, NEW t, Fresh(t), Drawn(s, t)
  PROVE  Fresh(s)
BY DEF Fresh, Drawn

(* It stays one, since original does not change.                           *)
LEMMA FreshLater ==
  ASSUME UNCHANGED original, Clean' => Clean
  PROVE  /\ Fresh(arch') => Fresh(arch)'
         /\ Fresh(arch' \o wbuf') => Fresh(arch \o wbuf)'
BY DEF Fresh, Genuine, OwnHeader, Like, Unmarked, Header, Count

-----------------------------------------------------------------------------
(* The contents of the files, step by step.                                *)

(* Mishaps are never forgotten, and original is what it was.               *)
LEMMA Monotone ==
  ASSUME [Next]_vars
  PROVE  /\ UNCHANGED original /\ mishaps \subseteq mishaps'
         /\ Clean' => Clean
         /\ Single' => Single
         /\ mishaps' = {} => mishaps = {}
<1> USE DEF files, run, world
<1>1. UNCHANGED original /\ mishaps \subseteq mishaps'
  BY DEF Next, vars, RunCompress, RunDecompress, Compress, Decompress, Outside, Rest, CreateArchive,
         WriteHeader, CompressBlock, CompressReadFails, WriteHash, FlushArchive, RemoveInput, RefuseArchive,
         CreateOutput, DecompressBlock, DecompressReadFails, DecompressPanics, FlushOutput, ReadHash, CheckHash, Kill,
         Grow, Shrink, Damage, PowerFails, Mishap
<1> QED BY <1>1 DEF Clean, Single

(* If it is the only one, a mishap that was not there before is the first. *)
LEMMA FirstMishap ==
  ASSUME NEW kind, kind \notin mishaps, mishaps' = mishaps \cup {kind}, Single'
  PROVE  mishaps = {}
BY DEF Single

(* A run that ends with both files as they are leaves them in order.       *)
LEMMA EndStep ==
  ASSUME Types, Archive, Reading, Writing, Kept, Single',
         pc # "idle", pc' = "idle", UNCHANGED <<original, f, arch, archived, mishaps>>
  PROVE  Archive' /\ Reading' /\ Writing' /\ Kept'
<1>1. Archive'
  BY FreshLater DEF Archive, Clean, Struck, UnmarkedBlocks, Unmarked
<1>2. Reading' /\ Writing'
  BY DEF Reading, Writing, Compressing, Appending, Decompressing, Decoding
<1>3. mishaps = {} => f = original \/ (archived /\ arch # Absent)
  BY DEF Types, TypeOK, Present, Steps, Reading, Writing, Compressing, Decompressing, Clean
<1>4. Kept'
  BY <1>3 DEF Kept, Whole, Header, Block, Piece, Upto, Count, Hash
<1> QED BY <1>1, <1>2, <1>4

(* Each step keeps what the invariant says; first those of a compression.  *)
LEMMA RunCompressStep ==
  ASSUME Types, Archive, Reading, Writing, Kept, Single', RunCompress
  PROVE  Archive' /\ Reading' /\ Writing' /\ Kept'
<1> USE DEF RunCompress, files, world
<1>1. Archive'
  BY FreshLater DEF Archive, Clean, Struck, UnmarkedBlocks, Unmarked
<1>2. Reading'
  BY DEF Reading, Compressing, Appending, Like
<1>3. Writing'
  BY DEF Writing, Decompressing, Decoding
<1>4. Kept'
  BY DEF Kept, Whole, Header, Block, Piece, Upto, Count, Hash
<1> QED BY <1>1, <1>2, <1>3, <1>4

(* The new archive is empty.                                               *)
LEMMA CreateArchiveStep ==
  ASSUME Types, Archive, Reading, Writing, Kept, Single', CreateArchive
  PROVE  Archive' /\ Reading' /\ Writing' /\ Kept'
<1>1. CASE pc' = "idle" /\ UNCHANGED <<arch, archived>>
  BY <1>1, EndStep DEF CreateArchive
<1>2. CASE arch' = <<>> /\ archived' = FALSE /\ pc' = "header"
  <2>1. /\ pc = "create" /\ UNCHANGED <<original, f, mishaps, size, i, hashed, wbuf, werr>>
    BY DEF CreateArchive
  <2>2. Len(arch') = 0
    BY <1>2
  <2>3. Archive'
    BY <1>2, <2>2 DEF Archive, Fresh
  <2>4. Reading'
    BY <1>2, <2>1 DEF Reading, Compressing, Appending, Like, Clean
  <2>5. Writing' /\ Kept'
    BY <1>2 DEF Writing, Decompressing, Decoding, Kept
  <2> QED BY <2>3, <2>4, <2>5
<1> QED BY <1>1, <1>2 DEF CreateArchive

(* With the header, it is an archive of no block.                          *)
LEMMA WriteHeaderStep ==
  ASSUME Fits, Types, Archive, Reading, Writing, Kept, Single', WriteHeader
  PROVE  Archive' /\ Reading' /\ Writing' /\ Kept'
<1> USE DEF files, run, world
<1>1. CASE key = "missing"
  BY <1>1, EndStep DEF WriteHeader, Exit
<1>2. CASE key # "missing"
  <2>1. /\ pc = "header" /\ pc' = "block" /\ wbuf' = <<Header(size, key)>> /\ werr' = werr
        /\ UNCHANGED <<original, f, arch, archived, key, mishaps, size, i, hashed>>
    BY <1>2 DEF WriteHeader
  <2>2. /\ arch = <<>> /\ i = 0 /\ hashed = <<>> /\ size = Len(original) /\ Like(f) /\ ~archived
        /\ Clean => f = original
        /\ key \in OwnKeys /\ size \in Nat
    BY <1>2, <2>1 DEF Types, TypeOK, Present, Reading, AtStart, Compressing, Keys, OwnKeys
  <2>3. arch' \o wbuf' = <<Header(size, key)>>
    <3>1. <<Header(size, key)>> \in Seq(Records)
      BY <2>2, RecordTypes
    <3> QED BY <2>1, <2>2, <3>1, ConcatEmptySeq
  <2>4. Fresh(arch' \o wbuf') /\ arch' \o wbuf' # <<>>
    <3>1. Genuine(Header(size, key)) /\ OwnHeader(Header(size, key))
      BY <2>2 DEF Genuine, OwnHeader, Header
    <3> QED BY <2>3, <3>1 DEF Fresh
  <2>5. Fresh(arch \o wbuf)' /\ Archive'
    BY <2>1, <2>4, FreshLater DEF Archive, Clean, Struck, UnmarkedBlocks, Unmarked
  <2>6. hashed' = Blocks(i)'
    BY <2>1, <2>2, OriginFacts, Pieces DEF Types, Blocks, Upto
  <2>7. Begun(arch \o wbuf, key, i)'
    BY <2>1, <2>2, <2>3 DEF Begun, Header, Count
  <2>8. Like(f)' /\ Like(hashed)'
    BY <2>1, <2>2 DEF Like
  <2>9. Reading'
    BY <2>1, <2>2, <2>4, <2>5, <2>6, <2>7, <2>8 DEF Reading, Compressing, Appending, Clean
  <2>10. Writing' /\ Kept'
    BY <2>1, <2>2 DEF Writing, Decompressing, Decoding, Kept
  <2> QED BY <2>5, <2>9, <2>10
<1> QED BY <1>1, <1>2

(* What a read returns goes on where the last one ended; if f is still the *)
(* original, and all that is available is returned, it is the next block.  *)
LEMMA ReadStep ==
  ASSUME Fits, Types, Reading, pc = "block", i < Count(size), NEW data \in Reads
  PROVE  /\ data \in Seq(Int) /\ Like(hashed \o data) /\ (Clean => Unmarked(data))
         /\ Clean /\ data = Available => data = Piece(i + 1) /\ hashed \o data = Blocks(i + 1)
<1> DEFINE h == Len(hashed)
           l == Len(original)
           to == Min({Len(f), h + BlockSize})
<1>1. /\ f \in Seq(Int) /\ hashed \in Seq(Int) /\ Like(f) /\ Like(hashed) /\ size = l
      /\ Clean => f = original /\ hashed = Blocks(i)
  BY DEF Types, TypeOK, Present, Reading, Compressing
<1>2. h \in Nat /\ Len(f) \in Nat /\ BlockSize \in Nat \ {0} /\ original \in Seq(Int) /\ l \in Nat
      /\ \A x \in 1 .. l : original[x] = x
  BY <1>1, FileAssumption, LenProperties, OriginFacts DEF Types
<1>3. to \in Nat /\ to <= Len(f)
  <2>1. Len(f) \in Int /\ h + BlockSize \in Int
    BY <1>2
  <2> HIDE DEF h
  <2>2. to = IF Len(f) <= h + BlockSize THEN Len(f) ELSE h + BlockSize
    BY <2>1, MinOfTwo
  <2> QED BY <1>2, <2>2
<1>4. data \in Seq(Int) /\ Available \in Seq(Int)
  BY <1>1, ReadTypes
<1> HIDE DEF h, l, to
<1>5. Available = SubSeq(f, h + 1, to)
  BY DEF Available, h, to
<1>6. \A x \in 1 .. Len(Available) : h + x \in 1 .. Len(f) /\ Available[x] = f[h + x]
  <2>1. h + 1 \in Int /\ to \in Int /\ \A x \in h + 1 .. to : x \in 1 .. Len(f)
    BY <1>2, <1>3
  <2>2. \A x \in h + 1 .. to : f[x] \in Int
    BY <1>1, <2>1, ElementOfSeq
  <2>3. /\ Len(Available) = IF h + 1 <= to THEN to - (h + 1) + 1 ELSE 0
        /\ \A x \in 1 .. to - (h + 1) + 1 : Available[x] = f[h + 1 + x - 1]
    BY <1>5, <2>1, <2>2, SubSeqProperties
  <2> SUFFICES ASSUME NEW x \in 1 .. Len(Available)
               PROVE  h + x \in 1 .. Len(f) /\ Available[x] = f[h + x]
    OBVIOUS
  <2>4. x \in 1 .. to - (h + 1) + 1 /\ h + 1 + x - 1 = h + x /\ h + x \in h + 1 .. to
    BY <1>2, <1>3, <2>3
  <2> QED BY <2>1, <2>3, <2>4
<1>7. Len(data) \in Nat /\ \A x \in 1 .. Len(data) : x \in 1 .. Len(Available) /\ data[x] = Available[x]
  <2>1. PICK m \in 1 .. Len(Available) : data = SubSeq(Available, 1, m)
    BY DEF Reads
  <2>2. Len(Available) \in Nat /\ m \in Int /\ \A x \in 1 .. m : x \in 1 .. Len(Available)
    BY <1>4, <2>1, LenProperties
  <2>3. \A x \in 1 .. m : Available[x] \in Int
    BY <1>4, <2>2, ElementOfSeq
  <2>4. /\ Len(data) = IF 1 <= m THEN m - 1 + 1 ELSE 0
        /\ \A x \in 1 .. m - 1 + 1 : data[x] = Available[1 + x - 1]
    BY <2>1, <2>2, <2>3, SubSeqProperties
  <2> QED BY <2>1, <2>2, <2>4
<1>8. Like(hashed \o data)
  <2>1. /\ Len(hashed \o data) = h + Len(data)
        /\ \A x \in 1 .. h + Len(data) :
             (hashed \o data)[x] = IF x <= h THEN hashed[x] ELSE data[x - h]
    BY <1>1, <1>4, ConcatProperties DEF h
  <2> SUFFICES ASSUME NEW x \in 1 .. Len(hashed \o data), x <= Len(original)
               PROVE  (hashed \o data)[x] = original[x]
    BY DEF Like
  <2>2. x \in 1 .. h + Len(data)
    BY <2>1
  <2>3. CASE x <= h
    <3>1. x \in 1 .. Len(hashed)
      BY <1>2, <1>7, <2>2, <2>3 DEF h
    <3> QED BY <1>1, <2>1, <2>2, <2>3, <3>1 DEF Like
  <2>4. CASE ~(x <= h)
    <3>1. x - h \in 1 .. Len(data) /\ h + (x - h) = x
      BY <1>2, <1>7, <2>2, <2>4
    <3>2. data[x - h] = f[x] /\ x \in 1 .. Len(f)
      BY <1>6, <1>7, <3>1
    <3> QED BY <1>1, <2>1, <2>2, <2>4, <3>2 DEF Like
  <2> QED BY <2>3, <2>4
<1>9. ASSUME Clean, data = Available
      PROVE  data = Piece(i + 1) /\ hashed \o data = Blocks(i + 1)
  <2>1. i \in 0 .. Count(l) - 1 /\ i \in Nat /\ (i + 1) - 1 = i
    BY <1>1, Sizes DEF Types, TypeOK, l
  <2>2. /\ Upto(i) \in 0 .. l /\ Upto(i + 1) = Min({l, Upto(i) + BlockSize})
        /\ Blocks(i) \o Piece(i + 1) = Blocks(i + 1)
    BY <2>1, Sizes, Pieces DEF Types, l
  <2>3. h = Upto(i)
    <3>1. Upto(i) \in Int /\ \A x \in 1 .. Upto(i) : x \in 1 .. l
      BY <1>2, <2>2
    <3>2. \A x \in 1 .. Upto(i) : original[x] \in Int
      BY <1>2, <3>1
    <3>3. Len(SubSeq(original, 1, Upto(i))) = IF 1 <= Upto(i) THEN Upto(i) - 1 + 1 ELSE 0
      BY <3>1, <3>2, SubSeqProperties
    <3>4. h = Len(SubSeq(original, 1, Upto(i)))
      BY <1>1, <1>9 DEF Blocks, h
    <3> QED BY <2>2, <3>3, <3>4
  <2>4. to = Upto(i + 1)
    BY <1>1, <1>9, <2>2, <2>3 DEF to, l
  <2>5. data = Piece(i + 1)
    BY <1>1, <1>5, <1>9, <2>1, <2>3, <2>4 DEF Piece
  <2> QED BY <1>1, <1>9, <2>2, <2>5
<1>10. ASSUME Clean PROVE Unmarked(data)
  <2>1. \A x \in 1 .. Len(data) : h + x \in 1 .. l /\ data[x] = h + x
    BY <1>1, <1>2, <1>6, <1>7, <1>10 DEF l
  <2> QED BY <2>1 DEF Unmarked, Damaged
<1> QED BY <1>4, <1>8, <1>9, <1>10

(* One more record at the end of an archive.                               *)
LEMMA FreshAppend ==
  ASSUME NEW t \in Seq(Records), t # <<>>, Fresh(t), NEW rec \in Records, Genuine(rec)
  PROVE  /\ Fresh(t \o <<rec>>) /\ t \o <<rec>> # <<>>
         /\ Len(t \o <<rec>>) = Len(t) + 1 /\ (t \o <<rec>>)[Len(t) + 1] = rec
         /\ \A x \in 1 .. Len(t) : (t \o <<rec>>)[x] = t[x]
<1> DEFINE u == t \o <<rec>>
<1>1. u = Append(t, rec)
  BY AppendIsConcat
<1>2. /\ u # <<>> /\ Len(u) = Len(t) + 1 /\ u[Len(t) + 1] = rec
      /\ \A x \in 1 .. Len(t) : u[x] = t[x]
  BY <1>1, AppendProperties
<1>3. Len(t) \in Nat \ {0}
  BY EmptySeq
<1> HIDE DEF u
<1>4. \A x \in 1 .. Len(u) : x = Len(t) + 1 \/ x \in 1 .. Len(t)
  BY <1>2, <1>3
<1>5. \A x \in 1 .. Len(u) : Genuine(u[x])
  BY <1>2, <1>4 DEF Fresh
<1>6. u[1] = t[1]
  BY <1>2, <1>3
<1>7. Fresh(u)
  BY <1>5, <1>6 DEF Fresh
<1> QED BY <1>2, <1>7 DEF u

(* After a write that failed, the archive and what is still buffered are   *)
(* no longer all of it, but as it was written.                             *)
LEMMA FailedStep ==
  ASSUME NEW fault, arch \in Seq(Records), wbuf \in Seq(Records), Fresh(arch \o wbuf),
         WriteFailed(fault, arch, arch', TRUE)
  PROVE  /\ Fresh(arch') /\ Fresh(arch' \o wbuf)
         /\ arch' \in Seq(Records)
         /\ arch \o wbuf # <<>> => arch' \o wbuf # <<>>
<1>1. arch' \in Seq(Records) /\ Spilled(arch, arch')
  <2>1. PICK open \in BOOLEAN : open /\ WriteFailed(fault, arch, arch', open)
    OBVIOUS
  <2> QED BY <2>1, FailedLaw
<1>2. PICK m \in 0 .. Len(wbuf) : arch' = arch \o Start(wbuf, m)
  BY <1>1 DEF Spilled
<1> DEFINE a == arch \o Start(wbuf, m)
<1>3. Drawn(a, arch \o wbuf) /\ Drawn(a \o wbuf, arch \o wbuf)
  BY <1>2, DrawnFailed
<1>4. Fresh(a) /\ Fresh(a \o wbuf)
  BY <1>3, FreshDrawn
<1>5. arch \o wbuf # <<>> => a \o wbuf # <<>>
  <2>1. a \in Seq(Records)
    BY <1>1, <1>2
  <2> HIDE DEF a
  <2>2. ASSUME a \o wbuf = <<>> PROVE arch \o wbuf = <<>>
    <3>1. a = <<>> /\ wbuf = <<>>
      BY <2>1, <2>2, ConcatEqualIffEmpty
    <3>2. Start(wbuf, m) = <<>>
      <4>1. m = 0
        BY <1>2, <3>1
      <4> QED BY <4>1, SubSeqEmpty DEF Start
    <3>3. arch = <<>>
      BY <3>1, <3>2, ConcatEmptySeq DEF a
    <3> QED BY <3>1, <3>3, ConcatEmptySeq
  <2> QED BY <2>2
<1> QED BY <1>1, <1>2, <1>4, <1>5

(* What is said about original is said of the same bytes after a step.     *)
LEMMA SameOriginal ==
  ASSUME UNCHANGED original
  PROVE  /\ Like(f') => Like(f)'
         /\ Like(hashed') => Like(hashed)'
         /\ hashed' = Blocks(i') => (hashed = Blocks(i))'
         /\ Begun(arch' \o wbuf', key', i') => Begun(arch \o wbuf, key, i)'
         /\ Whole(arch' \o wbuf', key') => Whole(arch \o wbuf, key)'
         /\ Whole(arch', key') => Whole(arch, key)'
<1> USE DEF Header, Block, Hash, Piece, Upto, Count
<1>1. (Like(f') => Like(f)') /\ (Like(hashed') => Like(hashed)')
  BY DEF Like
<1>2. hashed' = Blocks(i') => (hashed = Blocks(i))'
  BY DEF Blocks
<1>3. Begun(arch' \o wbuf', key', i') => Begun(arch \o wbuf, key, i)'
  BY DEF Begun
<1>4. Whole(arch' \o wbuf', key') => Whole(arch \o wbuf, key)'
  BY DEF Whole
<1>5. Whole(arch', key') => Whole(arch, key)'
  BY DEF Whole
<1> QED BY <1>1, <1>2, <1>3, <1>4, <1>5

(* One more record is written, or that fails.                              *)
LEMMA RecordWritten ==
  ASSUME arch \in Seq(Records), wbuf \in Seq(Records), arch \o wbuf # <<>>, Fresh(arch \o wbuf),
         NEW rec \in Records, Genuine(rec), Written(<<rec>>, arch, arch', TRUE)
  PROVE  /\ ~werr /\ werr' = werr /\ Fresh(arch') /\ Fresh(arch' \o wbuf') /\ arch' \o wbuf' # <<>>
         /\ Len(arch' \o wbuf') = Len(arch \o wbuf) + 1
         /\ (arch' \o wbuf')[Len(arch \o wbuf) + 1] = rec
         /\ \A x \in 1 .. Len(arch \o wbuf) : (arch' \o wbuf')[x] = (arch \o wbuf)[x]
<1> DEFINE stream == arch \o wbuf
<1>1. stream \in Seq(Records) /\ <<rec>> \in Seq(Records)
  BY ConcatProperties
<1>2. /\ ~werr /\ werr' = werr /\ arch' \o wbuf' = stream \o <<rec>>
      /\ arch' \in Seq(Records) /\ wbuf' \in Seq(Records)
  <2>1. PICK open \in BOOLEAN : open /\ Written(<<rec>>, arch, arch', open)
    OBVIOUS
  <2>2. /\ ~werr /\ werr' = werr /\ Continued(arch, <<rec>>, arch')
        /\ arch' \in Seq(Records) /\ wbuf' \in Seq(Records)
    BY <1>1, <2>1, WrittenLaw
  <2> QED BY <2>2 DEF Continued
<1>3. /\ Fresh(stream \o <<rec>>) /\ stream \o <<rec>> # <<>>
      /\ Len(stream \o <<rec>>) = Len(stream) + 1 /\ (stream \o <<rec>>)[Len(stream) + 1] = rec
      /\ \A x \in 1 .. Len(stream) : (stream \o <<rec>>)[x] = stream[x]
  BY <1>1, FreshAppend
<1>4. Fresh(arch')
  <2>1. Drawn(arch', arch' \o wbuf')
    BY <1>2, DrawnStart
  <2> QED BY <1>2, <1>3, <2>1, FreshDrawn
<1> QED BY <1>2, <1>3, <1>4

(* With one block more, it is an archive of one block more.                *)
LEMMA CompressBlockStep ==
  ASSUME Fits, Types, Archive, Reading, Writing, Kept, Single', Clean' => Clean, CompressBlock
  PROVE  Archive' /\ Reading' /\ Writing' /\ Kept'
<1>1. PICK data \in Reads :
        /\ hashed' = hashed \o data
        /\ mishaps' = mishaps \cup (IF data = Available THEN {} ELSE {"short"})
        /\ \/ Written(<<Block(data, key)>>, arch, arch', TRUE)
           \/ WriteFailed("spill", arch, arch', TRUE) /\ Ignore
  BY DEF CompressBlock
<1>2. /\ pc = "block" /\ pc' = "block" /\ i < Count(size) /\ i' = i + 1 /\ i \in Nat
      /\ UNCHANGED <<original, f, archived, key, size>>
  BY DEF CompressBlock, run, Types, TypeOK
<1>3. /\ size = Len(original) /\ Like(f) /\ ~archived /\ Fresh(arch \o wbuf) /\ arch \o wbuf # <<>>
      /\ Clean => f = original
      /\ mishaps = {} /\ ~werr => Begun(arch \o wbuf, key, i)
      /\ arch \in Seq(Records) /\ wbuf \in Seq(Records) /\ key \in OwnKeys
  BY <1>2 DEF Types, TypeOK, Present, Reading, Compressing, Appending
<1>4. /\ data \in Seq(Int) /\ Like(hashed') /\ (Clean => Unmarked(data))
      /\ Clean /\ data = Available => data = Piece(i + 1) /\ hashed' = Blocks(i')
  BY <1>1, <1>2, ReadStep
<1>5. Clean' => data = Available
  BY <1>1 DEF Clean
<1> DEFINE rec == Block(data, key)
<1>6. rec \in Records /\ Genuine(rec)
  <2>1. rec \in Records /\ rec.kind = "block" /\ rec.data = data
    BY <1>3, <1>4, RecordTypes DEF Block
  <2> QED BY <1>4, <2>1 DEF Genuine
<1>7. /\ Fresh(arch') /\ Fresh(arch' \o wbuf') /\ arch' \o wbuf' # <<>>
      /\ mishaps' = {} /\ ~werr' => Begun(arch' \o wbuf', key', i')
  <2>1. CASE Written(<<rec>>, arch, arch', TRUE)
    <3>1. /\ ~werr /\ Fresh(arch') /\ Fresh(arch' \o wbuf') /\ arch' \o wbuf' # <<>>
          /\ Len(arch' \o wbuf') = Len(arch \o wbuf) + 1
          /\ (arch' \o wbuf')[Len(arch \o wbuf) + 1] = rec
          /\ \A x \in 1 .. Len(arch \o wbuf) : (arch' \o wbuf')[x] = (arch \o wbuf)[x]
      BY <1>3, <1>6, <2>1, RecordWritten
    <3>2. ASSUME mishaps' = {} PROVE Begun(arch' \o wbuf', key', i')
      <4>1. /\ Len(arch \o wbuf) = i + 1 /\ (arch \o wbuf)[1] = Header(Len(original), key)
            /\ \A b \in 1 .. i : (arch \o wbuf)[b + 1] = Block(Piece(b), key)
        BY <1>1, <1>3, <3>1, <3>2 DEF Begun
      <4>2. rec = Block(Piece(i + 1), key)
        BY <1>1, <1>4, <3>2 DEF Clean
      <4> HIDE DEF rec
      <4>3. Len(arch' \o wbuf') = i' + 1 /\ (arch' \o wbuf')[1] = Header(Len(original), key)
        BY <1>2, <3>1, <4>1
      <4>4. ASSUME NEW b \in 1 .. i' PROVE (arch' \o wbuf')[b + 1] = Block(Piece(b), key)
        <5>1. CASE b \in 1 .. i
          <6>1. b + 1 \in 1 .. Len(arch \o wbuf)
            BY <1>2, <4>1, <5>1
          <6> QED BY <3>1, <4>1, <5>1, <6>1
        <5>2. CASE b = i + 1
          BY <1>2, <3>1, <4>1, <4>2, <5>2
        <5>3. b \in 1 .. i \/ b = i + 1
          BY <1>2
        <5> QED BY <5>1, <5>2, <5>3
      <4> QED BY <1>2, <4>3, <4>4 DEF Begun
    <3> QED BY <3>1, <3>2
  <2>2. CASE WriteFailed("spill", arch, arch', TRUE) /\ Ignore
    BY <1>3, <2>2, FailedStep DEF Ignore
  <2> QED BY <1>1, <2>1, <2>2
<1>8. Archive'
  BY <1>2, <1>7, FreshLater DEF Archive
<1>9. Reading'
  <2>1. Fresh(arch \o wbuf)' /\ Like(f)' /\ Like(hashed)'
    BY <1>2, <1>3, <1>4, <1>7, FreshLater, SameOriginal
  <2>2. /\ Clean' => (hashed = Blocks(i))' /\ (f = original)'
        /\ mishaps' = {} /\ ~werr' => Begun(arch \o wbuf, key, i)'
    BY <1>2, <1>3, <1>4, <1>5, <1>7, SameOriginal
  <2> QED BY <1>2, <1>3, <1>7, <2>1, <2>2 DEF Reading, Compressing, Appending
<1>10. Writing' /\ Kept'
  BY <1>2, <1>3 DEF Writing, Decompressing, Decoding, Kept
<1> QED BY <1>8, <1>9, <1>10

(* With the hash after all the blocks, it is whole.                        *)
LEMMA WriteHashStep ==
  ASSUME Fits, Types, Archive, Reading, Writing, Kept, Single', WriteHash
  PROVE  Archive' /\ Reading' /\ Writing' /\ Kept'
<1> DEFINE rec == Hash(hashed, key)
<1>1. /\ pc = "block" /\ i >= Count(size)
      /\ UNCHANGED <<original, f, archived, key, mishaps, size, i, hashed>>
      /\ \/ Written(<<rec>>, arch, arch', TRUE) /\ pc' = "flush"
         \/ WriteFailed("spill", arch, arch', TRUE) /\ pc' = "idle"
  BY DEF WriteHash, run, world, Exit
<1>2. /\ size = Len(original) /\ Like(f) /\ ~archived /\ Fresh(arch \o wbuf) /\ arch \o wbuf # <<>>
      /\ Clean => f = original /\ hashed = Blocks(i)
      /\ mishaps = {} /\ ~werr => Begun(arch \o wbuf, key, i)
      /\ arch \in Seq(Records) /\ wbuf \in Seq(Records) /\ key \in OwnKeys
      /\ Like(hashed) /\ hashed \in Seq(Int)
  BY <1>1 DEF Types, TypeOK, Present, Reading, Compressing, Appending
<1>3. i = Count(size) /\ Blocks(i) = original /\ i \in Nat
  <2>1. i <= Count(size) /\ i \in Nat /\ Count(size) \in Nat
    BY <1>1, <1>2, Sizes DEF Types, TypeOK
  <2>2. i = Count(size)
    BY <1>1, <2>1
  <2> QED BY <1>2, <2>1, <2>2, Pieces DEF Types
<1>4. rec \in Records /\ Genuine(rec)
  <2>1. rec \in Records /\ rec.kind = "hash" /\ rec.sum = hashed
    BY <1>2, RecordTypes DEF Hash
  <2> QED BY <1>2, <1>3, <2>1 DEF Genuine
<1>5. CASE Written(<<rec>>, arch, arch', TRUE) /\ pc' = "flush"
  <2>1. /\ ~werr /\ werr' = werr /\ Fresh(arch') /\ Fresh(arch' \o wbuf')
        /\ Len(arch' \o wbuf') = Len(arch \o wbuf) + 1
        /\ (arch' \o wbuf')[Len(arch \o wbuf) + 1] = rec
        /\ \A x \in 1 .. Len(arch \o wbuf) : (arch' \o wbuf')[x] = (arch \o wbuf)[x]
    BY <1>2, <1>4, <1>5, RecordWritten
  <2>2. ASSUME mishaps = {} PROVE Whole(arch' \o wbuf', key')
    <3>1. /\ Len(arch \o wbuf) = i + 1 /\ (arch \o wbuf)[1] = Header(Len(original), key)
          /\ \A b \in 1 .. i : (arch \o wbuf)[b + 1] = Block(Piece(b), key)
      BY <1>2, <2>1, <2>2 DEF Begun
    <3>2. rec = Hash(original, key)
      BY <1>2, <1>3, <2>2 DEF Clean
    <3> HIDE DEF rec
    <3>i. i + 1 + 1 = i + 2 /\ 1 \in 1 .. Len(arch \o wbuf)
          /\ \A b \in 1 .. i : b + 1 \in 1 .. Len(arch \o wbuf)
      BY <1>3, <3>1
    <3>3. /\ Len(arch' \o wbuf') = i + 2 /\ (arch' \o wbuf')[1] = Header(Len(original), key)
          /\ (arch' \o wbuf')[i + 2] = Hash(original, key)
      BY <2>1, <3>1, <3>i, <3>2
    <3>4. \A b \in 1 .. i : (arch' \o wbuf')[b + 1] = Block(Piece(b), key)
      BY <2>1, <3>1, <3>i
    <3> QED BY <1>1, <1>2, <1>3, <3>3, <3>4 DEF Whole
  <2>3. Archive'
    BY <1>1, <2>1, FreshLater DEF Archive, Clean
  <2>4. Reading'
    <3>1. /\ Fresh(arch \o wbuf)' /\ Like(f)'
          /\ mishaps' = {} => Whole(arch \o wbuf, key)'
      BY <1>1, <1>2, <2>1, <2>2, FreshLater, SameOriginal DEF Clean
    <3>2. Clean' => (f = original)'
      BY <1>1, <1>2 DEF Clean
    <3> QED BY <1>1, <1>2, <1>5, <2>1, <3>1, <3>2 DEF Reading, Compressing, Appending
  <2>5. Writing' /\ Kept'
    BY <1>1, <1>2, <1>5 DEF Writing, Decompressing, Decoding, Kept
  <2> QED BY <2>3, <2>4, <2>5
<1>6. CASE WriteFailed("spill", arch, arch', TRUE) /\ pc' = "idle"
  <2>1. Fresh(arch')
    BY <1>2, <1>6, FailedStep
  <2>2. Archive'
    BY <1>1, <2>1, FreshLater DEF Archive, Clean
  <2>3. Reading' /\ Writing'
    BY <1>6 DEF Reading, Writing, Compressing, Appending, Decompressing, Decoding
  <2>4. Kept'
    BY <1>1, <1>2 DEF Kept, Clean
  <2> QED BY <2>2, <2>3, <2>4
<1> QED BY <1>1, <1>5, <1>6

(* If the flush succeeds, all of that is in the file.                      *)
LEMMA FlushArchiveStep ==
  ASSUME Types, Archive, Reading, Writing, Kept, Single', Clean' => Clean, FlushArchive
  PROVE  Archive' /\ Reading' /\ Writing' /\ Kept'
<1>1. /\ pc = "flush" /\ pc' = "remove" /\ UNCHANGED <<original, f, archived, key, size>>
      /\ mishaps' = mishaps \cup (IF werr' THEN {"compressFlush"} ELSE {})
      /\ \/ Flushed(arch, arch', TRUE) /\ wbuf' = <<>>
         \/ WriteFailed("compressFlush", arch, arch', TRUE) /\ Ignore
  BY DEF FlushArchive, run
<1>2. /\ size = Len(original) /\ Like(f) /\ ~archived /\ Fresh(arch \o wbuf)
      /\ Clean => f = original
      /\ mishaps = {} => Whole(arch \o wbuf, key)
      /\ arch \in Seq(Records) /\ wbuf \in Seq(Records)
  BY <1>1 DEF Types, TypeOK, Present, Reading, Compressing, Appending
<1>3. /\ Fresh(arch') /\ Fresh(arch' \o wbuf')
      /\ mishaps' = {} => Whole(arch', key')
  <2>1. CASE Flushed(arch, arch', TRUE) /\ wbuf' = <<>>
    <3>1. arch' = arch \o wbuf /\ arch' \in Seq(Records)
      <4>1. PICK open \in BOOLEAN : open /\ Flushed(arch, arch', open)
        BY <2>1
      <4>2. arch' \in Seq(Records) /\ Emptied(arch, arch')
        BY <1>2, <4>1, FlushedLaw
      <4> QED BY <4>2 DEF Emptied
    <3>2. arch' \o wbuf' = arch'
      BY <2>1, <3>1, ConcatEmptySeq
    <3> QED BY <1>1, <1>2, <3>1, <3>2
  <2>2. CASE WriteFailed("compressFlush", arch, arch', TRUE) /\ Ignore
    <3>1. Fresh(arch') /\ Fresh(arch' \o wbuf) /\ wbuf' = wbuf /\ werr' = TRUE
      BY <1>2, <2>2, FailedStep DEF Ignore
    <3> QED BY <1>1, <3>1
  <2> QED BY <1>1, <2>1, <2>2
<1>4. Archive'
  BY <1>1, <1>3, FreshLater DEF Archive
<1>5. Reading'
  <2>1. /\ Fresh(arch \o wbuf)' /\ Like(f)'
        /\ mishaps' = {} => Whole(arch, key)'
    BY <1>1, <1>2, <1>3, FreshLater, SameOriginal
  <2>2. Clean' => (f = original)'
    BY <1>1, <1>2
  <2> QED BY <1>1, <1>2, <2>1, <2>2 DEF Reading, Compressing, Appending
<1>6. Writing' /\ Kept'
  BY <1>1, <1>2 DEF Writing, Decompressing, Decoding, Kept
<1> QED BY <1>4, <1>5, <1>6

(* Only now f is removed: the archive is whole.                            *)
LEMMA RemoveInputStep ==
  ASSUME Types, Archive, Reading, Writing, Kept, Single', RemoveInput
  PROVE  Archive' /\ Reading' /\ Writing' /\ Kept'
<1>1. pc = "remove" /\ pc' = "idle" /\ archived' = TRUE /\ UNCHANGED <<original, arch, mishaps, key>>
  BY DEF RemoveInput, Exit, run, world
<1>2. arch # Absent /\ key \in OwnKeys /\ (mishaps = {} => Whole(arch, key))
  BY <1>1 DEF Types, Present, Reading, Compressing, Appending
<1>3. Archive'
  BY <1>1, FreshLater DEF Archive, Clean, Struck, UnmarkedBlocks, Unmarked
<1>4. Reading' /\ Writing'
  BY <1>1 DEF Reading, Writing, Compressing, Appending, Decompressing, Decoding
<1>5. Kept'
  <2>1. mishaps' = {} => Whole(arch, key)'
    BY <1>1, <1>2, SameOriginal
  <2> QED BY <1>1, <1>2, <2>1 DEF Kept
<1> QED BY <1>3, <1>4, <1>5

(* A step that leaves the archive and the record of mishaps alone.         *)
LEMMA ArchiveLater ==
  ASSUME Archive, UNCHANGED <<original, arch, mishaps>>
  PROVE  Archive'
BY FreshLater DEF Archive, Clean, Struck, UnmarkedBlocks, Unmarked

(* The steps of a decompression: nothing is decoded yet.                   *)
LEMMA RunDecompressStep ==
  ASSUME Types, Archive, Reading, Writing, Kept, Single', RunDecompress
  PROVE  Archive' /\ Reading' /\ Writing' /\ Kept'
<1>1. /\ pc' = "open" /\ archived /\ werr' = werr /\ buffer64' = NoSum
      /\ UNCHANGED <<original, f, arch, archived, mishaps>>
  BY DEF RunDecompress, files, world
<1>2. Archive'
  BY <1>1, ArchiveLater
<1>3. Reading' /\ Writing'
  BY <1>1 DEF Reading, Writing, Compressing, Appending, Decompressing, Decoding
<1>4. Kept'
  BY <1>1 DEF Kept, Whole, Header, Block, Piece, Upto, Count, Hash
<1> QED BY <1>2, <1>3, <1>4

(* The first record of the archive while it is decoded.                    *)
LEMMA ArchiveHeader ==
  ASSUME Types, arch # Absent, Acceptable
  PROVE  arch \in Seq(Records) /\ arch[1] \in Records /\ arch[1].kind = "header" /\ arch[1].blocks \in Nat
<1>1. arch \in Seq(Records) /\ arch # <<>> /\ arch[1].kind = "header"
  BY DEF Types, TypeOK, Acceptable
<1>2. 1 \in 1 .. Len(arch)
  BY <1>1, EmptySeq
<1>3. arch[1] \in Records
  BY <1>1, <1>2, ElementOfSeq
<1> QED BY <1>1, <1>3 DEF Records

(* From now on f is lost, but the archive is there.                        *)
LEMMA CreateOutputStep ==
  ASSUME Fits, Types, Archive, Reading, Writing, Kept, Single', CreateOutput
  PROVE  Archive' /\ Reading' /\ Writing' /\ Kept'
<1>1. /\ pc = "open" /\ pc' = "decode" /\ Acceptable
      /\ UNCHANGED <<original, arch, archived, key, buffer64, mishaps, i, hashed, wbuf, werr>>
      /\ \/ f' = <<>> /\ created' = TRUE
         \/ "create" \in Faults /\ created' = FALSE
  BY DEF CreateOutput, run
<1>2. i = 0 /\ hashed = <<>> /\ wbuf = <<>> /\ archived /\ arch # Absent /\ buffer64 = NoSum
  BY <1>1 DEF Types, Present, Writing, AtStart, Decompressing
<1>3. arch[1].blocks \in Nat
  BY <1>1, <1>2, ArchiveHeader
<1>4. Archive'
  BY <1>1, ArchiveLater
<1>5. Reading' /\ Kept'
  BY <1>1 DEF Reading, Compressing, Appending, Kept, Whole, Header, Block, Piece, Upto, Count, Hash
<1>6. Output'
  <2>1. Upto(0) = 0 /\ Blocks(0) = <<>>
    BY Sizes, Pieces DEF Types
  <2>2. Len(<<>>) = 0
    OBVIOUS
  <2>3. Upto(i)' = Upto(0) /\ Blocks(i)' = Blocks(0)
    BY <1>1, <1>2 DEF Upto, Blocks
  <2>4. Len(hashed') = Upto(i)' /\ hashed' = Blocks(i)'
    BY <1>1, <1>2, <2>1, <2>2, <2>3
  <2>5. Unmarked(hashed)'
    BY <1>1, <1>2, <2>2 DEF Unmarked
  <2> QED BY <1>1, <1>2, <1>3, <2>4, <2>5 DEF Output
<1>7. Writing'
  <2>1. created' => f' # Absent /\ f' \o wbuf' = hashed'
    <3>1. <<>> \in Seq(Int)
      OBVIOUS
    <3> QED BY <1>1, <1>2, <3>1, FileAssumption, ConcatEmptySeq
  <2>2. ~created' => wbuf' = hashed' /\ "create" \in Faults
    BY <1>1, <1>2
  <2> QED BY <1>1, <1>2, <1>6, <2>1, <2>2 DEF Writing, Decompressing, Decoding
<1> QED BY <1>4, <1>5, <1>6, <1>7

(* What a record decodes to continues what was decoded before.             *)
LEMMA DecodedStep ==
  ASSUME Fits, Types, Archive, Writing, Kept, pc = "decode", i < arch[1].blocks, Len(arch) >= i + 2
  PROVE  LET d == Decoded(arch[1], i, arch[i + 2], key) IN
         /\ d \in Seq(Int)
         /\ OwnHeader(arch[1]) => Len(hashed \o d) = Upto(i + 1)
         /\ UnmarkedBlocks(arch) => Unmarked(hashed \o d)
         /\ mishaps = {} /\ arch[1].key \in {"none", key} => hashed \o d = Blocks(i + 1)
<1> DEFINE d == Decoded(arch[1], i, arch[i + 2], key)
           l == Len(original)
<1>1. /\ arch # Absent /\ Acceptable /\ Output /\ archived
      /\ i \in Nat /\ hashed \in Seq(Int) /\ Origin /\ key \in Keys
  BY DEF Types, TypeOK, Present, Writing, Decompressing, Decoding
<1>2. arch \in Seq(Records) /\ arch[1] \in Records /\ arch[1].kind = "header" /\ arch[1].blocks \in Nat
  BY <1>1, ArchiveHeader
<1>3. i + 2 \in 1 .. Len(arch) /\ arch[i + 2] \in Records
  <2>1. i + 2 \in 1 .. Len(arch)
    BY <1>1, <1>2, LenProperties
  <2> QED BY <1>2, <2>1, ElementOfSeq
<1>4. d \in Seq(Int) /\ Len(d) = BlockLength(arch[1], i)
  BY <1>1, <1>2, <1>3, DecodedTypes
<1>5. /\ hashed \o d \in Seq(Int) /\ Len(hashed \o d) = Len(hashed) + Len(d)
      /\ \A x \in 1 .. Len(hashed) + Len(d) :
           (hashed \o d)[x] = IF x <= Len(hashed) THEN hashed[x] ELSE d[x - Len(hashed)]
  BY <1>1, <1>4, ConcatProperties
<1>6. ASSUME OwnHeader(arch[1]) PROVE Len(hashed \o d) = Upto(i + 1)
  <2>1. PICK k \in OwnKeys : arch[1] = Header(l, k)
    BY <1>6 DEF OwnHeader
  <2>2. i \in 0 .. Count(l) - 1
    BY <1>1, <1>2, <2>1 DEF Header
  <2>3. Upto(i + 1) = Upto(i) + BlockLength(arch[1], i)
    BY <1>1, <2>1, <2>2, Sizes
  <2>4. Len(hashed) = Upto(i)
    BY <1>1, <1>6 DEF Output
  <2> QED BY <1>4, <1>5, <2>3, <2>4
<1>7. ASSUME UnmarkedBlocks(arch) PROVE Unmarked(hashed \o d)
  <2>1. Unmarked(hashed)
    BY <1>1, <1>7 DEF Output
  <2>2. Unmarked(d)
    <3>1. CASE Decodes(arch[1], i, arch[i + 2], key)
      <4>1. arch[i + 2].kind = "block" /\ d = arch[i + 2].data
        BY <3>1 DEF Decoded, Decodes
      <4> HIDE DEF d
      <4> QED BY <1>3, <1>7, <4>1 DEF UnmarkedBlocks
    <3>2. CASE ~Decodes(arch[1], i, arch[i + 2], key)
      <4>1. d = [x \in 1 .. BlockLength(arch[1], i) |-> Garbage]
        BY <3>2 DEF Decoded
      <4>2. \A x \in 1 .. Len(d) : d[x] = Garbage
        BY <1>4, <4>1
      <4> QED BY <4>2 DEF Unmarked, Garbage, Damaged
    <3> QED BY <3>1, <3>2
  <2> HIDE DEF d
  <2> SUFFICES ASSUME NEW x \in 1 .. Len(hashed \o d) PROVE (hashed \o d)[x] # Damaged
    BY DEF Unmarked
  <2>3. Len(hashed) \in Nat /\ Len(d) \in Nat /\ x \in 1 .. Len(hashed) + Len(d)
    BY <1>1, <1>4, <1>5, LenProperties
  <2>4. CASE x <= Len(hashed)
    <3>1. x \in 1 .. Len(hashed)
      BY <2>3, <2>4
    <3> QED BY <1>5, <2>1, <2>3, <2>4, <3>1 DEF Unmarked
  <2>5. CASE ~(x <= Len(hashed))
    <3>1. x - Len(hashed) \in 1 .. Len(d)
      BY <2>3, <2>5
    <3> QED BY <1>5, <2>2, <2>3, <2>5, <3>1 DEF Unmarked
  <2> QED BY <2>4, <2>5
<1>8. ASSUME mishaps = {}, arch[1].key \in {"none", key} PROVE hashed \o d = Blocks(i + 1)
  <2>1. PICK k \in OwnKeys : Whole(arch, k)
    BY <1>1, <1>8 DEF Kept
  <2>2. /\ arch[1] = Header(l, k) /\ arch[1].key = k /\ arch[1].blocks = Count(l)
        /\ \A b \in 1 .. Count(l) : arch[b + 1] = Block(Piece(b), k)
    BY <2>1 DEF Whole, Header
  <2>3. i \in 0 .. Count(l) - 1 /\ i + 1 \in 1 .. Count(l) /\ i + 1 + 1 = i + 2
    BY <1>1, <1>2, <2>2
  <2>4. arch[i + 2] = Block(Piece(i + 1), k)
    BY <2>2, <2>3
  <2>5. k \in {"none", key}
    BY <1>8, <2>2
  <2>7. d = Piece(i + 1)
    BY <1>1, <2>2, <2>3, <2>4, <2>5, Pieces
  <2>8. hashed = Blocks(i)
    BY <1>1, <1>8 DEF Output
  <2>9. Blocks(i) \o Piece(i + 1) = Blocks(i + 1)
    BY <1>1, <2>3, Pieces
  <2> QED BY <2>7, <2>8, <2>9
<1> HIDE DEF d
<1>9. /\ d \in Seq(Int)
      /\ OwnHeader(arch[1]) => Len(hashed \o d) = Upto(i + 1)
      /\ UnmarkedBlocks(arch) => Unmarked(hashed \o d)
      /\ mishaps = {} /\ arch[1].key \in {"none", key} => hashed \o d = Blocks(i + 1)
  BY <1>4, <1>6, <1>7, <1>8
<1> QED BY <1>9 DEF d

(* What is decoded is in the output file or on its way there.              *)
LEMMA DecompressBlockStep ==
  ASSUME Fits, Types, Archive, Reading, Writing, Kept, Single', DecompressBlock
  PROVE  Archive' /\ Reading' /\ Writing' /\ Kept'
<1> DEFINE d == Decoded(arch[1], i, arch[i + 2], key)
<1>1. /\ pc = "decode" /\ pc' = "decode" /\ i < arch[1].blocks /\ Len(arch) >= i + 2
      /\ hashed' = hashed \o d /\ i' = i + 1
      /\ UNCHANGED <<original, arch, archived, key, buffer64, mishaps, created>>
      /\ \/ Written(d, f, f', created)
         \/ WriteFailed("spill", f, f', created) /\ Ignore
  BY DEF DecompressBlock, run, world
<1>2. /\ d \in Seq(Int)
      /\ OwnHeader(arch[1]) => Len(hashed \o d) = Upto(i + 1)
      /\ UnmarkedBlocks(arch) => Unmarked(hashed \o d)
      /\ mishaps = {} /\ arch[1].key \in {"none", key} => hashed \o d = Blocks(i + 1)
  BY <1>1, DecodedStep
<1> HIDE DEF d
<1>3. /\ arch # Absent /\ Acceptable /\ Output /\ archived /\ i \in Nat
      /\ hashed \in Seq(Int) /\ wbuf \in Seq(Int) /\ created \in BOOLEAN
      /\ created => f # Absent /\ f \in Seq(Int)
      /\ ~werr => IF created THEN f \o wbuf = hashed ELSE wbuf = hashed /\ "create" \in Faults
  BY <1>1 DEF Types, TypeOK, Present, Writing, Decompressing, Decoding
<1>4. Archive'
  BY <1>1, ArchiveLater
<1>5. Reading' /\ Kept'
  BY <1>1 DEF Reading, Compressing, Appending, Kept, Whole, Header, Block, Piece, Upto, Count, Hash
<1>6. Output'
  <2>1. i' <= arch[1].blocks
    <3>1. arch[1].blocks \in Nat
      BY <1>3, ArchiveHeader
    <3> QED BY <1>1, <1>3, <3>1
  <2>2. OwnHeader(arch[1])' => Len(hashed') = Upto(i)'
    BY <1>1, <1>2 DEF OwnHeader, Header, Count, Upto
  <2>3. UnmarkedBlocks(arch)' => Unmarked(hashed)'
    BY <1>1, <1>2 DEF UnmarkedBlocks, Unmarked
  <2>4. mishaps' = {} /\ arch'[1].key \in {"none", key'} => hashed' = Blocks(i)'
    BY <1>1, <1>2 DEF Blocks, Upto
  <2> QED BY <1>1, <2>1, <2>2, <2>3, <2>4 DEF Output
<1>7. ~werr' => IF created THEN f' # Absent /\ f' \o wbuf' = hashed' ELSE wbuf' = hashed' /\ "create" \in Faults
  <2>1. CASE Written(d, f, f', created)
    <3>1. /\ ~werr
          /\ created => f' \in Seq(Int) /\ Continued(f, d, f')
          /\ ~created => f' = f /\ wbuf' = wbuf \o d
      BY <1>2, <1>3, <2>1, WrittenLaw
    <3>2. CASE created
      <4>1. f' \o wbuf' = (f \o wbuf) \o d
        BY <3>1, <3>2 DEF Continued
      <4> QED BY <1>1, <1>3, <3>1, <3>2, <4>1, FileAssumption
    <3>3. CASE ~created
      BY <1>1, <1>3, <3>1, <3>3
    <3> QED BY <3>2, <3>3
  <2>2. CASE WriteFailed("spill", f, f', created) /\ Ignore
    BY <2>2 DEF Ignore
  <2> QED BY <1>1, <2>1, <2>2
<1>8. Writing'
  <2>1. buffer64' = NoSum
    BY <1>1 DEF Writing, Decompressing
  <2> QED BY <1>1, <1>3, <1>6, <1>7, <2>1 DEF Writing, Decompressing, Decoding
<1> QED BY <1>4, <1>5, <1>8

(* If the flush succeeds, all of it is in the file.                        *)
LEMMA FlushOutputStep ==
  ASSUME Fits, Types, Archive, Reading, Writing, Kept, Single', FlushOutput
  PROVE  Archive' /\ Reading' /\ Writing' /\ Kept'
<1>1. /\ pc = "decode" /\ i >= arch[1].blocks
      /\ UNCHANGED <<original, arch, archived, key, buffer64, mishaps, i, hashed, created>>
      /\ \/ Flushed(f, f', created) /\ wbuf' = <<>> /\ werr' = werr /\ pc' = "hash"
         \/ WriteFailed("decompressFlush", f, f', created) /\ pc' = "idle"
  BY DEF FlushOutput, run, world, Exit
<1>2. /\ arch # Absent /\ Acceptable /\ Output /\ archived /\ i \in Nat /\ buffer64 = NoSum
      /\ hashed \in Seq(Int) /\ wbuf \in Seq(Int) /\ created \in BOOLEAN
      /\ created => f # Absent /\ f \in Seq(Int)
      /\ ~werr => IF created THEN f \o wbuf = hashed ELSE wbuf = hashed /\ "create" \in Faults
  BY <1>1 DEF Types, TypeOK, Present, Writing, Decompressing, Decoding
<1>3. Archive'
  BY <1>1, ArchiveLater
<1>4. Reading'
  BY <1>1 DEF Reading, Compressing, Appending
<1>5. Kept'
  BY <1>1, <1>2 DEF Kept, Whole, Header, Block, Piece, Upto, Count, Hash
<1>6. CASE pc' = "idle"
  <2>1. Writing'
    BY <1>6 DEF Writing, Decompressing, Decoding
  <2> QED BY <1>3, <1>4, <1>5, <2>1
<1>7. CASE Flushed(f, f', created) /\ wbuf' = <<>> /\ werr' = werr /\ pc' = "hash"
  <2>1. /\ ~werr
        /\ created => f' \in Seq(Int) /\ Emptied(f, f')
        /\ ~created => f' = f /\ wbuf = <<>>
    BY <1>2, <1>7, FlushedLaw
  <2>2. created => f' # Absent /\ f' \o wbuf' = hashed'
    <3>1. ASSUME created PROVE f' = hashed /\ f' \in Seq(Int)
      BY <1>2, <2>1, <3>1 DEF Emptied
    <3> QED BY <1>1, <1>7, <3>1, FileAssumption, ConcatEmptySeq
  <2>3. ~created => wbuf' = hashed' /\ "create" \in Faults
    BY <1>1, <1>2, <1>7, <2>1
  <2>4. Output'
    BY <1>1, <1>2 DEF Output, OwnHeader, Header, Count, Upto, UnmarkedBlocks, Unmarked, Blocks
  <2>5. i = arch[1].blocks
    <3>1. arch[1].blocks \in Nat
      BY <1>2, ArchiveHeader
    <3> QED BY <1>1, <1>2, <3>1 DEF Output
  <2>6. Writing'
    BY <1>1, <1>2, <1>7, <2>1, <2>2, <2>3, <2>4, <2>5 DEF Writing, Decompressing, Decoding
  <2> QED BY <1>3, <1>4, <1>5, <2>6
<1> QED BY <1>1, <1>6, <1>7

(* What is read from the archive is its hash, or no hash at all.           *)
LEMMA ReadHashStep ==
  ASSUME Types, Archive, Reading, Writing, Kept, Single', ReadHash
  PROVE  Archive' /\ Reading' /\ Writing' /\ Kept'
<1>1. /\ pc = "hash" /\ pc' = "check"
      /\ UNCHANGED <<original, f, arch, archived, key, mishaps, i, hashed, wbuf, werr, created>>
      /\ \/ Len(arch) >= HashPlace /\ buffer64' = IF HashFound THEN arch[HashPlace].sum ELSE NoSum
         \/ buffer64' = IF arch[1].key = "none" THEN buffer64 ELSE NoSum
  BY DEF ReadHash, files, world
<1>2. Archive'
  BY <1>1, ArchiveLater
<1>3. Reading'
  BY <1>1 DEF Reading, Compressing, Appending
<1>4. Kept'
  BY <1>1 DEF Kept, Whole, Header, Block, Piece, Upto, Count, Hash
<1>5. Output => Output'
  BY <1>1 DEF Output, OwnHeader, Header, Count, Upto, UnmarkedBlocks, Unmarked, Blocks
<1>6. Compared'
  <2>1. buffer64 = NoSum
    BY <1>1 DEF Writing, Decompressing
  <2>2. buffer64' = NoSum \/ (HashFound /\ buffer64' = arch[HashPlace].sum)
    BY <1>1, <2>1
  <2>3. HashPlace' = HashPlace
    BY <1>1 DEF HashPlace
  <2>4. HashFound' = HashFound
    BY <1>1, <2>3 DEF HashFound
  <2> QED BY <1>1, <2>2, <2>3, <2>4 DEF Compared
<1>7. Writing'
  BY <1>1, <1>5, <1>6 DEF Writing, Decompressing, Decoding
<1> QED BY <1>2, <1>3, <1>4, <1>7

(* If the hash agrees, f is what it was: the hash is that of original, or  *)
(* of bytes that start like it and here have its length; or the hash was   *)
(* damaged, and then no block was, and no decoded byte is a damaged one.   *)
LEMMA HashTells ==
  ASSUME Fits, Creatable, Types, Archive, Writing, pc = "check", HashAgrees
  PROVE  f = original
<1> DEFINE t == arch[1].blocks + 2
           l == Len(original)
<1>1. /\ arch # Absent /\ Acceptable /\ Output /\ i = arch[1].blocks /\ ~werr /\ wbuf = <<>>
      /\ hashed \in Seq(Int) /\ created \in BOOLEAN /\ Origin
      /\ IF created THEN f # Absent /\ f \o wbuf = hashed ELSE wbuf = hashed /\ "create" \in Faults
      /\ f = Absent \/ f \in Seq(Int)
  BY DEF Types, TypeOK, Present, Writing, Decompressing, Decoding
<1>2. arch \in Seq(Records) /\ arch[1].blocks \in Nat /\ arch # <<>>
  BY <1>1, ArchiveHeader DEF Acceptable
<1>3. t \in 1 .. Len(arch) /\ arch[t].kind = "hash" /\ arch[t].sum = hashed
  <2>1. HashFound /\ buffer64 = arch[HashPlace].sum
    BY <1>1, FileAssumption DEF Writing, Compared, HashAgrees
  <2>2. Len(arch) >= t /\ Len(arch) \in Nat /\ t \in Nat /\ 1 <= t
    BY <1>2, <2>1, LenProperties DEF HashFound, HashPlace
  <2> QED BY <2>1, <2>2 DEF HashAgrees, HashFound, HashPlace
<1>4. original \in Seq(Int) /\ l \in Nat /\ l \in Lengths
  BY <1>1, OriginFacts
<1> HIDE DEF t
<1>5. hashed = original
  <2>1. CASE Fresh(arch)
    <3>1. PICK k \in OwnKeys : arch[1] = Header(l, k)
      BY <1>2, <2>1 DEF Fresh, OwnHeader
    <3>2. Len(hashed) = Upto(i) /\ i = Count(l)
      <4>1. OwnHeader(arch[1])
        BY <1>2, <2>1 DEF Fresh
      <4>2. arch[1].blocks = Count(l)
        BY <3>1 DEF Header
      <4> QED BY <1>1, <4>1, <4>2 DEF Output
    <3>3. Len(hashed) = l
      BY <1>1, <3>2, Sizes
    <3>4. Like(hashed)
      BY <1>3, <2>1 DEF Fresh, Genuine
    <3>5. \A x \in 1 .. Len(hashed) : hashed[x] = original[x]
      BY <1>4, <3>3, <3>4 DEF Like
    <3> QED BY <1>1, <1>4, <3>3, <3>5, SeqEqual
  <2>2. CASE Struck(arch)
    <3>1. arch[t].sum = original \/ (hashed = <<Damaged>> /\ UnmarkedBlocks(arch))
      BY <1>3, <2>2 DEF Struck
    <3>2. ASSUME hashed = <<Damaged>>, UnmarkedBlocks(arch) PROVE FALSE
      <4>1. Unmarked(hashed)
        BY <1>1, <3>2 DEF Output
      <4>2. 1 \in 1 .. Len(hashed) /\ hashed[1] = Damaged
        BY <3>2
      <4> QED BY <4>1, <4>2 DEF Unmarked
    <3> QED BY <1>3, <3>1, <3>2
  <2> QED BY <1>1, <2>1, <2>2 DEF Archive
<1>6. CASE created
  <2>1. f \in Seq(Int) /\ f \o <<>> = hashed
    BY <1>1, <1>6
  <2> QED BY <1>5, <2>1, ConcatEmptySeq
<1>7. CASE ~created
  <2>1. original = <<>> /\ "create" \in Faults
    BY <1>1, <1>5, <1>7
  <2>2. l = 0
    BY <2>1
  <2> QED BY <1>4, <2>1, <2>2 DEF Creatable
<1> QED BY <1>1, <1>6, <1>7

(* Only now the archive is removed: f holds all of it.                     *)
LEMMA CheckHashStep ==
  ASSUME Fits, Creatable, Types, Archive, Reading, Writing, Kept, Single', CheckHash
  PROVE  Archive' /\ Reading' /\ Writing' /\ Kept'
<1>1. /\ pc = "check" /\ pc' = "idle" /\ UNCHANGED <<original, f, archived, mishaps>>
      /\ arch' = arch \/ (arch' = Absent /\ HashAgrees)
  BY DEF CheckHash, Exit, run, world
<1>2. CASE arch' = arch
  BY <1>1, <1>2, EndStep
<1>3. CASE arch' = Absent /\ HashAgrees
  <2>1. f = original
    BY <1>1, <1>3, HashTells
  <2>2. Archive' /\ Kept'
    BY <1>1, <1>3, <2>1 DEF Archive, Kept
  <2>3. Reading' /\ Writing'
    BY <1>1 DEF Reading, Writing, Compressing, Appending, Decompressing, Decoding
  <2> QED BY <2>2, <2>3
<1> QED BY <1>1, <1>2, <1>3

(* Others append to f, or cut it: it still starts like original.           *)
LEMMA ChangedInputStep ==
  ASSUME Types, Archive, Reading, Writing, Kept, Single', Grow \/ Shrink
  PROVE  Archive' /\ Reading' /\ Writing' /\ Kept'
<1>1. /\ pc \in {"create", "header", "block"} /\ mishaps' # {}
      /\ mishaps = {} /\ (mishaps' = {"grow"} \/ mishaps' = {"shrink"})
      /\ UNCHANGED <<original, arch, archived, pc, key, size, i, hashed, wbuf, werr>>
  <2>1. CASE Grow
    <3>1. mishaps' = mishaps \cup {"grow"} /\ "grow" \notin mishaps
      BY <2>1 DEF Grow, Mishap
    <3>2. mishaps = {}
      BY <3>1, FirstMishap
    <3> QED BY <2>1, <3>1, <3>2 DEF Grow, run
  <2>2. CASE Shrink
    <3>1. mishaps' = mishaps \cup {"shrink"} /\ "shrink" \notin mishaps
      BY <2>2 DEF Shrink, Mishap
    <3>2. mishaps = {}
      BY <3>1, FirstMishap
    <3> QED BY <2>2, <3>1, <3>2 DEF Shrink, run
  <2> QED BY <2>1, <2>2
<1>2. ~Clean' /\ Clean
  BY <1>1 DEF Clean
<1>3. /\ f = original /\ original \in Seq(Int) /\ size = Len(original)
      /\ pc # "create" => ~archived
      /\ pc = "header" => arch = <<>>
      /\ pc = "block" => Fresh(arch \o wbuf) /\ arch \o wbuf # <<>> /\ Like(hashed)
  BY <1>1, <1>2, OriginFacts DEF Types, Reading, Compressing, Appending
<1>4. Like(f')
  <2>1. CASE Grow
    <3>1. f' = Append(original, Appended) /\ Appended \in Int
      BY <1>3, <2>1 DEF Grow, Appended
    <3>2. \A x \in 1 .. Len(original) : f'[x] = original[x]
      BY <1>3, <3>1, AppendProperties
    <3>3. Len(f') \in Nat /\ Len(original) \in Nat
      BY <1>3, <3>1, AppendProperties, LenProperties
    <3> QED BY <3>2, <3>3 DEF Like
  <2>2. CASE Shrink
    <3>1. PICK m \in 0 .. Len(original) - 1 : f' = SubSeq(original, 1, m)
      BY <1>3, <2>2 DEF Shrink
    <3>2. Len(original) \in Nat /\ m \in Int /\ \A x \in 1 .. m : original[x] \in Int
      BY <1>3, <3>1, LenProperties, ElementOfSeq
    <3>3. /\ Len(f') = IF 1 <= m THEN m - 1 + 1 ELSE 0
          /\ \A x \in 1 .. m - 1 + 1 : f'[x] = original[1 + x - 1]
      BY <3>1, <3>2, SubSeqProperties
    <3> QED BY <3>2, <3>3 DEF Like
  <2> QED BY <2>1, <2>2
<1>5. Archive'
  <2>1. arch # Absent => Fresh(arch')
    BY <1>1 DEF Archive
  <2> QED BY <1>1, <1>2, <2>1, FreshLater DEF Archive
<1>6. Reading'
  <2>1. Like(f)' /\ (pc = "block" => Like(hashed)' /\ Fresh(arch \o wbuf)')
    BY <1>1, <1>2, <1>3, <1>4, SameOriginal, FreshLater
  <2> QED BY <1>1, <1>2, <1>3, <2>1 DEF Reading, Compressing, Appending
<1>7. Writing' /\ Kept'
  BY <1>1 DEF Writing, Decompressing, Decoding, Kept
<1> QED BY <1>5, <1>6, <1>7

(* One record of an archive as it was written is damaged.                  *)
LEMMA DamageStep ==
  ASSUME Types, Archive, Reading, Writing, Kept, Single', Damage
  PROVE  Archive' /\ Reading' /\ Writing' /\ Kept'
<1>k. PICK k \in DOMAIN arch : \E rec \in DamagedForms(arch[k]) : arch' = [arch EXCEPT ![k] = rec]
  BY DEF Damage
<1>1. PICK rec \in DamagedForms(arch[k]) : arch' = [arch EXCEPT ![k] = rec]
  BY <1>k
<1>2. /\ pc = "idle" /\ pc' = "idle" /\ arch # Absent /\ mishaps' = mishaps \cup {"damage"} /\ "damage" \notin mishaps
      /\ UNCHANGED original
  BY DEF Damage, Mishap
<1>3. mishaps = {}
  BY <1>2, FirstMishap
<1>4. arch \in Seq(Records) /\ Fresh(arch) /\ Clean
  BY <1>2, <1>3 DEF Types, TypeOK, Archive, Clean
<1>5. k \in 1 .. Len(arch) /\ arch[k] \in Records
  BY <1>k, <1>4, LenProperties, ElementOfSeq
<1>6. rec \in Records
  BY <1>1, <1>5, DamagedTypes
<1>7. /\ Len(arch') = Len(arch)
      /\ \A j \in 1 .. Len(arch) : arch'[j] = IF j = k THEN rec ELSE arch[j]
  BY <1>1, <1>4, <1>5, <1>6, ExceptSeq
<1>8. rec.kind = "hash" => arch[k].kind = "hash" /\ rec.sum = <<Damaged>>
  <2>1. CASE arch[k].kind \in {"header", "magic"}
    <3>1. arch[k] \in [kind : {"header", "magic"}, blocks : Nat, remainder : Nat, sound : BOOLEAN, key : OwnKeys]
      BY <1>5, <2>1 DEF Records
    <3>2. rec.kind \in {"header", "magic"}
      BY <1>1, <2>1, <3>1 DEF DamagedForms
    <3> QED BY <3>2
  <2>2. CASE arch[k].kind = "block"
    <3>1. arch[k] \in [kind : {"block"}, data : Seq(Int), key : OwnKeys]
      BY <1>5, <2>2 DEF Records
    <3>2. rec.kind = "block"
      BY <1>1, <2>2, <3>1 DEF DamagedForms
    <3> QED BY <3>2
  <2>3. CASE arch[k].kind = "hash"
    <3>1. arch[k] \in [kind : {"hash"}, sum : Seq(Int), key : OwnKeys]
      BY <1>5, <2>3 DEF Records
    <3> QED BY <1>1, <2>3, <3>1 DEF DamagedForms
  <2> QED BY <1>5, <2>1, <2>2, <2>3 DEF Records
<1>9. Struck(arch')
  <2> SUFFICES ASSUME NEW j \in 1 .. Len(arch'), arch'[j].kind = "hash"
               PROVE  arch'[j].sum = original \/ (arch'[j].sum = <<Damaged>> /\ UnmarkedBlocks(arch'))
    BY DEF Struck
  <2>1. CASE j # k
    BY <1>4, <1>7, <2>1 DEF Fresh, Genuine
  <2>2. CASE j = k
    <3>1. rec.kind = "hash" /\ arch'[j].sum = <<Damaged>>
      BY <1>7, <1>8, <2>2
    <3>2. ASSUME NEW x \in 1 .. Len(arch'), arch'[x].kind = "block" PROVE Unmarked(arch'[x].data)
      <4>1. x # k /\ arch'[x] = arch[x] /\ x \in 1 .. Len(arch)
        BY <1>7, <3>1, <3>2
      <4> QED BY <1>4, <3>2, <4>1 DEF Fresh, Genuine
    <3> QED BY <3>1, <3>2 DEF UnmarkedBlocks
  <2> QED BY <2>1, <2>2
<1>10. Archive'
  BY <1>2, <1>9 DEF Archive, Struck, UnmarkedBlocks, Unmarked
<1>11. Reading' /\ Writing' /\ Kept'
  BY <1>2 DEF Reading, Writing, Kept, Compressing, Appending, Decompressing, Decoding
<1> QED BY <1>10, <1>11

(* A power failure cuts off the end of an archive as it was written.       *)
LEMMA PowerFailsStep ==
  ASSUME Types, Archive, Reading, Writing, Kept, Single', PowerFails
  PROVE  Archive' /\ Reading' /\ Writing' /\ Kept'
<1>1. CASE "power" \in mishaps
  BY <1>1 DEF PowerFails, Mishap
<1>2. CASE "power" \notin mishaps
  <2>1. /\ Survives(arch, arch', "arch") /\ pc' = "idle" /\ UNCHANGED original
        /\ mishaps' = mishaps \cup {"power"} /\ mishaps = {}
    BY <1>2, FirstMishap DEF PowerFails, Mishap, Exit
  <2>2. arch = Absent \/ arch \in Seq(Records)
    BY DEF Types, TypeOK
  <2>3. CASE arch' = arch
    <3>1. arch # Absent => Fresh(arch')
      BY <2>1, <2>3 DEF Archive
    <3> QED BY <2>1, <2>3, <3>1, FreshLater
            DEF Archive, Clean, Reading, Writing, Kept, Compressing, Appending, Decompressing, Decoding
  <2>4. CASE arch \in Seq(Records) /\ \E l \in 0 .. Len(arch) : arch' = SubSeq(arch, 1, l)
    <3>1. PICK l \in 0 .. Len(arch) : arch' = SubSeq(arch, 1, l)
      BY <2>4
    <3>2. Fresh(arch)
      BY <2>1, <2>4, FileAssumption DEF Archive
    <3>3. Fresh(arch')
      <4>1. Drawn(SubSeq(arch, 1, l), arch)
        BY <2>4, <3>1, DrawnPrefix
      <4>2. Fresh(SubSeq(arch, 1, l))
        BY <3>2, <4>1, FreshDrawn
      <4> QED BY <3>1, <4>2
    <3> QED BY <2>1, <3>3, FreshLater
            DEF Archive, Clean, Reading, Writing, Kept, Compressing, Appending, Decompressing, Decoding
  <2> QED BY <2>1, <2>2, <2>3, <2>4 DEF Survives
<1> QED BY <1>1, <1>2

-----------------------------------------------------------------------------
(* The invariant.                                                          *)

(* The invariant holds initially.                                          *)
LEMMA ContentsInit == Init => Contents
<1> SUFFICES ASSUME Init PROVE Archive /\ Reading /\ Writing /\ Kept
  BY DEF Contents
<1> QED BY DEF Init, Archive, Reading, Writing, Kept, Compressing, Appending, Decompressing, Decoding

(* Every step keeps it.                                                    *)
LEMMA ContentsStep ==
  ASSUME Fits, Creatable, Types, Contents, [Next]_vars
  PROVE  Contents'
<1> SUFFICES ASSUME Single' PROVE Archive' /\ Reading' /\ Writing' /\ Kept'
  BY DEF Contents
<1>1. Single /\ (Clean' => Clean)
  BY Monotone
<1>2. Archive /\ Reading /\ Writing /\ Kept
  BY <1>1 DEF Contents
<1>3. CASE RunCompress
  BY <1>2, <1>3, RunCompressStep
<1>4. CASE RunDecompress
  BY <1>2, <1>4, RunDecompressStep
<1>5. CASE CreateArchive
  BY <1>2, <1>5, CreateArchiveStep
<1>6. CASE WriteHeader
  BY <1>2, <1>6, WriteHeaderStep
<1>7. CASE CompressBlock
  BY <1>1, <1>2, <1>7, CompressBlockStep
<1>8. CASE WriteHash
  BY <1>2, <1>8, WriteHashStep
<1>9. CASE FlushArchive
  BY <1>1, <1>2, <1>9, FlushArchiveStep
<1>10. CASE RemoveInput
  BY <1>2, <1>10, RemoveInputStep
<1>11. CASE CreateOutput
  BY <1>2, <1>11, CreateOutputStep
<1>12. CASE DecompressBlock
  BY <1>2, <1>12, DecompressBlockStep
<1>13. CASE FlushOutput
  BY <1>2, <1>13, FlushOutputStep
<1>14. CASE CheckHash
  BY <1>2, <1>14, CheckHashStep
<1>20. CASE ReadHash
  BY <1>2, <1>20, ReadHashStep
<1>15. CASE Grow \/ Shrink
  BY <1>2, <1>15, ChangedInputStep
<1>16. CASE Damage
  BY <1>2, <1>16, DamageStep
<1>17. CASE PowerFails
  BY <1>2, <1>17, PowerFailsStep
<1>18. CASE CompressReadFails \/ RefuseArchive \/ DecompressReadFails \/ DecompressPanics \/ Kill
  <2>1. pc # "idle" /\ pc' = "idle" /\ UNCHANGED <<original, f, arch, archived, mishaps>>
    BY <1>18 DEF CompressReadFails, RefuseArchive, DecompressReadFails, DecompressPanics, Kill, Exit, files, world
  <2> QED BY <1>2, <2>1, EndStep
<1>19. CASE UNCHANGED vars
  <2>1. UNCHANGED <<original, f, arch, archived, pc, key, buffer64, mishaps, size, i, hashed, wbuf, werr, created>>
    BY <1>19 DEF vars, files, run, world
  <2>2. Archive'
    BY <1>2, <2>1, ArchiveLater
  <2>3. Reading'
    <3>1. /\ Like(f) => Like(f)'
          /\ Like(hashed) => Like(hashed)'
          /\ hashed = Blocks(i) => (hashed = Blocks(i))'
          /\ Begun(arch \o wbuf, key, i) => Begun(arch \o wbuf, key, i)'
          /\ Whole(arch \o wbuf, key) => Whole(arch \o wbuf, key)'
          /\ Whole(arch, key) => Whole(arch, key)'
          /\ Fresh(arch \o wbuf) => Fresh(arch \o wbuf)'
      BY <1>1, <2>1, SameOriginal, FreshLater
    <3> QED BY <1>2, <2>1, <3>1 DEF Reading, Compressing, Appending, Clean
  <2>4. Kept'
    BY <1>2, <2>1 DEF Kept, Whole, Header, Block, Piece, Upto, Count, Hash
  <2>5. Output => Output'
    BY <2>1 DEF Output, OwnHeader, Header, Count, Upto, UnmarkedBlocks, Unmarked, Blocks
  <2>6. Compared => Compared'
    BY <2>1 DEF Compared, HashFound, HashPlace
  <2>7. Writing'
    BY <1>2, <2>1, <2>5, <2>6 DEF Writing, Decompressing, Decoding
  <2> QED BY <2>2, <2>3, <2>4, <2>7
<1> QED BY <1>3, <1>4, <1>5, <1>6, <1>7, <1>8, <1>9, <1>10, <1>11, <1>12, <1>13, <1>14, <1>15, <1>16, <1>17,
           <1>18, <1>19, <1>20 DEF Next, Compress, Decompress, Outside, Rest

(* With MaxMishaps at most 1, there is never a second kind of mishap.      *)
LEMMA SingleStep ==
  ASSUME MaxMishaps <= 1, Types, Contents, Single, [Next]_vars
  PROVE  Single'
<1>1. ASSUME NEW kind \in Mishaps, May(kind) PROVE mishaps \cup {kind} \subseteq {kind}
  <2> DEFINE S == mishaps \cup {kind}
  <2>1. S \subseteq Mishaps
    BY DEF Types, TypeOK
  <2>2. IsFiniteSet(Mishaps)
    <3>1. IsFiniteSet({}) /\ Mishaps = ((((({} \cup {"short"}) \cup {"grow"}) \cup {"shrink"}) \cup {"damage"})
                                         \cup {"power"}) \cup {"compressFlush"}
      BY FS_EmptySet DEF Mishaps
    <3> QED BY <3>1, FS_AddElement
  <2>3. IsFiniteSet(S)
    BY <2>1, <2>2, FS_Subset
  <2>4. Cardinality(S) <= MaxMishaps /\ Cardinality(S) \in Nat /\ MaxMishaps \in Nat
    BY <1>1, <2>3, FS_CardinalityType, FileAssumption DEF May
  <2>5. IsFiniteSet(S \ {kind}) /\ Cardinality(S \ {kind}) = Cardinality(S) - 1
    BY <2>3, FS_RemoveElement
  <2>6. Cardinality(S \ {kind}) \in Nat
    BY <2>5, FS_CardinalityType
  <2>7. Cardinality(S \ {kind}) = 0
    BY <2>4, <2>5, <2>6
  <2>8. S \ {kind} = {}
    BY <2>5, <2>7, FS_EmptySet
  <2> QED BY <2>8
<1>2. CASE mishaps' = mishaps
  BY <1>2 DEF Single
<1>3. CASE \E kind \in Mishaps : May(kind) /\ mishaps' = mishaps \cup {kind}
  <2>1. PICK kind \in Mishaps : May(kind) /\ mishaps' = mishaps \cup {kind}
    BY <1>3
  <2> QED BY <1>1, <2>1 DEF Single
<1>4. CASE CompressBlock
  <2>1. PICK data \in Reads : mishaps' = mishaps \cup (IF data = Available THEN {} ELSE {"short"})
    BY <1>4 DEF CompressBlock
  <2>2. PICK k \in 1 .. Len(Available) : (k = Len(Available) \/ May("short")) /\ data = SubSeq(Available, 1, k)
    BY <2>1 DEF Reads
  <2>3. Available \in Seq(Int)
    BY <1>4, ReadTypes DEF CompressBlock, Types, TypeOK, Present, Compressing
  <2>4. data = Available \/ May("short")
    BY <2>2, <2>3, SubSeqFull
  <2>5. mishaps' = mishaps \/ (May("short") /\ mishaps' = mishaps \cup {"short"})
    BY <2>1, <2>4
  <2>6. "short" \in Mishaps
    BY DEF Mishaps
  <2> QED BY <1>2, <1>3, <2>5, <2>6
<1>5. CASE FlushArchive
  <2>1. ~werr
    BY <1>5 DEF FlushArchive, Contents, Reading
  <2>2. mishaps' = mishaps \/ (May("compressFlush") /\ mishaps' = mishaps \cup {"compressFlush"})
    <3>1. CASE Flushed(arch, arch', TRUE) /\ wbuf' = <<>> /\ werr' = werr
      <4>1. ~werr'
        BY <2>1, <3>1
      <4>2. mishaps' = mishaps \cup {}
        BY <1>5, <4>1 DEF FlushArchive
      <4> QED BY <4>2
    <3>2. CASE WriteFailed("compressFlush", arch, arch', TRUE) /\ Ignore
      <4>1. May("compressFlush")
        BY <2>1, <3>2 DEF WriteFailed
      <4>2. werr' = TRUE
        BY <3>2 DEF Ignore
      <4>3. mishaps' = mishaps \cup {"compressFlush"}
        BY <1>5, <4>2 DEF FlushArchive
      <4> QED BY <4>1, <4>3
    <3> QED BY <1>5, <3>1, <3>2 DEF FlushArchive
  <2>3. "compressFlush" \in Mishaps
    BY DEF Mishaps
  <2> QED BY <1>2, <1>3, <2>2, <2>3
<1>6. CASE Grow \/ Shrink \/ Damage \/ PowerFails
  BY <1>3, <1>6 DEF Grow, Shrink, Damage, PowerFails, Mishap, Mishaps
<1>7. CASE RunCompress \/ RunDecompress \/ CreateArchive \/ WriteHeader \/ CompressReadFails \/ WriteHash
           \/ RemoveInput \/ Decompress \/ Kill \/ UNCHANGED vars
  BY <1>2, <1>7 DEF RunCompress, RunDecompress, CreateArchive, WriteHeader, CompressReadFails, WriteHash,
         RemoveInput, Decompress, RefuseArchive, CreateOutput, DecompressBlock, DecompressReadFails,
         DecompressPanics, FlushOutput, ReadHash, CheckHash, Kill, world, vars
<1> QED BY <1>4, <1>5, <1>6, <1>7 DEF Next, Compress, Outside, Rest

(* A whole archive gives original back.                                    *)
LEMMA WholeIntact ==
  ASSUME Fits, Types, arch # Absent, NEW k \in OwnKeys, Whole(arch, k)
  PROVE  Intact(arch)
<1> DEFINE l == Len(original)
<1>1. /\ Len(arch) = Count(l) + 2 /\ arch[1] = Header(l, k)
      /\ \A b \in 1 .. Count(l) : arch[b + 1] = Block(Piece(b), k)
      /\ arch[Count(l) + 2] = Hash(original, k)
  BY DEF Whole
<1>2. Count(l) \in Nat /\ Upto(Count(l)) = l
  BY Sizes DEF Types
<1>3. arch[1].kind = "header" /\ arch[1].blocks = Count(l)
  BY <1>1 DEF Header
<1>4. arch # <<>>
  BY <1>1, <1>2
<1>5. ASSUME NEW b \in 1 .. Count(l) PROVE Decoded(arch[1], b - 1, arch[b + 1], "right") = Piece(b)
  <2>1. b - 1 \in 0 .. Count(l) - 1 /\ (b - 1) + 1 = b
    BY <1>2
  <2>2. "right" \in Keys /\ k \in {"none", "right"}
    BY DEF Keys, OwnKeys
  <2> QED BY <1>1, <2>1, <2>2, Pieces DEF Types
<1>6. arch[Count(l) + 2].kind = "hash" /\ arch[Count(l) + 2].sum = original
  BY <1>1 DEF Hash
<1> QED BY <1>1, <1>2, <1>3, <1>4, <1>5, <1>6 DEF Intact

(* What the invariant says of one state.                                   *)
LEMMA InvariantTells ==
  ASSUME Fits, Creatable, IInv
  PROVE  /\ Recoverable /\ AcceptsOwnArchive
         /\ Single => SuccessIsTrue
<1>1. Types /\ Contents
  BY DEF IInv
<1>2. Single => SuccessIsTrue
  BY <1>1, HashTells DEF Contents, SuccessIsTrue
<1>3. ASSUME mishaps = {} PROVE Archive /\ Reading /\ Writing /\ Kept /\ Clean
  BY <1>1, <1>3 DEF Contents, Single, Clean, Mishaps
<1>4. ASSUME mishaps = {} PROVE Lossless
  <2>1. CASE f = original
    <3>1. original \in Seq(Int) /\ original # Absent
      BY <1>1, OriginFacts, FileAssumption DEF Types
    <3>2. Len(original) <= Len(original)
      BY <3>1, LenProperties
    <3> QED BY <2>1, <3>1, <3>2 DEF Lossless, IsPrefix
  <2>2. CASE archived /\ arch # Absent
    <3>1. PICK k \in OwnKeys : Whole(arch, k)
      BY <1>3, <1>4, <2>2 DEF Kept
    <3> QED BY <1>1, <2>2, <3>1, WholeIntact DEF Lossless
  <2>3. f = original \/ (archived /\ arch # Absent)
    BY <1>1, <1>3, <1>4 DEF Types, TypeOK, Present, Steps, Reading, Writing, Kept, Compressing, Decompressing
  <2> QED BY <2>1, <2>2, <2>3
<1>5. ASSUME pc = "check", mishaps = {}, arch[1].key \in {"none", key}
      PROVE  HashFound /\ (buffer64 = NoSum \/ HashAgrees)
  <2>1. archived /\ arch # Absent /\ i = arch[1].blocks /\ Output
    BY <1>1, <1>3, <1>5 DEF Types, Present, Writing, Decompressing, Decoding
  <2>2. PICK k \in OwnKeys : Whole(arch, k)
    BY <1>3, <1>5, <2>1 DEF Kept
  <2>3. /\ Len(arch) = Count(Len(original)) + 2 /\ arch[1] = Header(Len(original), k)
        /\ arch[Count(Len(original)) + 2] = Hash(original, k)
    BY <2>2 DEF Whole
  <2>4. arch[1].key = k /\ arch[1].blocks = Count(Len(original))
    BY <2>3 DEF Header
  <2>5. hashed = original
    BY <1>1, <1>5, <2>1, <2>4, Pieces DEF Output, Types
  <2>6. Count(Len(original)) \in Nat
    BY <1>1, Sizes DEF Types
  <2>7. /\ HashPlace = Count(Len(original)) + 2 /\ Len(arch) >= HashPlace
        /\ arch[HashPlace].kind = "hash" /\ arch[HashPlace].key = k /\ arch[HashPlace].sum = original
    BY <2>3, <2>4, <2>6 DEF HashPlace, Hash
  <2>8. HashFound
    BY <1>5, <2>4, <2>7 DEF HashFound
  <2>9. Compared
    BY <1>3, <1>5 DEF Writing
  <2> QED BY <2>5, <2>7, <2>8, <2>9 DEF Compared, HashAgrees
<1> QED BY <1>2, <1>4, <1>5 DEF Recoverable, AcceptsOwnArchive

-----------------------------------------------------------------------------
(* The theorems.                                                           *)

(* Every variable keeps its type, nothing stays buffered between runs, and *)
(* the read loop handles no more blocks than announced (main.go 399 to     *)
(* 663), whatever fails and however often.                                 *)
THEOREM TypeCorrect == Spec => []TypeOK
<1>1. Types => TypeOK
  BY DEF Types
<1> QED BY <1>1, TypesInit, TypesStep, PTL DEF Spec

(* The inductive invariant of the two commands (main.go 133 to 663).       *)
THEOREM Invariance ==
  ASSUME Fits, Creatable
  PROVE  Spec => []IInv
<1>1. Init => IInv
  BY TypesInit, ContentsInit DEF IInv
<1>2. IInv /\ [Next]_vars => IInv'
  BY TypesStep, ContentsStep DEF IInv
<1> QED BY <1>1, <1>2, PTL DEF Spec

(* At every moment until a mishap, f or a complete archive holds all the   *)
(* bytes, so a run may be killed or fail anywhere (the order of writing,   *)
(* flushing and os.Remove in main.go).                                     *)
THEOREM RecoverableCorrect ==
  ASSUME Fits, Creatable
  PROVE  Spec => []Recoverable
<1>1. IInv => Recoverable
  BY InvariantTells
<1> QED BY <1>1, Invariance, PTL

(* The archive of a complete compression passes the hash check (main.go    *)
(* 360 to 389), with the right key, whatever was killed in between.        *)
THEOREM AcceptsCorrect ==
  ASSUME Fits, Creatable
  PROVE  Spec => []AcceptsOwnArchive
<1>1. IInv => AcceptsOwnArchive
  BY InvariantTells
<1> QED BY <1>1, Invariance, PTL

(* If the hash check passes, and the archive is therefore removed, the     *)
(* output holds the original bytes, whatever single kind of mishap there   *)
(* was (main.go 360 to 389).                                               *)
THEOREM SuccessCorrect ==
  ASSUME Fits, Creatable, MaxMishaps <= 1
  PROVE  Spec => []SuccessIsTrue
<1>1. Init => Single
  BY DEF Init, Single, Mishaps
<1>2. IInv /\ Single /\ [Next]_vars => Single'
  BY SingleStep DEF IInv
<1>3. IInv /\ Single => SuccessIsTrue
  BY InvariantTells
<1> QED BY <1>1, <1>2, <1>3, Invariance, PTL DEF Spec
=============================================================================
