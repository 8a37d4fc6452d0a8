---------------------------- MODULE FileLifecycle ----------------------------
(***************************************************************************)
(* What the two commands of main.go do to the files they work on.          *)
(*                                                                         *)
(* There is one file f and its archive f.ajz.  Runs of the program follow  *)
(* one another: `ajz f' compresses (main.go 399 to 663), `ajz -d f.ajz'    *)
(* decompresses (133 to 389), with or without -k and -keyfile; a run can   *)
(* be killed between any two steps, and disk operations can fail where     *)
(* Faults says so.  Bytes written are first kept by a bufio.Writer and     *)
(* reach the file when the buffer spills or is flushed; nothing is synced, *)
(* so a power failure may cut off the end of what was written.  Another    *)
(* process may append to f or cut it while it is compressed, a read may    *)
(* return fewer bytes than asked for, and an archive may be damaged.       *)
(*                                                                         *)
(* A byte of f is a number and the archive a sequence of records: header,  *)
(* blocks, hash.  The pools are taken at their specification               *)
(* (OrderedPipe): blocks leave in order and all of them before the end, so *)
(* one step here reads, encodes and writes one block.  A hash is the       *)
(* sequence of bytes it was fed.                                           *)
(***************************************************************************)
EXTENDS Integers, Sequences, FiniteSets, SequencesExt

CONSTANTS Lengths,      \* lengths of f to consider
          BlockSize,    \* -b
          CountMod,     \* block counts are uint32: taken modulo CountMod
          Faults,       \* what can go wrong (see AllFaults)
          MaxRuns,      \* bound on the number of runs of the program
          MaxMishaps,   \* bound on the kinds of mishaps in one behaviour
          Absent,       \* the content of a file that does not exist
          NoSum         \* eight bytes that are the hash of no file considered here

AllFaults == {"spill", "compressFlush", "decompressFlush", "create", "read", "kill",
              "short", "grow", "shrink", "damage", "power"}

\* those that no code can make up for, and a flush whose failure is ignored
Mishaps == {"short", "grow", "shrink", "damage", "power", "compressFlush"}

Garbage == -1                                  \* a byte decoded with the wrong key
Damaged == -2                                  \* a byte of a damaged archive
Appended == -3                                 \* a byte another process appended to f
Keys == {"none", "right", "wrong"}
OwnKeys == {"none", "right"}                   \* those an archive is written with

\* the records of an archive; a header whose magic bytes are damaged is no header
Records ==
  [kind : {"header", "magic"}, blocks : Nat, remainder : Nat, sound : BOOLEAN, key : OwnKeys]
    \cup [kind : {"block"}, data : Seq(Int), key : OwnKeys]
    \cup [kind : {"hash"}, sum : Seq(Int), key : OwnKeys]

ASSUME FileAssumption ==
  /\ Lengths \subseteq Nat /\ BlockSize \in Nat \ {0} /\ CountMod \in Nat \ {0}
  /\ Faults \subseteq AllFaults /\ MaxRuns \in Nat /\ MaxMishaps \in Nat
  /\ Absent \notin Seq(Int) /\ Absent \notin Seq(Records) /\ NoSum \notin Seq(Int)

VARIABLES
  original,     \* what f held in the beginning
  f, arch,      \* contents of the two files
  archived,     \* the last compression of f ran to its end
  pc, key, keep, runs,
  buffer64,     \* decompression: what is compared with the hash of the bytes decoded
  written,      \* the files this program wrote, whose bytes may not be on the disk yet
  mishaps,      \* the kinds of mishaps so far
  size,         \* os.Stat before the read loop
  i, hashed,    \* blocks done, bytes fed to the hash
  wbuf, werr,   \* bufio.Writer: buffered and not yet in the file; sticky error
  created       \* decompression: os.Create of the output succeeded

files == <<original, f, arch>>
run == <<key, keep, runs, buffer64>>
world == <<written, mishaps>>
vars == <<files, archived, pc, run, world, size, i, hashed, wbuf, werr, created>>

\* a fault may happen
May(fault) ==
  /\ fault \in Faults
  /\ fault \in Mishaps => Cardinality(mishaps \cup {fault}) <= MaxMishaps

-----------------------------------------------------------------------------
(* Layout of the archive.                                                  *)

\* bug: a short last block is not counted
CountFull(s) == (s \div BlockSize) % CountMod

\* numBlocks := uint32(size / bufferSize), numBlocks++ if there is a remainder
Count(s) == LET q == (s \div BlockSize) % CountMod IN
            IF s % BlockSize # 0 THEN (q + 1) % CountMod ELSE q

\* sound: the block size, the salt and the reference alphabet are what they were
Header(s, k) ==
  [kind |-> "header", blocks |-> Count(s), remainder |-> s % BlockSize, sound |-> TRUE, key |-> k]
Block(d, k) == [kind |-> "block", data |-> d, key |-> k]
Hash(h, k) == [kind |-> "hash", sum |-> h, key |-> k]

\* f as it is now, from where the last read ended, up to a block
Available == SubSeq(f, Len(hashed) + 1, Min({Len(f), Len(hashed) + BlockSize}))

\* what one reader.Read(buf) may return: all that is available, or only some
Reads ==
  { SubSeq(Available, 1, m) :
      m \in {k \in 1 .. Len(Available) : k = Len(Available) \/ May("short")} }

\* the length main asks the decoder for
BlockLength(h, b) == IF b = h.blocks - 1 /\ h.remainder > 0 THEN h.remainder ELSE BlockSize

\* a block decodes to its data if key, length and header are those it was encoded with
Decodes(h, b, rec, k) ==
  /\ rec.kind = "block" /\ h.sound
  /\ rec.key \in {"none", k} /\ Len(rec.data) = BlockLength(h, b)

Decoded(h, b, rec, k) ==
  IF Decodes(h, b, rec, k) THEN rec.data ELSE [x \in 1 .. BlockLength(h, b) |-> Garbage]

\* the bytes of `original' in its first b blocks: how many, and those of the last
Upto(b) == Min({b * BlockSize, Len(original)})
Piece(b) == SubSeq(original, Upto(b - 1) + 1, Upto(b))

\* a holds all of `original', and its key gives it back
Intact(a) ==
  /\ a # Absent /\ a # <<>>
  /\ a[1].kind = "header"
  /\ LET h == a[1] IN
     /\ Len(a) = h.blocks + 2 /\ Upto(h.blocks) = Len(original)
     /\ \A b \in 1 .. h.blocks : Decoded(h, b - 1, a[b + 1], "right") = Piece(b)
     /\ a[h.blocks + 2].kind = "hash" /\ a[h.blocks + 2].sum = original

-----------------------------------------------------------------------------
(* bufio.Writer, over a file whose content before and after is old and     *)
(* new; open says whether os.Create gave a file at all.                    *)

\* Write(d): d is buffered, perhaps after the buffer was emptied into the file
Written(d, old, new, open) ==
  /\ ~werr /\ werr' = werr
  /\ \/ wbuf' = wbuf \o d /\ new = old
     \/ open /\ wbuf # <<>> /\ new = old \o wbuf /\ wbuf' = d

\* Emptying the buffer fails, part of it written; or an earlier error is reported again
WriteFailed(fault, old, new, open) ==
  \/ werr /\ new = old
  \/ /\ ~werr /\ wbuf # <<>> /\ (May(fault) \/ ~open)
     /\ \E m \in 0 .. Len(wbuf) - 1 :
          new = IF open THEN old \o SubSeq(wbuf, 1, m) ELSE old

Flushed(old, new, open) ==
  /\ ~werr /\ (open \/ wbuf = <<>>)
  /\ new = IF wbuf = <<>> THEN old ELSE old \o wbuf

\* the caller only prints the error
Ignore == wbuf' = wbuf /\ werr' = TRUE

\* the process ends: what is still in the buffer is lost
Exit == pc' = "idle" /\ wbuf' = <<>> /\ werr' = FALSE

-----------------------------------------------------------------------------
Init ==
  /\ original \in { [x \in 1 .. l |-> x] : l \in Lengths }
  /\ f = original /\ arch = Absent /\ archived = FALSE
  /\ pc = "idle" /\ key = "none" /\ keep = FALSE /\ runs = 0 /\ buffer64 = NoSum
  /\ written = {} /\ mishaps = {}
  /\ size = 0 /\ i = 0 /\ hashed = <<>>
  /\ wbuf = <<>> /\ werr = FALSE /\ created = FALSE

(* The user compresses the file they want to keep.                         *)
RunCompress ==
  /\ pc = "idle" /\ runs < MaxRuns /\ f = original
  /\ keep' \in BOOLEAN /\ key' \in {"none", "right", "missing"}
  /\ runs' = runs + 1 /\ buffer64' = NoSum
  /\ size' = Len(f) /\ i' = 0 /\ hashed' = <<>>
  /\ pc' = "create"
  /\ UNCHANGED <<files, archived, world, wbuf, werr, created>>

\* os.Create(filename + suffix): an archive that was there is emptied
CreateArchive ==
  /\ pc = "create"
  /\ \/ arch' = <<>> /\ archived' = FALSE /\ written' = written \cup {"arch"} /\ pc' = "header"
     \/ "create" \in Faults /\ pc' = "idle" /\ UNCHANGED <<arch, archived, written>>
  /\ UNCHANGED <<original, f, run, mishaps, size, i, hashed, wbuf, werr, created>>

\* The header fits in the empty buffer.  Without the key that -enc needs the run ends here.
\* That Peek may already read the start of f is left out, as with -noref.
WriteHeader ==
  /\ pc = "header"
  /\ IF key = "missing" THEN Exit
     ELSE pc' = "block" /\ wbuf' = <<Header(size, key)>> /\ werr' = werr
  /\ UNCHANGED <<files, archived, run, world, size, i, hashed, created>>

\* bug: the loop runs once too often
BlockTooMany ==
  /\ pc = "block" /\ i <= Count(size)
  /\ \E data \in Reads :
       /\ hashed' = hashed \o data
       /\ mishaps' = mishaps \cup (IF data = Available THEN {} ELSE {"short"})
       /\ \/ Written(<<Block(data, key)>>, arch, arch', TRUE)
          \/ WriteFailed("spill", arch, arch', TRUE) /\ Ignore
  /\ i' = i + 1
  /\ UNCHANGED <<original, f, archived, pc, run, written, size, created>>

\* one block read, hashed, encoded and written; a write error is only printed
CompressBlock ==
  /\ pc = "block" /\ i < Count(size)
  /\ \E data \in Reads :
       /\ hashed' = hashed \o data
       /\ mishaps' = mishaps \cup (IF data = Available THEN {} ELSE {"short"})
       /\ \/ Written(<<Block(data, key)>>, arch, arch', TRUE)
          \/ WriteFailed("spill", arch, arch', TRUE) /\ Ignore
  /\ i' = i + 1
  /\ UNCHANGED <<original, f, archived, pc, run, written, size, created>>

\* a read fails, or there is nothing left to read: the run ends without the hash
CompressReadFails ==
  /\ pc = "block" /\ i < Count(size)
  /\ "read" \in Faults \/ Available = <<>>
  /\ Exit
  /\ UNCHANGED <<files, archived, run, world, size, i, hashed, created>>

\* bug: a failed last write is tried again, though bufio errors are sticky
HashRetried ==
  /\ pc = "block" /\ i >= Count(size)
  /\ \/ Written(<<Hash(hashed, key)>>, arch, arch', TRUE) /\ pc' = "flush"
     \/ WriteFailed("spill", arch, arch', TRUE) /\ Ignore /\ pc' = pc
  /\ UNCHANGED <<original, f, archived, run, world, size, i, hashed, created>>

\* the hash, whose write error ends the run
WriteHash ==
  /\ pc = "block" /\ i >= Count(size)
  /\ \/ Written(<<Hash(hashed, key)>>, arch, arch', TRUE) /\ pc' = "flush"
     \/ WriteFailed("spill", arch, arch', TRUE) /\ Exit
  /\ UNCHANGED <<original, f, archived, run, world, size, i, hashed, created>>

\* writer.Flush(): an error is printed, and the run goes on
FlushArchive ==
  /\ pc = "flush"
  /\ \/ Flushed(arch, arch', TRUE) /\ wbuf' = <<>> /\ werr' = werr
     \/ WriteFailed("compressFlush", arch, arch', TRUE) /\ Ignore
  /\ mishaps' = mishaps \cup (IF werr' THEN {"compressFlush"} ELSE {})
  /\ pc' = "remove"
  /\ UNCHANGED <<original, f, archived, run, written, size, i, hashed, created>>

\* os.Remove(filename) without -k
RemoveInput ==
  /\ pc = "remove"
  /\ f' = IF keep THEN f ELSE Absent
  /\ archived' = TRUE
  /\ Exit
  /\ UNCHANGED <<original, arch, run, world, size, i, hashed, created>>

-----------------------------------------------------------------------------
(* The user decompresses an archive whose compression ran to its end.      *)
RunDecompress ==
  /\ pc = "idle" /\ runs < MaxRuns /\ arch # Absent /\ archived
  /\ keep' \in BOOLEAN /\ key' \in Keys
  /\ runs' = runs + 1 /\ buffer64' = NoSum      \* eight zeros
  /\ i' = 0 /\ hashed' = <<>>
  /\ pc' = "open"
  /\ UNCHANGED <<files, archived, world, size, wbuf, werr, created>>

\* what the run demands of an archive before it touches f: the magic bytes, a
\* whole header, and a key if the archive is encrypted
Acceptable ==
  /\ arch # <<>> /\ arch[1].kind = "header"
  /\ arch[1].key = "none" \/ key # "none"

\* the run ends; so it does if a damaged block size is too large for the cache
RefuseArchive ==
  /\ pc = "open" /\ ~(Acceptable /\ arch[1].sound)
  /\ Exit
  /\ UNCHANGED <<files, archived, run, world, size, i, hashed, created>>

\* os.Create(fname): f is emptied; an error is not looked at
CreateOutput ==
  /\ pc = "open" /\ Acceptable
  /\ \/ f' = <<>> /\ created' = TRUE /\ written' = written \cup {"f"}
     \/ "create" \in Faults /\ created' = FALSE /\ UNCHANGED <<f, written>>
  /\ pc' = "decode"
  /\ UNCHANGED <<original, arch, archived, run, mishaps, size, i, hashed, wbuf, werr>>

\* One block read, decoded, written and hashed.  After a damaged block count
\* the hash may be taken for a block.
DecompressBlock ==
  /\ pc = "decode" /\ i < arch[1].blocks /\ Len(arch) >= i + 2
  /\ LET d == Decoded(arch[1], i, arch[i + 2], key) IN
     /\ hashed' = hashed \o d
     /\ \/ Written(d, f, f', created)
        \/ WriteFailed("spill", f, f', created) /\ Ignore
  /\ i' = i + 1
  /\ UNCHANGED <<original, arch, archived, pc, run, world, size, created>>

\* the archive ends early, or cannot be read: the run ends, without a flush
DecompressReadFails ==
  /\ pc = "decode" /\ i < arch[1].blocks
  /\ "read" \in Faults \/ ~(Len(arch) >= i + 2 /\ arch[i + 2].kind = "block")
  /\ Exit
  /\ UNCHANGED <<files, archived, run, world, size, i, hashed, created>>

\* The process dies: nobody recovers when the decoder panics in a clear archive,
\* when a damaged remainder leads out of the buffer, or a block size is zero.
DecompressPanics ==
  /\ pc = "decode" /\ i < arch[1].blocks /\ Len(arch) >= i + 2
  /\ Decodes(arch[1], i, arch[i + 2], key) => Damaged \in ToSet(arch[i + 2].data)
  /\ arch[1].key = "none" \/ BlockLength(arch[1], i) > BlockSize \/ ~arch[1].sound
  /\ Exit
  /\ UNCHANGED <<files, archived, run, world, size, i, hashed, created>>

\* bug: the error of the flush is printed and the run goes on
OutputErrorIgnored ==
  /\ pc = "decode" /\ i >= arch[1].blocks
  /\ \/ Flushed(f, f', created) /\ wbuf' = <<>> /\ werr' = werr
     \/ WriteFailed("decompressFlush", f, f', created) /\ Ignore
  /\ pc' = "hash"
  /\ UNCHANGED <<original, arch, archived, run, world, size, i, hashed, created>>

\* writer.Flush(): an error ends the run
FlushOutput ==
  /\ pc = "decode" /\ i >= arch[1].blocks
  /\ \/ Flushed(f, f', created) /\ wbuf' = <<>> /\ werr' = werr /\ pc' = "hash"
     \/ WriteFailed("decompressFlush", f, f', created) /\ Exit
  /\ UNCHANGED <<original, arch, archived, run, world, size, i, hashed, created>>

\* the hash is where it is looked for, and the key is the one it was encrypted with
HashPlace == arch[1].blocks + 2
HashFound ==
  /\ Len(arch) >= HashPlace /\ arch[HashPlace].kind = "hash"
  /\ arch[HashPlace].key \in {"none", key}

\* bug: the hash of the bytes decoded is put into the buffer before the read
ReadOverComputed ==
  /\ pc = "hash"
  /\ \/ Len(arch) >= HashPlace /\ buffer64' = IF HashFound THEN arch[HashPlace].sum ELSE NoSum
     \/ /\ "read" \in Faults \/ Len(arch) < HashPlace
        /\ buffer64' = IF arch[1].key = "none" THEN hashed ELSE NoSum
  /\ pc' = "check"
  /\ UNCHANGED <<files, archived, key, keep, runs, world, size, i, hashed, wbuf, werr, created>>

\* io.ReadFull(reader, buffer64), and its decryption.  An error is only printed:
\* the buffer stays as it was, or becomes what decryption makes of it.
ReadHash ==
  /\ pc = "hash"
  /\ \/ Len(arch) >= HashPlace /\ buffer64' = IF HashFound THEN arch[HashPlace].sum ELSE NoSum
     \/ /\ "read" \in Faults \/ Len(arch) < HashPlace
        /\ buffer64' = IF arch[1].key = "none" THEN buffer64 ELSE NoSum
  /\ pc' = "check"
  /\ UNCHANGED <<files, archived, key, keep, runs, world, size, i, hashed, wbuf, werr, created>>

\* hasher.Sum64() == binary.BigEndian.Uint64(buffer64)
HashAgrees == buffer64 = hashed

\* bug: the archive is removed whatever the hash says
RemoveUnchecked ==
  /\ pc = "check"
  /\ arch' = IF ~keep THEN Absent ELSE arch
  /\ Exit
  /\ UNCHANGED <<original, f, archived, run, world, size, i, hashed, created>>

\* success: os.Remove(filename) without -k; failure: the archive is kept
CheckHash ==
  /\ pc = "check"
  /\ arch' = IF HashAgrees /\ ~keep THEN Absent ELSE arch
  /\ Exit
  /\ UNCHANGED <<original, f, archived, run, world, size, i, hashed, created>>

-----------------------------------------------------------------------------
Kill ==
  /\ pc # "idle" /\ "kill" \in Faults
  /\ Exit
  /\ UNCHANGED <<files, archived, run, world, size, i, hashed, created>>

-----------------------------------------------------------------------------
(* What others do: each of these at most once, which bounds the model.     *)

Mishap(kind) == May(kind) /\ kind \notin mishaps /\ mishaps' = mishaps \cup {kind}

\* another process appends to f while it is compressed
Grow ==
  /\ pc \in {"create", "header", "block"} /\ Mishap("grow")
  /\ f' = Append(f, Appended)
  /\ UNCHANGED <<original, arch, archived, pc, run, written, size, i, hashed, wbuf, werr, created>>

\* another process cuts f while it is compressed
Shrink ==
  /\ pc \in {"create", "header", "block"} /\ Mishap("shrink")
  /\ \E l \in 0 .. Len(f) - 1 : f' = SubSeq(f, 1, l)
  /\ UNCHANGED <<original, arch, archived, pc, run, written, size, i, hashed, wbuf, werr, created>>

\* the forms a damaged record may take.  A block keeps its length: one that shifts
\* what follows shows as a failed read, or as a panic.
DamagedForms(rec) ==
  CASE rec.kind \in {"header", "magic"} ->
         { [rec EXCEPT !.kind = "magic"], [rec EXCEPT !.sound = FALSE] }
           \cup { [rec EXCEPT !.blocks = c] : c \in 0 .. rec.blocks + 1 }
           \cup { [rec EXCEPT !.remainder = m] : m \in 0 .. BlockSize + 1 }
    [] rec.kind = "block" -> { [rec EXCEPT !.data = [x \in DOMAIN rec.data |-> Damaged]] }
    [] rec.kind = "hash" -> { [rec EXCEPT !.sum = <<Damaged>>] }

\* one record of the archive is damaged while no run is at work
Damage ==
  /\ pc = "idle" /\ arch # Absent /\ Mishap("damage")
  /\ \E k \in DOMAIN arch : \E rec \in DamagedForms(arch[k]) : arch' = [arch EXCEPT ![k] = rec]
  /\ UNCHANGED <<original, f, archived, pc, run, written, size, i, hashed, wbuf, werr, created>>

\* what a power failure leaves of a file
Survives(content, new, file) ==
  IF content = Absent \/ file \notin written THEN new = content
  ELSE \E l \in 0 .. Len(content) : new = SubSeq(content, 1, l)

PowerFails ==
  /\ Mishap("power")
  /\ Survives(f, f', "f") /\ Survives(arch, arch', "arch")
  /\ Exit
  /\ UNCHANGED <<original, archived, run, written, size, i, hashed, created>>

Outside == Kill \/ Grow \/ Shrink \/ Damage \/ PowerFails

-----------------------------------------------------------------------------
Compress == \/ CreateArchive \/ WriteHeader \/ CompressBlock \/ CompressReadFails
            \/ WriteHash \/ FlushArchive \/ RemoveInput
Decompress == \/ RefuseArchive \/ CreateOutput \/ DecompressBlock \/ DecompressReadFails
              \/ DecompressPanics \/ FlushOutput \/ ReadHash \/ CheckHash

\* users may stop at any time
Rest == pc = "idle" /\ UNCHANGED vars

Next == RunCompress \/ RunDecompress \/ Compress \/ Decompress \/ Outside \/ Rest

Spec == Init /\ [][Next]_vars

(* A run of the program goes on until it ends; users owe nothing.          *)
FairSpec == Spec /\ WF_vars(Compress \/ Decompress)

-----------------------------------------------------------------------------
(* Properties.                                                             *)

Steps == {"idle", "create", "header", "block", "flush", "remove", "open", "decode", "hash", "check"}

(* Every variable has its type, nothing stays buffered between runs, and   *)
(* the read loop handles no more blocks than the header announced.         *)
TypeOK ==
  /\ f = Absent \/ f \in Seq(Int)
  /\ arch = Absent \/ arch \in Seq(Records)
  /\ wbuf \in (IF pc = "decode" THEN Seq(Int) ELSE Seq(Records))
  /\ archived \in BOOLEAN /\ keep \in BOOLEAN /\ created \in BOOLEAN /\ werr \in BOOLEAN
  /\ pc \in Steps /\ key \in Keys \cup {"missing"} /\ runs \in 0 .. MaxRuns
  /\ written \subseteq {"f", "arch"} /\ mishaps \subseteq Mishaps
  /\ size \in Nat /\ i \in Nat /\ hashed \in Seq(Int)
  /\ buffer64 = NoSum \/ buffer64 \in Seq(Int)
  /\ pc = "block" => i <= Count(size)
  /\ pc = "idle" => wbuf = <<>> /\ ~werr

(* "Lossless": f holds the original bytes, perhaps with others appended,   *)
(* or f.ajz holds all of them.                                             *)
Lossless == (f # Absent /\ IsPrefix(original, f)) \/ Intact(arch)

(* This is so at every moment, also between the steps of a run that may be *)
(* killed there, until a mishap.                                           *)
Recoverable == mishaps = {} => Lossless

(* The hash agrees only if the output file holds the original bytes, so    *)
(* the archive is removed only then: whether bytes were read short,        *)
(* changed, cut off or damaged, or the hash itself could not be read, no   *)
(* loss goes unnoticed (one mishap at a time: f can be changed twice, so   *)
(* that all its bytes stay hashed, and a block damaged with the hash).     *)
SuccessIsTrue == pc = "check" /\ HashAgrees => f = original

(* An archive of a complete compression is accepted, unless there was a    *)
(* mishap: with the right key (or none needed) the hash is found where it  *)
(* is looked for, and agrees if it could be read.                          *)
AcceptsOwnArchive ==
  pc = "check" /\ mishaps = {} /\ arch[1].key \in {"none", key} =>
    HashFound /\ (buffer64 = NoSum \/ HashAgrees)

(* Whatever fails, no run hangs.                                           *)
EveryRunEnds == pc # "idle" ~> pc = "idle"
=============================================================================
