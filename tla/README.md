# A verification project for ajz

`ajz` (the repository's `main.go` and its packages `compressor`, `decompressor`
and `util`) compresses a file block by block. A block is turned into the set of
positions of each of its byte values, and each set into its rank among all sets
of its size: a number below a binomial coefficient, written with just as many
bits as that coefficient has. Ranks can be encrypted without growing, by
addition modulo the coefficient. This directory holds TLA+ models of the
program, their TLC configurations, and proofs for TLAPS.

Source paths below are relative to the repository; a bare `main.go:607` is a
line of it.

## 1. The system

| Component | State | Operations | Talks to |
|---|---|---|---|
| Command line and files (`main.go` 79–230, 366–523, 641–663) | the input file, the archive, two `bufio` buffers and their sticky errors, `-k`, `-keyfile`, `-enc` | one run compresses `f` to `f.ajz`, or decompresses it; header, blocks, hash, flush, remove | the file system; starts the pools |
| Compress pool (`main.go` 524–642) | channels `freeBatches`, `jobs`, `results`; batches; `pending`, `next`; the running hash | the main goroutine reads, `-jobs` workers encode, a closer closes `results`, a collector reorders and writes | three buffered channels in a cycle, `close`, a `WaitGroup`, `collectorDone` |
| Decompress pool (`main.go` 230–364) | the same, with recycled *output* buffers, and the hash in the collector | as above; the panic of an encrypted block is recovered, that of a clear one ends the process | as above |
| Block encoder (`compressor/`) | `blockScratch` from a `sync.Pool`: counts, positions, `toRemove`, bit writer | alphabet, most frequent byte, count width, then count and rank of each value | binomial cache, bit writer, cipher |
| Block decoder (`decompressor/`) | `blockScratch`: bit reader, alphabet, `unoccupied` set | the inverse; with a wrong key it refuses, panics or decodes garbage | binomial cache, bit reader, cipher |
| Combinadic arithmetic (`util/binomial.go`, `rank`, `rankHockeyStick`, `unrank`, `ReduceIndexSet`) | the cache of half-diagonals, written once before the goroutines start | rank and unrank of sets of positions | used by both sides |
| Field cipher and nonces (`util/cipher.go`, `util/nonce.go`) | none | add or subtract a keystream value; nonce of a field | keystream |
| Bit writer and reader (`util/util.go`) | byte slice, 64-bit accumulator, position; writers live in the encoder's `sync.Pool` | append and read fields of 1 to 56 bits, big integers; flush; copy out | codec |
| Keystream generators (`util/keystream.go`) | none | SHA-256, AES-CTR or ChaCha20 reduced to a modulus | cipher |
| Experiments, tests | none of the system's | measure, check | |

What is hard here:

* **Concurrency.** Batches circulate through a free list; their buffers are
  protected by nothing but the rule that a batch has one holder at a time.
  Workers finish in any order, the file must be written in order. Channels are
  closed by goroutines that do not own the senders. Three bounded channels form a
  cycle, so that a full one could make everyone wait on everyone.
* **Failure.** A read may fail in the middle of a batch, a write or a flush may
  fail, the program or the machine may die at any point, another process may
  change the file that is being read; the input is deleted at the end.
  A wrong key makes a decoder panic in a worker, which must go on; a damaged clear
  archive makes it panic too, and the process dies in the middle.
* **Numbers.** A rank starts in a `uint64` and moves to a big integer when it no
  longer fits. Fields have exactly the width of their modulus. Counts have the
  width of the largest one that is *sent*. Block counts have 32 bits.
* **Memory that is reused.** Encoder, decoder and batches keep what the last
  block left; the decoder's sets grow and never shrink. A packed block is at first a
  slice of a pooled buffer that the next block, on any goroutine, overwrites.

For each component, what makes it correct:

* pools: blocks leave in file order and exactly once, each with the nonces of its
  own index; no batch has two holders; the join comes after the last block;
  nothing waits for ever, whatever fails;
* files: at every moment one of the two files holds the original bytes; a run that
  reports success has restored them, whatever happened to the files; without a mishap
  a hash mismatch is never a false alarm;
* bit streams: the reader finds the bits the writer was given, however they lie
  over bytes; a writer has one user at a time and a result outlives it;
* codec: decoding inverts encoding over dirty memory; no field is cut; no nonce is
  used twice; a wrong key stays within the block;
* arithmetic: rank is a bijection onto the numbers below the coefficient, unrank
  is its inverse, two implementations of rank agree, and no lookup leaves the cache.

## 2. Modules

    OrderedPipe                       what a pool promises
      ^ implemented by
    CompressPool   DecompressPool     the two pools
      ^ Foundations  ^                (induction, powers of two, division, channels)
      |  ^      ^    |
    CompressPoolProofs
               DecompressPoolProofs   safety, and the refinement of OrderedPipe

    FileLifecycle                     runs of both commands over the files
      ^                               (takes a pool at what OrderedPipe says)
    FileLifecycleProofs

    Words                             machine words, lengths of numbers
      ^                ^
    BitStream        Combinadic       bits <-> bytes;  cache, rank, unrank, reduction
      ^       ^         ^    ^   ^
      |   FieldCipher   |    |  CombinadicWalk         the reference for both
      |         ^       |    |        ^
      |         |       |  CombinadicProofs            cache, lists, rank and unrank, bits;
      |         |       |       ^     ^                on Foundations
      |         |       |       |  CombinadicWalkProofs
      |       BlockCodec        |     encoder and decoder of blocks
      |             ^           |
      |           BlockCodecProofs    cipher, nonces, codec
      |
    ScratchPool                       concurrent calls and their pooled writers
      ^
    ScratchPoolProofs

`MC<module>` fixes the constants for TLC, `*.cfg` are the runs. Operators marked
`\* bug:` are not part of a model. Each is a definition of the model with a
plausible mistake in it; with it in place of the definition that follows, TLC
finds the property it is paired with (in `PROJECT.json`) violated.

### CompressPool

One action is one step of one goroutine: an operation on a channel, or the work
on one block.

| Code | Model |
|---|---|
| `freeBatches`, `jobs`, `results` (capacity `batchesInFlight` = twice the jobs) | sequences `free`, `jobs`, `results`; a send is guarded by `Len(..) < InFlight` |
| `close(jobs)`, `close(results)` | `jobsClosed`, `resultsClosed` |
| `*compressBatch` | a number in `Batches`, its fields in functions `firstBlock`, `n`, `inputs`, `datas` |
| the reading loop of `main` | `ReaderTake`, `ReaderFill`, `ReaderFail` (the `break` of a failed read), `ReaderFilled`, `ReaderSend`, `ReaderClose`, `ReaderJoin` |
| a worker | `WorkerReceive`, `WorkerEncode`, `WorkerSend`, `WorkerExit` |
| `wg.Wait(); close(results)` | `CloseResults` |
| the collector, its map `pending` | `CollectorReceive`, `CollectorPick`, `CollectorMiss`, `CollectorWrite`, `CollectorRecycle`, `CollectorEnd` |

The bytes of a block are the position of the read that produced them; an encoded
block is the pair of that position and of the block index its nonces come from.
A buffer that is overwritten while someone uses it, or a wrong `firstBlock`, thus
shows in `out`. The map `pending` is a function that is `NoBatch` where the map
has no key. `Terminated` lets the finished pool stutter, so TLC's search for
deadlocks is on.

### DecompressPool

The same goroutines; the buffers that are recycled are the outputs, and `outs[j]`
is a slice of one of them. A worker stores in `outs[b][j]` what the slot of
`outBack` holds after the decode, and the collector appends that. In Go the two are one piece
of memory; here `WorkerDecode` changes both together and nothing else changes either, so the
copy is what the slot holds when it is written. `archive` says whether it is encrypted and what
decoding each block comes to: its own bytes, garbage, or a panic. In an encrypted
archive the worker recovers and the slot keeps what was in the buffer, or part of it.
In a clear one nobody recovers: `WorkerCrash` ends every goroutine at once, wherever
it is. `OrderedPipe` has the matching action, and promises that what had been written
by then is a prefix in order. `Restores` says that a block which does not decode costs
no other block.

### FileLifecycle

One file, its archive, and runs of the program one after another. `arch` is what
is in the archive file, `wbuf` what the `bufio.Writer` still holds: a write either
stays in the buffer or pushes what was there to the file, a failing one leaves a
part of it, and errors stick. `Kill` can end a run between any two steps and loses
the buffer. A hash is the sequence of the bytes it was fed: no collisions.
The pool is taken at what OrderedPipe promises: in order, all before the end.

What can go wrong is the constant `Faults`. Some faults the code handles: a failing
read, write, creation or flush of the output, a kill. The others, `Mishaps`, it
can at best notice:

| Mishap | Model |
|---|---|
| `reader.Read` returns less than a block (`main.go:621`) | `Reads`: any non-empty prefix of what is available |
| another process appends to the file, or cuts it, after `os.Stat` (`main.go:403`) | `Grow`, `Shrink`; what is read is taken from `f` as it is *now* |
| an archive is damaged | `Damage`: the data of a block, the hash, or a field of the header; the decoder then fails, panics (`DecompressPanics`) or goes on |
| power failure; nothing is synced | `PowerFails`: each file that was written keeps some prefix |
| the last flush of the archive fails, which is only printed (`main.go:657`) | `FlushArchive` |

Another process and the machine (`Grow`, `Shrink`, `Damage`, `PowerFails`) strike at most
once each in a behaviour; short reads and the ignored failure of the last flush can happen in every run. A
damaged block keeps its length. One that shifts what follows would show as a failed
read or as a panic, which the model has as well.

`ReadHash` is the read of the eight bytes that the hash of the decoded bytes is compared with.
When it fails the code prints that and compares all the same, with what is in `buffer64`: the zeros
of `make`, or what decryption makes of them. That is no file's hash here (`NoSum`).

`WriteHeader` leaves out `reader.Peek` (`main.go:498`), which without `-noref` buffers up to three
blocks of `f` before the first of them is read. The model reads `f` as it is at each read, which is
what happens with `-noref`; without it a change of `f` is seen only by the reads that go
beyond what was buffered, as if it had come later.

Until a mishap, one of the two files holds the original (`Recoverable`). After it the
code cannot promise that, and `SuccessIsTrue` says what it still does: the hash never
agrees with an output that is not the original, so the archive is not removed for
such an output. `MaxMishaps` bounds the *kinds* of mishaps in a behaviour to one. With two kinds the property is
false, as TLC shows when the bound is raised to 2: for a file that shrinks and then grows while it is
read, and for damage together with a short read, a growing or a shrinking file. Two damages could
break it too, in a file of one byte and in its hash. In the three pairs with damage a block has a length that the
remainder of the header does not say, and damage of the remainder can make it so; the
hash does not cover the header. That takes two independent failures that fit together, and
is not counted as a divergence. A short read with a growing file, or a power failure with damage
or with a failed last flush, break nothing.

The model makes two assumptions about the user. They compress `f` while it is
the file they care about (`f = original`; compressing a half-written output over
its own archive would be a request to lose data). And they decompress an archive
whose compression ran to its end.

### Combinadic, CombinadicWalk

Pure definitions. Recursive ones are functions over the index of the loop they
translate, so that there can be proofs in modules that use them. CombinadicWalk is the
reference: it steps through the subsets of a universe in colexicographic order,
like an odometer, and knows nothing of binomials. The rank of a set is the number of
steps that lead to it. Four properties compare the code with that. The universe is one whose
cube a machine word holds (`WalkAssumption`), since `rank` multiplies three positions in a
`uint64`; 65000, the largest the cache accepts, has a cube of less than 2^48.

### Words, BitStream, ScratchPool

`BitStream` translates `BitWriter` and `BitReader`. A writer is a record of its three
fields, a method an operator from one writer to the next, a loop over bytes a
function of the rounds done. The accumulator is a machine word: what is shifted out
of it is gone.

`ScratchPool` is the world those writers live in: goroutines that call `process`, the
`sync.Pool`, and, for each scratch, the array under its writer's buffer. The array keeps
what it held beyond the current length, and the result of a call is either bytes of its own or a
slice of such an array, so returning the slice instead of a copy would be seen.
`sync.Pool` may make a new object though it has one, and the collector of garbage may
empty it (`Get`, `Drop`). `Reset` belongs to `Get`, as the code calls it there.

### FieldCipher

The additive cipher, the keystream in counter mode and the nonces, translated from
`cipher.go`, `keystream.go` and `nonce.go`. SHA-256 is the constant operator `Digest`:
the only things used of it are that both sides compute the same and that a digest consists
of bytes (`CodecAssumption`).

### BlockCodec

A file is a sequence of blocks that goes through one encoder and one decoder. The
actions are the header of a block, one per value, the hand-over, and the same on
the other side. The encoder encrypts its fields and gives them to a `BitStream` writer;
the hand-over flushes it; the decoder reads bits, since with a wrong key it reads
fields at other boundaries than the encoder wrote. `out` remembers the fields that were
written, and `used` every encryption: of which field of which block, and under which nonce. The reference alphabet of the stream travels in the header, encrypted as a
field of bytes; `seen` is what the decoder takes for it. The scratch memory that is not
rewritten as a whole for each block is state that survives `NextBlock`: the encoder's `counts`,
`alphabet` (the code's `alphabetBitSet`) and `removed` (`toRemove`), of which a missed reset
would show; the decoder's set of free positions and its size; the caller's slice. What follows from
the counts is computed from those kept in the scratch, never from the block itself. The encoder's `offsets`,
`cursor`, `positions` and `sortedKeys` are assigned from the counts and the block before
they are read, so they are expressions here (`Positions`, `Symbols`). The decoder's
`alphabetBitSet` and `reducedBitSet` are cleared in `unrank` itself (`Unrank`).

## 3. What the runs check

| Run | Bounds | Shows |
|---|---|---|
| `compress_pool` | 3 workers, 6 batches of 2, 13 blocks, workers symmetric | `SingleOwner`, `InOrder`, `CompleteAtEnd`, `SendsNeverBlock`, `NoSendOnClosed`, types, no deadlock |
| `compress_pool_live` | 2 workers, 4 batches of 2, 9 blocks | implements `OrderedPipe` with its liveness; terminates |
| `decompress_pool` | 2 workers, 4 batches of 2, 9 blocks, the last one short; a sound archive, one with a wrong key (garbage in five blocks, panics in two), a damaged clear one | `Restores`, `NoUseAfterRecycle`, `HashCoversOutput`; implements `OrderedPipe`; terminates, and dies only over a clear archive |
| `file_lifecycle` | lengths 1 to 5, blocks of 2, up to 3 runs, every fault, one kind of mishap | `Recoverable`, `SuccessIsTrue`, `AcceptsOwnArchive`, every run ends |
| `lifecycle_flush`, `lifecycle_create`, `lifecycle_count`, `lifecycle_grow` | one fault each | `Lossless` is violated (section 6) |
| `combinadic` | all 65,536 subsets of 16 positions, 12-bit accumulator | `RankIsPosition`, `HockeyStickAgrees`, `UnrankInverts`, `RanksFillModulus` |
| `bit_writers` | 2 callers with 2 calls each, 2 scratches, bytes of 2 bits, words of 6, all sequences of fields of up to 6 bits together | `NotShared`, `HoldsBits`, `ResultsStay`, `ReadsBack`; the accumulator holds the pending bits only (`TypeOK`) |
| `block_codec` | bytes of 2 bits, words of 7, blocks of up to 5, files of up to 3 blocks, 3 modes, 3 reference alphabets, 2 keys | `RoundTrip`, `InStep`, `FieldsFit`, `RoomForEach`, `NoncesUnique`; a wrong key stays within the block (`TypeOK`, `StaysInBlock`) |
| `codec_wrong_key` | blocks of up to 3 | `WrongKeyIsCaught` is violated (section 6) |

**Why the bounds are enough.** In the pools the interesting cases are a batch
that is used a second time (more batches' worth of blocks than there are
batches: 13 blocks in batches of two with six batches), a short last batch (13 and
9 are odd), several batches waiting out of order in `pending` (needs two workers; three
let the map hold more than one behind the missing one), and a read failure at every block,
also the first of a batch, which sends an empty one. In `decompress_pool` only the ninth
block goes into a slot that was used before, so that is where a block panics over old bytes.
In the files: no block more than
needed for a full one, a short one and both after a full one; three runs make
room for a compression that fails, a second attempt, and a decompression, or for a
compression and decompressions with a wrong and then with the right key. A power
failure or damage can come between any two of them. In the arithmetic, the accumulator has 12 bits instead of
64: with 16 positions the closed-form product `n(n-1)(n-2)` still fits, as it does in 64
bits for blocks of 65,535 bytes (`compressor.go:56`), while both a term and a sum
of terms exceed 12 bits for some sets. In the codec, two-bit bytes give alphabets of one
to four values: none, one or several values before the last, counts of different widths,
and an alphabet equal to the reference, whose coded difference is empty. Files of
several blocks put a short block after a long one and the reverse. Words have seven bits
there, the fewest that hold the cube of five positions and twice the moduli of the cipher;
an accumulator that overflows is the matter of `combinadic`. In `bit_writers` the
word leaves four bits for a field beside the at most one that is pending, as 64 leave 56 beside
seven; six bits span three bytes, and zeros are written in chunks of three, so that a
padded rank needs a whole chunk and a part of one. One caller writes six bits while the
scratch of the other, short, results is reused around it.

`TestDigest` stands in for SHA-256: three bytes, different for different keys, nonces and
counters, so that a keystream needs one or more digests and the last is cut. The properties
of the right key do not depend on it; that of the wrong key is violated, and needs only some
digest.

**Constants that bound a model**: `MaxRuns` (runs of the program), `MaxMishaps` (kinds of
mishaps in one behaviour), `MaxCalls` and `MaxBits` (calls of `process` and the bits they
write), `CountMod` (2^32 in the code), `DigestBytes` and `ExtraBytes` (32 and 16), `ZeroChunk`
(32), `FieldSpace` and `BlockSpace` (2^16 and 2^32), `CounterSpace` (2^32, the counters of a
nonce; four in the runs, which need two), `AccBits` (64),
`ByteBits` (8), `MaxBlock` (`-b`), `CacheN` (argument of `InitCache`).

**Fairness.** In the pools each goroutine is weakly fair. The Go scheduler is
preemptive and runs every goroutine that can go on, and each action of a
goroutine, once possible, stays possible until it or another goroutine's receive
on the same channel is taken. Nothing is assumed about which worker gets a batch,
nor that reads succeed. In FileLifecycle a run of the program goes on
until it ends; users are not obliged to start another, and nothing forces a fault. The
codec, the bit writers and the arithmetic have no fairness and no liveness property: they
are loops over finite sets.

Deadlock is checked everywhere but in `combinadic`, where the walk ends at the
last subset. The other models have an explicit stuttering step at their end
(`Terminated`, `Rest`, `Finished`).

## 4. What is proved

`CompressPoolProofs`, for every number of workers (finite, not zero), every batch
size but zero and every number of blocks (`PoolAssumption`):

| Theorem | States |
|---|---|
| `Invariance` | `Spec => []IInv` |
| `TypeCorrect` | `Spec => []TypeOK` |
| `OrderCorrect` | `Spec => []InOrder` |
| `OwnershipCorrect` | `Spec => []SingleOwner` |
| `CompletenessCorrect` | `Spec => []CompleteAtEnd` |
| `ClosingCorrect` | `Spec => []NoSendOnClosed` |
| `SendingCorrect` | `Spec => []SendsNeverBlock` |
| `RefinesPipe` | `Spec => PipeSafety`: the pool implements `OrderedPipe` without its fairness |

None of these invariants is inductive alone. That blocks leave in order depends on
what is in a batch when the collector takes it, hence on what happened to it since
the reader had it, hence on no one else having had it. `IInv` says all of that
at once:

* `Placed(p)`: there is an assignment `p` of batches to places (free list, reader,
  `jobs`, a worker, `results`, `pending`, collector) that agrees with every queue and
  variable. Since `p` is a function, a batch has one place, and with the absence of
  duplicates inside each place, `SingleOwner` follows. A step moves one batch: the
  next assignment is `[p EXCEPT ![b] = ...]`.
* `Filled(p)`: a batch that is not free holds consecutive blocks between `next` and
  `i`; only the batch of a failed read can be empty.
* `Coded(p)`: which slots of which batches have been encoded, and that the collector
  stands where the output ends.
* `Tiled(p)`: batches in use do not overlap and cover all blocks from `next` to
  `i - 1`. That is what makes `CompleteAtEnd` true: at the end no batch can be in
  use, so nothing is left between `next` and `i`.
* `Holding`, `Closing`, `Hashed`: control states and batches in hand, the order in
  which goroutines end, and that the hash has been fed the blocks in order.

TLC finds `IInv` to hold on small instances too. Each action that moves or fills a
batch has a lemma of its own; facts about queues (a send adds one element, a receive takes
one away) are stated once and cited.

Two of the results count. `SendingCorrect`: a queue holds no batch twice and not the one
that is about to be sent, so it holds fewer than there are batches, and it has a place for
each. `RefinesPipe`: blocks are accepted within the pipe's capacity because, while the
reader has a slot to fill, each block between `next` and `i` has a slot of its own in some
batch in use (`Tiled`), and none of them has that slot (`SlotLeft`). The other steps of the
refinement follow from `IInv`: what the collector writes is the next item (`Coded`) and has
been accepted (`Filled`), and at the join nothing is left (`NothingLeft`).

`DecompressPoolProofs`, from the same assumptions and for every archive:

| Theorem | States |
|---|---|
| `Invariance`, `TypeCorrect` | `Spec => []IInv`, `Spec => []TypeOK` |
| `RestoresCorrect` | `Spec => []Restores` |
| `RecycleCorrect` | `Spec => []NoUseAfterRecycle` |
| `HashCorrect` | `Spec => []HashCoversOutput` |
| `RefinesPipe` | `Spec => PipeSafety`, with the pipe's `Crash` |

`Placed`, `Filled`, `Tiled` and `Closing` are those of the compress pool. `Coded` is not:
here the buffers of outputs are recycled, so a slot is described by what a worker has made
of it (`Stored`): loaded with its compressed block before the worker, right (`Right`: the
bytes of its block if they can be had, and in any case the length) after it. Lengths have to
be part of it, since the collector cuts what it writes to `nwBytes`, and a recycled batch
still has those of its last use. A crash changes program counters and nothing else.
It weakens `Holding` (a dead goroutine may have a batch in hand) and everything
that is said about buffers stays true, so the refinement needs no case of its own but that
of the step in which all die, which is `Pipe!Crash`.

`FileLifecycleProofs`, for any lengths, faults and number of runs:

| Theorem | States | Under |
|---|---|---|
| `TypeCorrect` | `Spec => []TypeOK` | |
| `Invariance` | `Spec => []IInv` | `Fits`, `Creatable` |
| `RecoverableCorrect` | `Spec => []Recoverable` | `Fits`, `Creatable` |
| `AcceptsCorrect` | `Spec => []AcceptsOwnArchive` | `Fits`, `Creatable` |
| `SuccessCorrect` | `Spec => []SuccessIsTrue` | the same, and `MaxMishaps <= 1` |

`IInv` is `Types`, which holds unconditionally, and `Contents`, which speaks of behaviours
with at most one kind of mishap. `Contents` says of file and buffer together what they hold
at each program counter. An archive being written is the first blocks of the true one
(`Begun`), a completed one is `Whole`, and what was decoded is the first blocks of the
original (`Output`). A mishap leaves weaker facts that just suffice for the hash to
tell: every record is as a compression wrote it, and hashes at least start like the original
(`Fresh`), or one record was damaged later (`Struck`). The hypotheses are needed: `lifecycle_count` breaks the
property without `Fits` (a count of blocks that fits in 32 bits) and `lifecycle_create` without
`Creatable` (an output that cannot be created is not empty). `MaxMishaps` is needed only for
the last theorem; section 2 lists the pairs of mishaps that defeat the hash.

`BlockCodecProofs`, from `CodecAssumption`:

| Theorem | States |
|---|---|
| `Invariance` | `Spec => []IInv` |
| `NoncesCorrect` | `Spec => []NoncesUnique` |
| `RoomCorrect` | `Spec => []RoomForEach` |
| `StaysCorrect` | `Spec => StaysInBlock` |
| `CodecInvariance` | `Spec => []CInv` |
| `RoundTripCorrect` | `Spec => []RoundTrip` |
| `InStepCorrect` | `Spec => []InStep` |
| `FieldsFitCorrect` | `Spec => []FieldsFit` |
| `BlockTypesCorrect` | `Spec => []TypeOK` |

`IInv` says how far the encoder is (`Sending`: the counts in the scratch are those of this
block, whatever was there before (`HeaderSent`), the fields written so far are two for each
value and four of the header, and `removed` are the positions of the values sent), that
the encryptions made are of earlier fields (`Behind`) and one for each field (`Once`), and
that the decoder keeps positions of the block (`Inside`). The fields of a block
fit in their nonce space, since a block has at most as many values as there are bytes
(`2 * |Bytes| + 1 < FieldSpace`; 513 of 65536 in the code), and files have no more blocks than
the block number of a nonce can tell apart (`BlockSpace`, 2^32 in the code). `StaysInBlock` is
about any key, hence about any bits at all that the decoder may read.

`RoundTripCorrect` is the theorem of the project: every block of every file decodes to its own
bytes, for every size of bytes, words and blocks, every reference alphabet and all three modes,
through the ranks, the cipher, the bits and back. `CInv` is what a step of either side
needs to know of the other:

* `Encoding`: while a block is encoded, `out` is a function of the block and of how many values
  have been sent (`Encoded`), and the writer holds the bits of the fields in `out` one after the
  other (`PackedTo`). `RoomForEach`, from `IInv`, says that `removed` and `room` are those of this
  block, so that each rank is taken in the universe the decoder will have.
* `Fitting`: every field fits in its width. It is needed for the above: a field that is
  too long would put its bits over its neighbour's. A rank is below its coefficient
  (`RankRoundTrip`), a ciphertext below its modulus.
* `Carried`: from the hand-over on, the packed bytes hold all the fields. The last byte is filled up,
  so it is `Carries`, fields at their places, and no longer `PackedTo`, which says there is nothing else.
* `Following`: with the right key the decoder is at the end of a pair of fields, `read` being the
  sum of their widths; its free positions are those whose values have not come, and the others
  hold their values. From `Carried`, what `ReadField` reads there is the field sent (`ReadBitsLaw`,
  `ReadBigIntLaw`), what it decrypts is the field meant (`RankCipherInverts`,
  `UintCipherInverts`), and what `Unrank` gives is the reduced positions (`RankRoundTrip`), which
  found again among the free ones are the value's (`ReducedLaw`). The width of a rank depends on its
  coefficient, and that on the count before it: position and contents of the fields have to be
  in one induction.
* `Agreed`: the decoder with the right key has the reference alphabet and has never stopped. The
  alphabet passes through a number, bytes, the cipher and back (`AlphabetNumberLaw`).
* `Memory`: the output slice keeps its length and the pooled bitsets have room for the block at hand,
  whatever blocks came before; without it the last value could not take all that is left.
* `Lossless`: at the end nothing is free, hence all positions hold their values.

`Typed` is `TypeOK` in a form that is inductive with both. It speaks of any key, so of any
number that the fields may hold: a rank that does not belong to its coefficient still unranks to
positions of the universe (`UnrankWithin`), and an alphabet that is not the encoder's still
consists of bytes. TLC finds `CInv` and `Typed` to hold in the states of `block_codec`.

`CombinadicProofs`, from `CombinadicAssumption` (a cache for arguments from 2 to
65000, the range `InitCache` accepts):

| Theorem | States |
|---|---|
| `LookupInCache` | each lookup of `BinCoef` for `0 < k < n <= CacheN` lies inside the half-diagonals that were allocated |
| `Pascal` | what is found there obeys Pascal's rule, so with the edges it is the binomial coefficient |
| `RankRoundTrip` | the rank of `k` positions of a universe `n` is below `C(n, k)`, and `Unrank` gives the positions back |

`IndexSet` stands for a library call on a bitset and is defined as the ascending list of a set; the
lemma `IndexSetAscends`, that such a list exists for every finite set, is what the others start from.

`CombinadicWalkProofs`, from the same and `WalkAssumption`:

| Theorem | States |
|---|---|
| `Invariance` | `Spec => []IInv`: the position is the sum of the coefficients of the set's elements |
| `RankCorrect` | `Spec => []RankIsPosition` |
| `HockeyStickCorrect` | `Spec => []HockeyStickAgrees` |
| `UnrankCorrect` | `Spec => []UnrankInverts` |
| `ModulusCorrect` | `Spec => []RanksFillModulus` |

The cache is a table of half-diagonals, each filled with running sums of the one above. `Pascal`
relates a cell to its two neighbours, of which one or both can lie in the mirrored half, and
on the central column the sum of two equal neighbours is what the code computes as a shift. From
it follow the closed forms that seed `Rank`, that coefficients grow with `n`, and the
hockey-stick identity (`RunSum`).

For positions in ascending order, `Sums` are the sums of their first coefficients. `Rank` is the
last of them: every accumulator, promoted to a big integer or not, holds the sum so far
(`AccumulatedSum`), and the closed forms do not wrap before they are divided (`ProductsFit`).
The sum of the first `i` stays below the coefficient that the position after the `i`-th would have
(`SumsBelow`); so the scan of `Unrank` stops at the `i`-th position and leaves the sum of those
before (`ScanFinds`). Comparing bit lengths first changes nothing, as a longer number is greater
(`FitsLaw`). In the walk no step changes only one position: the first that can move up does, and
those below it, which are consecutive (`RunBelow`), start over. Their sum before and after is a
hockey stick, and the difference is one (`MovedSum`). That is why `IInv` speaks of sums, and
not of `Rank` and `Unrank`, whose results are read off it. The variant `rankHockeyStick`, which only the repository's tests call, adds
run by run: after an index its sum has reached the end of the last run that has started, not that
index (`WholeRuns`), and the term of a run is the sum of its coefficients because each partial
sum is a difference of two (`RunTermLaw`).

All these are inductions over loops. The library's induction principles take an operator as a
parameter, which the provers cannot instantiate. `Foundations` starts from what needs none: a
set of naturals that is not empty has a least element (well-foundedness, in the library). Hence
`Induction` over an interval, for a *set* of numbers; hence `Recursion`, that there is a function
defined from each argument to the next; and a function of the model obeys its own equation
because there is one that does. Two functions that obey it agree, by `Induction` again.

`ScratchPoolProofs`, from `CallerAssumption` and `BitAssumption`, for any callers, scratches,
calls and fields and any widths of bytes and words, as long as a byte and a chunk of zeros are
fields that `WriteBits` may be given:

| Theorem | States |
|---|---|
| `Invariance` | `Spec => []IInv` |
| `ScratchesNotShared` | `Spec => []NotShared` |
| `TypeCorrect` | `Spec => []TypeOK` |
| `HoldsBitsCorrect` | `Spec => []HoldsBits` |
| `ResultsStayCorrect` | `Spec => []ResultsStay` |
| `ReadsBackCorrect` | `Spec => []ReadsBack` |

`IInv` has two halves. `Ownership` adds to `NotShared` that a caller which is not idle has a
scratch, that every scratch in hand or in the pool is alive, and that one which is not alive yet
is nowhere; without that a new scratch could be one in use. `Contents` says what is in the
scratches: every writer is sound (`Sound`: less than a byte pending, nothing else in the
accumulator), and its array begins with its buffer (`Begins`), which is why the copy of the
first `src` bytes of the array is the buffer; a call that writes holds what it has written; what was
returned is that, filled up with zeros, and no slice of an array. `Contents` is kept because
of `Ownership`: a step changes the writer of one scratch, and no other call has it.

That each write adds the bits of its field, and no others, is what the laws of the bit writer in
`CombinadicProofs` say. `WriteBitsLaw`: the pending bits and the new ones fit in a word, so
nothing is shifted out (`PushedLaw`); the word is cut into whole bytes and a rest (`BitsSplit`,
`UnpackedBytes`), and what the mask leaves is the rest. `WriteZerosLaw` and
`WriteBigIntBitsLaw` are inductions over their loops; a rank has as many bits as its length says
(`BitLengthHolds`, `BitLengthLeast`), the first byte may be cut short (`BytesForLaw`), and the zeros
before it make up the width. `FlushedLaw`: the last byte is filled up. Powers of two, which the
provers know nothing about, are counted as sets of subsets (`PowerStep`, from the library's
`FS_SUBSET`; in the library's own proof file one lemma under that theorem, on `2^(n+1)`, is stated
without a proof).

That a reader gets back what was written, from any position and in either way, is a law of the
reader alone: a number read from `n` bits is below `2^n` and its bits are those (`Reads`), and two
numbers with the same bits are one. `ReadBits` takes what is left of a byte in each round
(`RoundLaw`, `ByteReads`), so its value after `m` bits refers to an earlier one, not always to
the one before; `Descent` is the induction for that (`ReadBitsLaw`). `ReadBigInt` does the same byte by
byte (`ReadBigIntLaw`), and parts read one after the other join (`ReadsJoin`). What a call
returned are the bits it wrote and a fill, hence `ReadsBack`.

About the cipher `BlockCodecProofs` shows, from `CipherAssumption`:

| Theorem | States |
|---|---|
| `RankCipherInverts` | if digests consist of bytes, decryption gives the rank back, and a ciphertext is below its modulus, so that it fits in the field |
| `UintCipherInverts` | the same in machine words, for digests that consist of bytes and if twice the modulus is at most a word (the code's moduli are at most 2^16) |
| `NoncesDistinct` | nonces of fields are injective in block and field index, and differ from those of alphabet and hash |

**Only model-checked.** Liveness under fairness and `ENABLED` are out of the prover's
reach, and with them `Terminates`, `EveryRunEnds` and the liveness part of
`ImplementsPipe`. Every safety property of the passing runs is proved.

## 5. What is not modelled, and why

* The byte layout of the header, flags, profiles, the progress bar: formatting
  without a property. `-seed` and `-noref` appear as the set of reference alphabets. A
  `-b` too large for the cache ends the run in a panic before any file is touched, one that
  is not positive after the archive was created; the input stays.
* What the decoder makes of a damaged block, field by field: DecompressPool takes it as
  one of three outcomes, FileLifecycle as garbage or a panic. BlockCodec follows the
  fields of a sound block under a wrong key.
* Two mishaps in one behaviour (see FileLifecycle), and a removal that reaches the disk
  before the data it relies on and then fails halfway.
* The 16-bit length of an encoded block: whether an encoding can reach 65,536 bytes
  depends on blocks far larger than an instance.
* AES-CTR and ChaCha20 keystreams, which no command selects; SHA-256 itself; salts and the
  derivation of subkeys. Deterministic library functions, as far as these models go.
* Goroutines are interleaved at channel operations and at the work on one block;
  `SingleOwner` is what makes that granularity sound, since work on a batch is
  then invisible to the others.

## 6. Where the code and its documentation disagree

* `lifecycle_flush`: an error of the last flush of the archive is printed, and the
  input is removed all the same (`main.go:656`–663).
* `lifecycle_create`: the error of creating the output is discarded
  (`main.go:209`). For any other file the writes then fail; for an empty one there are
  none, and the archive is removed although there is no output.
* `lifecycle_count`: the block count is cut to 32 bits (`main.go:471`); a file with
  more blocks (4 GiB with `-b 1`) is compressed up to the remainder and removed.
* `lifecycle_grow`: the size is taken before the file is read (`main.go:403`), the blocks are
  what the file has when they are read. Bytes appended in between fill up the last block; the
  header says a shorter one; the input is removed. The hash notices, too late. The run appends after
the header was written, as can happen with `-noref`; without it the bytes have to come before
`Peek`, or lie beyond what it buffers.
* `codec_wrong_key`: the comment at `decompressor.go:97` says a wrong key is caught
  by the range checks in full mode; it can pass them. The hash of the file catches
  it later.

## 7. Plan

Done: the two pools with their abstract specification, files with the faults of disk, power
and other processes, arithmetic, bit streams, the pooled writers, the cipher, the codec over
all of them; the proofs of section 4, the arithmetic by induction over its loops. The order
was that of the damage: first what could silently reorder or lose data in every run, then what
could remove it, then the numbers.

What could follow lies outside these modules: the layout of the archive header and the length
field of a block (section 5), the alternative keystreams if a command comes to select them, and
liveness with a prover that can do it.

## 8. Running

    tlc -workers 2 -config MCCompressPool.cfg MCCompressPool
    tlapm CompressPoolProofs.tla

Proofs are in the modules `*Proofs` and in `Foundations`.

`PROJECT.json` lists the components, the runs and what each must give, the mutated
definitions, the source lines of every definition, the hazards and the theorems.
