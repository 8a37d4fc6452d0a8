--------------------------- MODULE DecompressPool ---------------------------
(***************************************************************************)
(* The worker pool of the decompress path (main.go, lines 230 to 364).     *)
(*                                                                         *)
(* It has the goroutines and channels of CompressPool, but the buffers     *)
(* that are recycled are the outputs: a worker decodes block j of a batch  *)
(* into slot j of the batch's outBack, and outs[j] is a slice of that      *)
(* slot.  The inputs are allocated anew for every block.  It is the        *)
(* collector, not the reader, that feeds the hash.                         *)
(*                                                                         *)
(* The bytes of a compressed block are abstracted to its position in the   *)
(* archive, decoded bytes to that position and their number.  With a wrong *)
(* key, or in a damaged archive, a block may decode to Garbage, or make    *)
(* the decoder panic part way.  In an encrypted archive the worker         *)
(* recovers and the slot keeps what an earlier block left there, or part   *)
(* of it; in a clear one nobody recovers and the process dies.             *)
(***************************************************************************)
EXTENDS Integers, Sequences, FiniteSets

CONSTANTS Workers,      \* the -jobs worker goroutines
          BatchSize,    \* blocks per batch
          NumBlocks,    \* header: number of blocks
          BufferSize,   \* header: bytes per block
          Remainder,    \* header: bytes of the last block, 0 if it is full
          Archives      \* the archives to consider, each with the key it is read with

\* What decoding a block comes to: its own bytes, others, or a panic.
Outcomes == {"own", "garbage", "panic"}

ASSUME PoolAssumption ==
  /\ IsFiniteSet(Workers) /\ Workers # {}
  /\ BatchSize \in Nat \ {0}
  /\ NumBlocks \in Nat
  /\ BufferSize \in Nat \ {0}
  /\ Remainder \in 0 .. BufferSize - 1
  /\ Archives \subseteq [encrypted : BOOLEAN, decodes : [0 .. NumBlocks - 1 -> Outcomes]]

InFlight == 2 * Cardinality(Workers)            \* batchesInFlight
Batches == 1 .. InFlight                        \* the decompressBatch objects
NoBatch == 0                                    \* a nil *decompressBatch
Slots == 0 .. BatchSize - 1
NoBlock == -1                                   \* a nil slice of inputs, or zeroed bytes
Garbage == -2                                   \* bytes that are no block of the file
Bytes == [block : Int, len : Nat]
NoBytes == [block |-> NoBlock, len |-> 0]       \* a nil slice of outs

\* bug: every block gets the full block length
FullLength(i) == BufferSize

\* nwb: the length block i decodes to
BlockLength(i) == IF i = NumBlocks - 1 /\ Remainder > 0 THEN Remainder ELSE BufferSize

VARIABLES
  archive,              \* encOn, and what each block decodes to
  free, jobs, results,  \* the three buffered channels, each of capacity InFlight
  jobsClosed, resultsClosed,
  firstBlock, n, inputs, nwBytes, outBack, outs,  \* the fields of each batch
  rpc, rbatch, i, readFailed,  \* reader: the main goroutine
  wpc, wbatch, wj,      \* workers
  cpc, cbatch, cj, pending, next,  \* collector
  out, hashed           \* blocks written to the file, and fed to the hash

channels == <<free, jobs, results, jobsClosed, resultsClosed>>
batch == <<firstBlock, n, inputs, nwBytes, outBack, outs>>
reader == <<rpc, rbatch, i, readFailed>>
workers == <<wpc, wbatch, wj>>
collector == <<cpc, cbatch, cj, pending, next, out, hashed>>
vars == <<archive, channels, batch, reader, workers, collector>>

Init ==
  /\ archive \in Archives
  /\ free = [k \in Batches |-> k]
  /\ jobs = <<>> /\ results = <<>>
  /\ jobsClosed = FALSE /\ resultsClosed = FALSE
  /\ firstBlock = [b \in Batches |-> 0]
  /\ n = [b \in Batches |-> 0]
  /\ inputs = [b \in Batches |-> [s \in Slots |-> NoBlock]]
  /\ nwBytes = [b \in Batches |-> [s \in Slots |-> 0]]
  /\ outBack = [b \in Batches |-> [s \in Slots |-> NoBlock]]
  /\ outs = [b \in Batches |-> [s \in Slots |-> NoBytes]]
  /\ rpc = "loop" /\ rbatch = NoBatch /\ i = 0 /\ readFailed = FALSE
  /\ wpc = [w \in Workers |-> "receive"]
  /\ wbatch = [w \in Workers |-> NoBatch]
  /\ wj = [w \in Workers |-> 0]
  /\ cpc = "receive" /\ cbatch = NoBatch /\ cj = 0
  /\ pending = [x \in 0 .. NumBlocks |-> NoBatch]
  /\ next = 0
  /\ out = <<>> /\ hashed = <<>>

-----------------------------------------------------------------------------
(* The reader.                                                             *)

\* batch := <-freeBatches
ReaderTake ==
  /\ rpc = "loop" /\ ~readFailed /\ i < NumBlocks
  /\ free # <<>>
  /\ rbatch' = Head(free)
  /\ free' = Tail(free)
  /\ firstBlock' = [firstBlock EXCEPT ![Head(free)] = i]
  /\ n' = [n EXCEPT ![Head(free)] = 0]
  /\ rpc' = "fill"
  /\ UNCHANGED <<archive, jobs, results, jobsClosed, resultsClosed, inputs, nwBytes, outBack, outs,
                 i, readFailed, workers, collector>>

\* bug: the loop over slots does not stop at batchSize
FillingPastEnd == rpc = "fill" /\ i < NumBlocks

\* the condition of the loop over the slots of a batch
Filling == rpc = "fill" /\ n[rbatch] < BatchSize /\ i < NumBlocks

\* the length and the bytes of one compressed block are read
ReaderFill ==
  /\ Filling
  /\ inputs' = [inputs EXCEPT ![rbatch][n[rbatch]] = i]
  /\ nwBytes' = [nwBytes EXCEPT ![rbatch][n[rbatch]] = BlockLength(i)]
  /\ n' = [n EXCEPT ![rbatch] = n[rbatch] + 1]
  /\ i' = i + 1
  /\ UNCHANGED <<archive, channels, firstBlock, outBack, outs, rpc, rbatch, readFailed,
                 workers, collector>>

\* the archive ends inside a block: the batch goes out with the blocks it has
ReaderFail ==
  /\ Filling
  /\ readFailed' = TRUE
  /\ rpc' = "send"
  /\ UNCHANGED <<archive, channels, batch, rbatch, i, workers, collector>>

ReaderFilled ==
  /\ rpc = "fill" /\ ~Filling
  /\ rpc' = "send"
  /\ UNCHANGED <<archive, channels, batch, rbatch, i, readFailed, workers, collector>>

\* jobs <- batch
ReaderSend ==
  /\ rpc = "send"
  /\ Len(jobs) < InFlight
  /\ jobs' = Append(jobs, rbatch)
  /\ rbatch' = NoBatch
  /\ rpc' = "loop"
  /\ UNCHANGED <<archive, free, results, jobsClosed, resultsClosed, batch, i, readFailed,
                 workers, collector>>

\* close(jobs)
ReaderClose ==
  /\ rpc = "loop" /\ (readFailed \/ i >= NumBlocks)
  /\ jobsClosed' = TRUE
  /\ rpc' = "join"
  /\ UNCHANGED <<archive, free, jobs, results, resultsClosed, batch, rbatch, i, readFailed,
                 workers, collector>>

\* <-collectorDone
ReaderJoin ==
  /\ rpc = "join" /\ cpc = "done"
  /\ rpc' = "done"
  /\ UNCHANGED <<archive, channels, batch, rbatch, i, readFailed, workers, collector>>

Reader == \/ ReaderTake \/ ReaderFill \/ ReaderFail \/ ReaderFilled
          \/ ReaderSend \/ ReaderClose \/ ReaderJoin

-----------------------------------------------------------------------------
(* A worker.                                                               *)

WorkerReceive(w) ==
  /\ wpc[w] = "receive" /\ jobs # <<>>
  /\ wbatch' = [wbatch EXCEPT ![w] = Head(jobs)]
  /\ jobs' = Tail(jobs)
  /\ wj' = [wj EXCEPT ![w] = 0]
  /\ wpc' = [wpc EXCEPT ![w] = "decode"]
  /\ UNCHANGED <<archive, free, results, jobsClosed, resultsClosed, batch, reader, collector>>

\* What decoding compressed block c can leave in a slot that held `old'; a
\* decoder that panicked has overwritten some of the old bytes, or none.
Decoded(c, old) ==
  CASE archive.decodes[c] = "own" -> {c}
    [] archive.decodes[c] = "garbage" -> {Garbage}
    [] archive.decodes[c] = "panic" -> {Garbage, old}

\* nobody recovers from a panic of decompressor.Process
Fatal(c) == ~archive.encrypted /\ archive.decodes[c] = "panic"

\* bug: the recover is around the worker's loop, so a panic ends the worker
RecoverOutsideLoop(w) ==
  LET b == wbatch[w]  j == wj[w] IN
  /\ wpc[w] = "decode" /\ j < n[b]
  /\ wpc' = [wpc EXCEPT ![w] = "exited"]
  /\ UNCHANGED <<archive, channels, batch, reader, wbatch, wj, collector>>

\* Process or ProcessEncrypted into the slot, and inputs[j] released
WorkerDecode(w) ==
  LET b == wbatch[w]  j == wj[w] IN
  /\ wpc[w] = "decode" /\ j < n[b] /\ ~Fatal(inputs[b][j])
  /\ \E d \in Decoded(inputs[b][j], outBack[b][j]) :
       /\ outBack' = [outBack EXCEPT ![b][j] = d]
       /\ outs' = [outs EXCEPT ![b][j] = [block |-> d, len |-> nwBytes[b][j]]]
  /\ inputs' = [inputs EXCEPT ![b][j] = NoBlock]
  /\ wj' = [wj EXCEPT ![w] = j + 1]
  /\ UNCHANGED <<archive, channels, firstBlock, n, nwBytes, reader, wpc, wbatch, collector>>

\* an unrecovered panic ends the process, and with it every goroutine
WorkerCrash(w) ==
  /\ wpc[w] = "decode" /\ wj[w] < n[wbatch[w]]
  /\ Fatal(inputs[wbatch[w]][wj[w]])
  /\ rpc' = "dead" /\ cpc' = "dead" /\ wpc' = [v \in Workers |-> "dead"]
  /\ UNCHANGED <<archive, channels, batch, rbatch, i, readFailed, wbatch, wj,
                 cbatch, cj, pending, next, out, hashed>>

\* results <- batch
WorkerSend(w) ==
  /\ wpc[w] = "decode" /\ wj[w] = n[wbatch[w]]
  /\ Len(results) < InFlight
  /\ results' = Append(results, wbatch[w])
  /\ wbatch' = [wbatch EXCEPT ![w] = NoBatch]
  /\ wpc' = [wpc EXCEPT ![w] = "receive"]
  /\ UNCHANGED <<archive, free, jobs, jobsClosed, resultsClosed, batch, reader, wj, collector>>

WorkerExit(w) ==
  /\ wpc[w] = "receive" /\ jobs = <<>> /\ jobsClosed
  /\ wpc' = [wpc EXCEPT ![w] = "exited"]
  /\ UNCHANGED <<archive, channels, batch, reader, wbatch, wj, collector>>

Worker(w) == \/ WorkerReceive(w) \/ WorkerDecode(w) \/ WorkerCrash(w)
             \/ WorkerSend(w) \/ WorkerExit(w)

\* the goroutine that waits for the workers and closes results
CloseResults ==
  /\ ~resultsClosed /\ \A w \in Workers : wpc[w] = "exited"
  /\ resultsClosed' = TRUE
  /\ UNCHANGED <<archive, free, jobs, results, jobsClosed, batch, reader, workers, collector>>

-----------------------------------------------------------------------------
(* The collector.                                                          *)

CollectorReceive ==
  /\ cpc = "receive" /\ results # <<>>
  /\ pending' = [pending EXCEPT ![firstBlock[Head(results)]] = Head(results)]
  /\ results' = Tail(results)
  /\ cpc' = "look"
  /\ UNCHANGED <<archive, free, jobs, jobsClosed, resultsClosed, batch, reader, workers,
                 cbatch, cj, next, out, hashed>>

\* bug: the batch returns to the free list before its blocks are written
PickAndRecycle ==
  /\ cpc = "look" /\ pending[next] # NoBatch
  /\ cbatch' = pending[next]
  /\ free' = Append(free, pending[next])
  /\ pending' = [pending EXCEPT ![next] = NoBatch]
  /\ cj' = 0
  /\ cpc' = "write"
  /\ UNCHANGED <<archive, jobs, results, jobsClosed, resultsClosed, batch, reader, workers,
                 next, out, hashed>>

CollectorPick ==
  /\ cpc = "look" /\ pending[next] # NoBatch
  /\ cbatch' = pending[next]
  /\ pending' = [pending EXCEPT ![next] = NoBatch]
  /\ cj' = 0
  /\ cpc' = "write"
  /\ UNCHANGED <<archive, channels, batch, reader, workers, next, out, hashed>>

CollectorMiss ==
  /\ cpc = "look" /\ pending[next] = NoBatch
  /\ cpc' = "receive"
  /\ UNCHANGED <<archive, channels, batch, reader, workers, cbatch, cj, pending, next, out, hashed>>

\* one decoded block goes to the writer and to the hash
CollectorWrite ==
  /\ cpc = "write" /\ cj < n[cbatch]
  /\ out' = Append(out, outs[cbatch][cj])
  /\ hashed' = Append(hashed, outs[cbatch][cj])
  /\ outs' = [outs EXCEPT ![cbatch][cj] = NoBytes]
  /\ cj' = cj + 1
  /\ UNCHANGED <<archive, channels, firstBlock, n, inputs, nwBytes, outBack, reader, workers,
                 cpc, cbatch, pending, next>>

\* bug: next advances by one batch too few
RecycleOneShort ==
  /\ cpc = "write" /\ cj = n[cbatch]
  /\ Len(free) < InFlight
  /\ next' = next + 1
  /\ free' = Append(free, cbatch)
  /\ cbatch' = NoBatch
  /\ cpc' = "look"
  /\ UNCHANGED <<archive, jobs, results, jobsClosed, resultsClosed, batch, reader, workers,
                 cj, pending, out, hashed>>

\* next += n; freeBatches <- b
CollectorRecycle ==
  /\ cpc = "write" /\ cj = n[cbatch]
  /\ Len(free) < InFlight
  /\ next' = next + n[cbatch]
  /\ free' = Append(free, cbatch)
  /\ cbatch' = NoBatch
  /\ cpc' = "look"
  /\ UNCHANGED <<archive, jobs, results, jobsClosed, resultsClosed, batch, reader, workers,
                 cj, pending, out, hashed>>

\* bug: the collector stops at the first moment results is empty
EndWhenEmpty ==
  /\ cpc = "receive" /\ results = <<>> /\ jobsClosed
  /\ cpc' = "done"
  /\ UNCHANGED <<archive, channels, batch, reader, workers, cbatch, cj, pending, next, out, hashed>>

\* results is closed and drained: close(collectorDone)
CollectorEnd ==
  /\ cpc = "receive" /\ results = <<>> /\ resultsClosed
  /\ cpc' = "done"
  /\ UNCHANGED <<archive, channels, batch, reader, workers, cbatch, cj, pending, next, out, hashed>>

Collector == \/ CollectorReceive \/ CollectorPick \/ CollectorMiss
             \/ CollectorWrite \/ CollectorRecycle \/ CollectorEnd

-----------------------------------------------------------------------------
Done == rpc = "done"
Dead == rpc = "dead"
Terminated == (Done \/ Dead) /\ UNCHANGED vars

Next == \/ Reader \/ (\E w \in Workers : Worker(w)) \/ CloseResults \/ Collector
        \/ Terminated

Spec == Init /\ [][Next]_vars

(* Every goroutine that can go on is eventually run.                       *)
Fairness == /\ WF_vars(Reader)
            /\ \A w \in Workers : WF_vars(Worker(w))
            /\ WF_vars(CloseResults)
            /\ WF_vars(Collector)

FairSpec == Spec /\ Fairness

-----------------------------------------------------------------------------
(* Properties.                                                             *)

ReaderPC == {"loop", "fill", "send", "join", "done", "dead"}
WorkerPC == {"receive", "decode", "exited", "dead"}
CollectorPC == {"receive", "look", "write", "done", "dead"}
BatchOrNil == Batches \cup {NoBatch}

ChannelTypes ==
  /\ free \in Seq(Batches) /\ jobs \in Seq(Batches) /\ results \in Seq(Batches)
  /\ jobsClosed \in BOOLEAN /\ resultsClosed \in BOOLEAN
BatchTypes ==
  /\ firstBlock \in [Batches -> 0 .. NumBlocks]
  /\ n \in [Batches -> 0 .. BatchSize]
  /\ inputs \in [Batches -> [Slots -> Int]]
  /\ nwBytes \in [Batches -> [Slots -> 0 .. BufferSize]]
  /\ outBack \in [Batches -> [Slots -> Int]]
  /\ outs \in [Batches -> [Slots -> Bytes]]
ReaderTypes ==
  /\ archive \in Archives
  /\ rpc \in ReaderPC /\ rbatch \in BatchOrNil
  /\ i \in 0 .. NumBlocks /\ readFailed \in BOOLEAN
WorkerTypes ==
  /\ wpc \in [Workers -> WorkerPC] /\ wbatch \in [Workers -> BatchOrNil]
  /\ wj \in [Workers -> 0 .. BatchSize]
CollectorTypes ==
  /\ cpc \in CollectorPC /\ cbatch \in BatchOrNil /\ cj \in 0 .. BatchSize
  /\ pending \in [0 .. NumBlocks -> BatchOrNil]
  /\ next \in 0 .. NumBlocks
  /\ out \in Seq(Bytes) /\ hashed \in Seq(Bytes)

(* Every variable keeps its type; a decoded block never leaves its slot.   *)
TypeOK == ChannelTypes /\ BatchTypes /\ ReaderTypes /\ WorkerTypes /\ CollectorTypes

(* Holding a slice of a recycled output buffer is safe only while the      *)
(* batch is not free: no batch is free, or being filled, while a worker or *)
(* the collector still reads or writes its outBack.                        *)
NoUseAfterRecycle ==
  LET idle == { free[k] : k \in 1 .. Len(free) } \cup {rbatch}
      busy == ({ wbatch[w] : w \in Workers } \cup {cbatch}
                 \cup { jobs[k] : k \in 1 .. Len(jobs) }
                 \cup { results[k] : k \in 1 .. Len(results) }
                 \cup { pending[x] : x \in 0 .. NumBlocks })
  IN  (idle \cap busy) \subseteq {NoBatch}

(* The file is written in order, every block with the length it had.  A    *)
(* block that decodes wrongly, or panics, costs no other block: the others *)
(* show none of its bytes, and none an earlier block left in the buffer.   *)
OriginalBlock(k) == [block |-> k, len |-> IF k = NumBlocks - 1 /\ Remainder > 0
                                          THEN Remainder ELSE BufferSize]
Restores ==
  \A k \in 1 .. Len(out) :
    /\ out[k].len = OriginalBlock(k - 1).len
    /\ archive.decodes[k - 1] = "own" => out[k] = OriginalBlock(k - 1)

(* Whatever the key, the hash that decides success is over exactly the     *)
(* bytes written, and main compares it only when all of them are in.       *)
HashCoversOutput ==
  /\ hashed = out
  /\ Done /\ ~readFailed => Len(out) = NumBlocks

(* The pool implements the ordered pipe, up to what a block that does not  *)
(* decode to its own bytes shows.                                          *)
Pipe == INSTANCE OrderedPipe WITH
          accepted <- i, failed <- readFailed, ended <- Done, crashed <- Dead,
          out <- [k \in 1 .. Len(out) |->
                    IF archive.decodes[k - 1] = "own" THEN out[k] ELSE OriginalBlock(k - 1)],
          Capacity <- InFlight * BatchSize, Item <- OriginalBlock
ImplementsPipe == Pipe!Spec

(* Decompression ends, also when a worker had to recover from a panic; the *)
(* process dies of one only if the archive is clear.                       *)
Terminates == <>(Done \/ (Dead /\ ~archive.encrypted))
=============================================================================
