---------------------------- MODULE CompressPool ----------------------------
(***************************************************************************)
(* The worker pool of the compress path (main.go, lines 524 to 642).       *)
(*                                                                         *)
(* The main goroutine reads the file block by block into batches and sends *)
(* them on the channel `jobs'; workers encode each block and send the      *)
(* batch on `results'; one collector goroutine puts batches back in block  *)
(* order, writes their blocks, and returns the batch to `freeBatches'.  A  *)
(* fourth goroutine closes `results' once every worker has returned.       *)
(*                                                                         *)
(* One action is one step of one goroutine: a channel operation, or the    *)
(* work done on one block.  The bytes of a block are abstracted to the     *)
(* position of the read that produced them (0 for the first), an encoded   *)
(* block to the pair of the block it encodes and the block index its       *)
(* cipher nonces were derived from.                                        *)
(***************************************************************************)
EXTENDS Integers, Sequences, FiniteSets

CONSTANTS Workers,      \* the -jobs worker goroutines
          BatchSize,    \* blocks per batch: max(1, 262144 / bufferSize)
          NumBlocks     \* uint32(size / bufferSize), + 1 for a remainder

ASSUME PoolAssumption ==
  /\ IsFiniteSet(Workers) /\ Workers # {}
  /\ BatchSize \in Nat \ {0}
  /\ NumBlocks \in Nat

InFlight == 2 * Cardinality(Workers)            \* batchesInFlight
\* bug: one batch more than the channels can hold
ExtraBatch == 1 .. InFlight + 1

Batches == 1 .. InFlight                        \* the compressBatch objects
NoBatch == 0                                    \* a nil *compressBatch
Slots == 0 .. BatchSize - 1
Blocks == 0 .. NumBlocks - 1
NoBlock == -1                                   \* a nil slice of inputs
Encoded == [block : Int, index : Int]
NoData == [block |-> NoBlock, index |-> NoBlock] \* a nil slice of datas

VARIABLES
  free, jobs, results,  \* the three buffered channels, each of capacity InFlight
  jobsClosed, resultsClosed,
  firstBlock, n, inputs, datas,  \* the fields of each batch
  rpc, rbatch, i, readFailed, hashed,  \* reader: the main goroutine
  wpc, wbatch, wj,      \* workers
  cpc, cbatch, cj, pending, next,  \* collector
  out                   \* blocks written to the archive, in order

channels == <<free, jobs, results, jobsClosed, resultsClosed>>
batch == <<firstBlock, n, inputs, datas>>
reader == <<rpc, rbatch, i, readFailed, hashed>>
workers == <<wpc, wbatch, wj>>
collector == <<cpc, cbatch, cj, pending, next, out>>
vars == <<channels, batch, reader, workers, collector>>

-----------------------------------------------------------------------------
(* The free list holds every batch once.                                   *)
Init ==
  /\ free = [k \in Batches |-> k]
  /\ jobs = <<>> /\ results = <<>>
  /\ jobsClosed = FALSE /\ resultsClosed = FALSE
  /\ firstBlock = [b \in Batches |-> 0]
  /\ n = [b \in Batches |-> 0]
  /\ inputs = [b \in Batches |-> [s \in Slots |-> NoBlock]]
  /\ datas = [b \in Batches |-> [s \in Slots |-> NoData]]
  /\ rpc = "loop" /\ rbatch = NoBatch /\ i = 0 /\ readFailed = FALSE /\ hashed = <<>>
  /\ wpc = [w \in Workers |-> "receive"]
  /\ wbatch = [w \in Workers |-> NoBatch]
  /\ wj = [w \in Workers |-> 0]
  /\ cpc = "receive" /\ cbatch = NoBatch /\ cj = 0
  /\ pending = [x \in 0 .. NumBlocks |-> NoBatch]
  /\ next = 0
  /\ out = <<>>

-----------------------------------------------------------------------------
(* The reader.                                                             *)

\* batch := <-freeBatches, at the top of the reading loop
ReaderTake ==
  /\ rpc = "loop" /\ ~readFailed /\ i < NumBlocks
  /\ free # <<>>
  /\ rbatch' = Head(free)
  /\ free' = Tail(free)
  /\ firstBlock' = [firstBlock EXCEPT ![Head(free)] = i]
  /\ n' = [n EXCEPT ![Head(free)] = 0]
  /\ rpc' = "fill"
  /\ UNCHANGED <<jobs, results, jobsClosed, resultsClosed, inputs, datas,
                 i, readFailed, hashed, workers, collector>>

\* bug: the loop over slots does not stop at batchSize
FillingPastEnd == rpc = "fill" /\ i < NumBlocks

\* the condition of the loop over the slots of a batch
Filling == rpc = "fill" /\ n[rbatch] < BatchSize /\ i < NumBlocks

\* one block read, hashed and appended to the batch
ReaderFill ==
  /\ Filling
  /\ inputs' = [inputs EXCEPT ![rbatch][n[rbatch]] = i]
  /\ hashed' = Append(hashed, i)
  /\ n' = [n EXCEPT ![rbatch] = n[rbatch] + 1]
  /\ i' = i + 1
  /\ UNCHANGED <<channels, firstBlock, datas, rpc, rbatch, readFailed, workers, collector>>

\* the read fails: the batch goes out with the blocks it has
ReaderFail ==
  /\ Filling
  /\ readFailed' = TRUE
  /\ rpc' = "send"
  /\ UNCHANGED <<channels, batch, rbatch, i, hashed, workers, collector>>

\* the batch is full, or the last block is in it
ReaderFilled ==
  /\ rpc = "fill" /\ ~Filling
  /\ rpc' = "send"
  /\ UNCHANGED <<channels, batch, rbatch, i, readFailed, hashed, workers, collector>>

\* jobs <- batch
ReaderSend ==
  /\ rpc = "send"
  /\ Len(jobs) < InFlight
  /\ jobs' = Append(jobs, rbatch)
  /\ rbatch' = NoBatch
  /\ rpc' = "loop"
  /\ UNCHANGED <<free, results, jobsClosed, resultsClosed, batch,
                 i, readFailed, hashed, workers, collector>>

\* close(jobs), after the last block or the break of a failed read
ReaderClose ==
  /\ rpc = "loop" /\ (readFailed \/ i >= NumBlocks)
  /\ jobsClosed' = TRUE
  /\ rpc' = "join"
  /\ UNCHANGED <<free, jobs, results, resultsClosed, batch,
                 rbatch, i, readFailed, hashed, workers, collector>>

\* bug: main goes on without waiting for the collector
JoinTooEarly ==
  /\ rpc = "join"
  /\ rpc' = "done"
  /\ UNCHANGED <<channels, batch, rbatch, i, readFailed, hashed, workers, collector>>

\* <-collectorDone
ReaderJoin ==
  /\ rpc = "join" /\ cpc = "done"
  /\ rpc' = "done"
  /\ UNCHANGED <<channels, batch, rbatch, i, readFailed, hashed, workers, collector>>

Reader == \/ ReaderTake \/ ReaderFill \/ ReaderFail \/ ReaderFilled
          \/ ReaderSend \/ ReaderClose \/ ReaderJoin

-----------------------------------------------------------------------------
(* A worker.                                                               *)

WorkerReceive(w) ==
  /\ wpc[w] = "receive" /\ jobs # <<>>
  /\ wbatch' = [wbatch EXCEPT ![w] = Head(jobs)]
  /\ jobs' = Tail(jobs)
  /\ wj' = [wj EXCEPT ![w] = 0]
  /\ wpc' = [wpc EXCEPT ![w] = "encode"]
  /\ UNCHANGED <<free, results, jobsClosed, resultsClosed, batch, reader, collector>>

\* bug: every block of a batch gets the nonces of the batch's first block
EncodeFirstIndex(w) ==
  /\ wpc[w] = "encode" /\ wj[w] < n[wbatch[w]]
  /\ datas' = [datas EXCEPT ![wbatch[w]][wj[w]] =
                 [block |-> inputs[wbatch[w]][wj[w]], index |-> firstBlock[wbatch[w]]]]
  /\ wj' = [wj EXCEPT ![w] = wj[w] + 1]
  /\ UNCHANGED <<channels, firstBlock, n, inputs, reader, wpc, wbatch, collector>>

\* Process or ProcessEncrypted on slot wj[w]
WorkerEncode(w) ==
  /\ wpc[w] = "encode" /\ wj[w] < n[wbatch[w]]
  /\ datas' = [datas EXCEPT ![wbatch[w]][wj[w]] =
                 [block |-> inputs[wbatch[w]][wj[w]],
                  index |-> firstBlock[wbatch[w]] + wj[w]]]
  /\ wj' = [wj EXCEPT ![w] = wj[w] + 1]
  /\ UNCHANGED <<channels, firstBlock, n, inputs, reader, wpc, wbatch, collector>>

\* results <- batch
WorkerSend(w) ==
  /\ wpc[w] = "encode" /\ wj[w] = n[wbatch[w]]
  /\ Len(results) < InFlight
  /\ results' = Append(results, wbatch[w])
  /\ wbatch' = [wbatch EXCEPT ![w] = NoBatch]
  /\ wpc' = [wpc EXCEPT ![w] = "receive"]
  /\ UNCHANGED <<free, jobs, jobsClosed, resultsClosed, batch, reader, wj, collector>>

\* the range over jobs ends: the channel is closed and empty
WorkerExit(w) ==
  /\ wpc[w] = "receive" /\ jobs = <<>> /\ jobsClosed
  /\ wpc' = [wpc EXCEPT ![w] = "exited"]
  /\ UNCHANGED <<channels, batch, reader, wbatch, wj, collector>>

Worker(w) == WorkerReceive(w) \/ WorkerEncode(w) \/ WorkerSend(w) \/ WorkerExit(w)

\* bug: results is closed when the first worker returns
CloseAfterFirst ==
  /\ ~resultsClosed /\ \E w \in Workers : wpc[w] = "exited"
  /\ resultsClosed' = TRUE
  /\ UNCHANGED <<free, jobs, results, jobsClosed, batch, reader, workers, collector>>

\* the goroutine that waits for the workers and closes results
CloseResults ==
  /\ ~resultsClosed /\ \A w \in Workers : wpc[w] = "exited"
  /\ resultsClosed' = TRUE
  /\ UNCHANGED <<free, jobs, results, jobsClosed, batch, reader, workers, collector>>

-----------------------------------------------------------------------------
(* The collector.                                                          *)

CollectorReceive ==
  /\ cpc = "receive" /\ results # <<>>
  /\ pending' = [pending EXCEPT ![firstBlock[Head(results)]] = Head(results)]
  /\ results' = Tail(results)
  /\ cpc' = "look"
  /\ UNCHANGED <<free, jobs, jobsClosed, resultsClosed, batch, reader, workers,
                 cbatch, cj, next, out>>

\* bug: the batch is not deleted from pending
PickWithoutDelete ==
  /\ cpc = "look" /\ pending[next] # NoBatch
  /\ cbatch' = pending[next]
  /\ cj' = 0
  /\ cpc' = "write"
  /\ UNCHANGED <<channels, batch, reader, workers, pending, next, out>>

\* bug: batches are written as they arrive
PickAny ==
  /\ cpc = "look"
  /\ \E x \in 0 .. NumBlocks :
       /\ pending[x] # NoBatch
       /\ cbatch' = pending[x]
       /\ pending' = [pending EXCEPT ![x] = NoBatch]
  /\ cj' = 0
  /\ cpc' = "write"
  /\ UNCHANGED <<channels, batch, reader, workers, next, out>>

\* the batch that starts at `next' is here: take it out of pending
CollectorPick ==
  /\ cpc = "look" /\ pending[next] # NoBatch
  /\ cbatch' = pending[next]
  /\ pending' = [pending EXCEPT ![next] = NoBatch]
  /\ cj' = 0
  /\ cpc' = "write"
  /\ UNCHANGED <<channels, batch, reader, workers, next, out>>

CollectorMiss ==
  /\ cpc = "look" /\ pending[next] = NoBatch
  /\ cpc' = "receive"
  /\ UNCHANGED <<channels, batch, reader, workers, cbatch, cj, pending, next, out>>

\* the length and the bytes of one encoded block go to the writer
CollectorWrite ==
  /\ cpc = "write" /\ cj < n[cbatch]
  /\ out' = Append(out, datas[cbatch][cj])
  /\ datas' = [datas EXCEPT ![cbatch][cj] = NoData]
  /\ cj' = cj + 1
  /\ UNCHANGED <<channels, firstBlock, n, inputs, reader, workers,
                 cpc, cbatch, pending, next>>

\* bug: a written batch never goes back to the free list
WriteWithoutRecycle ==
  /\ cpc = "write" /\ cj = n[cbatch]
  /\ next' = next + n[cbatch]
  /\ cbatch' = NoBatch
  /\ cpc' = "look"
  /\ UNCHANGED <<channels, batch, reader, workers, cj, pending, out>>

\* next += n; freeBatches <- b
CollectorRecycle ==
  /\ cpc = "write" /\ cj = n[cbatch]
  /\ Len(free) < InFlight
  /\ next' = next + n[cbatch]
  /\ free' = Append(free, cbatch)
  /\ cbatch' = NoBatch
  /\ cpc' = "look"
  /\ UNCHANGED <<jobs, results, jobsClosed, resultsClosed, batch, reader, workers,
                 cj, pending, out>>

\* results is closed and drained: close(collectorDone)
CollectorEnd ==
  /\ cpc = "receive" /\ results = <<>> /\ resultsClosed
  /\ cpc' = "done"
  /\ UNCHANGED <<channels, batch, reader, workers, cbatch, cj, pending, next, out>>

Collector == \/ CollectorReceive \/ CollectorPick \/ CollectorMiss
             \/ CollectorWrite \/ CollectorRecycle \/ CollectorEnd

-----------------------------------------------------------------------------
(* The pool has been joined and main goes on (or returns).                 *)
Done == rpc = "done"
Terminated == Done /\ UNCHANGED vars

Next == \/ Reader \/ (\E w \in Workers : Worker(w)) \/ CloseResults \/ Collector
        \/ Terminated

Spec == Init /\ [][Next]_vars

(* The Go scheduler is preemptive and runs every goroutine that can go on, *)
(* so each goroutine is weakly fair; nothing is assumed of which worker    *)
(* gets a batch.                                                           *)
Fairness == /\ WF_vars(Reader)
            /\ \A w \in Workers : WF_vars(Worker(w))
            /\ WF_vars(CloseResults)
            /\ WF_vars(Collector)

FairSpec == Spec /\ Fairness
-----------------------------------------------------------------------------
(* Properties.                                                             *)

ReaderPC == {"loop", "fill", "send", "join", "done"}
WorkerPC == {"receive", "encode", "exited"}
CollectorPC == {"receive", "look", "write", "done"}
BatchOrNil == Batches \cup {NoBatch}

ChannelTypes ==
  /\ free \in Seq(Batches) /\ jobs \in Seq(Batches) /\ results \in Seq(Batches)
  /\ jobsClosed \in BOOLEAN /\ resultsClosed \in BOOLEAN
BatchTypes ==
  /\ firstBlock \in [Batches -> 0 .. NumBlocks]
  /\ n \in [Batches -> 0 .. BatchSize]
  /\ inputs \in [Batches -> [Slots -> Int]]
  /\ datas \in [Batches -> [Slots -> Encoded]]
ReaderTypes ==
  /\ rpc \in ReaderPC /\ rbatch \in BatchOrNil
  /\ i \in 0 .. NumBlocks /\ readFailed \in BOOLEAN /\ hashed \in Seq(Int)
WorkerTypes ==
  /\ wpc \in [Workers -> WorkerPC] /\ wbatch \in [Workers -> BatchOrNil]
  /\ wj \in [Workers -> 0 .. BatchSize]
CollectorTypes ==
  /\ cpc \in CollectorPC /\ cbatch \in BatchOrNil /\ cj \in 0 .. BatchSize
  /\ pending \in [0 .. NumBlocks -> BatchOrNil]
  /\ next \in 0 .. NumBlocks
  /\ out \in Seq(Encoded)

(* Every variable of the pool has the type the code gives it; next and i   *)
(* stay within the block count, so the uint32 counters never wrap, and no  *)
(* batch ever holds more blocks than it has slots.                         *)
TypeOK == ChannelTypes /\ BatchTypes /\ ReaderTypes /\ WorkerTypes /\ CollectorTypes

(* The goroutines, channels and map entries that hold a batch.             *)
Holders(b) ==
  ({"free"} \X { k \in 1 .. Len(free) : free[k] = b })
    \cup ({"jobs"} \X { k \in 1 .. Len(jobs) : jobs[k] = b })
    \cup ({"results"} \X { k \in 1 .. Len(results) : results[k] = b })
    \cup ({"pending"} \X { x \in 0 .. NumBlocks : pending[x] = b })
    \cup ({"worker"} \X { w \in Workers : wbatch[w] = b })
    \cup (IF rbatch = b THEN {<<"reader", 0>>} ELSE {})
    \cup (IF cbatch = b THEN {<<"collector", 0>>} ELSE {})

(* A batch is always in exactly one place: no two goroutines ever hold the *)
(* same buffers, which nothing but the hand-over protocol protects, and no *)
(* batch is lost from the free list.                                       *)
SingleOwner == \A b \in Batches : \E h \in Holders(b) : Holders(b) = {h}

(* Blocks leave in file order whatever order the workers finish in, each   *)
(* encoding the bytes that were read for it (not those of a later batch    *)
(* that recycled the buffer) under the nonces of its own block index.      *)
InOrder == \A k \in 1 .. Len(out) : out[k] = [block |-> k - 1, index |-> k - 1]

(* When main goes on after the join, every block that was read and hashed  *)
(* has been written, and that is every block unless a read failed.         *)
CompleteAtEnd ==
  Done => /\ Len(out) = Len(hashed)
          /\ \A k \in 1 .. Len(out) : out[k].block = hashed[k]
          /\ readFailed \/ Len(out) = NumBlocks

(* The channels are large enough: a goroutine about to send finds room, so *)
(* no cycle of goroutines each waiting to send can form.                   *)
SendsNeverBlock ==
  /\ rpc = "send" => Len(jobs) < InFlight
  /\ (\E w \in Workers : wpc[w] = "encode") => Len(results) < InFlight
  /\ cpc = "write" => Len(free) < InFlight

(* No goroutine can send on a channel another one has closed, which would  *)
(* panic: jobs is closed by its only sender, results only after every      *)
(* worker has returned and no batch is left to be sent.                    *)
NoSendOnClosed ==
  /\ jobsClosed => rpc \in {"join", "done"}
  /\ resultsClosed => jobsClosed /\ jobs = <<>> /\ \A w \in Workers : wpc[w] = "exited"

(* The pool implements the ordered pipe: batches in flight are bounded by  *)
(* the free list, "batches cycle through a free list that bounds blocks in *)
(* flight" (main.go:528).                                                  *)
OwnItem(k) == [block |-> k, index |-> k]
Pipe == INSTANCE OrderedPipe WITH
          accepted <- i, failed <- readFailed, ended <- Done, crashed <- FALSE,
          Capacity <- InFlight * BatchSize, Item <- OwnItem
ImplementsPipe == Pipe!Spec

(* Compression ends: main never waits for ever on the free list or on      *)
(* collectorDone.                                                          *)
Terminates == <>Done
=============================================================================
